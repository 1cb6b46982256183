--------------------------- MODULE CarvingProofs ---------------------------
(***************************************************************************)
(* What carve() returns (Carving): for any data, its files lie in it, hold *)
(* its bytes and ascend, and those with a footer do not change when more   *)
(* bytes follow.  The loop is reasoned about as a recursive function.      *)
(***************************************************************************)
EXTENDS Carving, DataLemmas, SequenceTheorems

\* A slice within the data (data[a:b]) has b - a bytes, those from a on.
LEMMA SliceRight ==
  ASSUME NEW S, NEW data \in Seq(S), NEW a \in Nat, NEW b \in a..Len(data)
  PROVE  /\ Slice(data, a, b) \in Seq(S) /\ Len(Slice(data, a, b)) = b - a
         /\ \A i \in 1..(b - a) : Slice(data, a, b)[i] = data[a + i]
<1>1. Len(data) \in Nat
  BY LenProperties
<1> QED BY <1>1, SubSeqProperties DEF Slice

\* What Find reports (bytes.find, or the least of several) lies in the data from where
\* it looked, and the pattern found there fits into it.
LEMMA FindRight ==
  ASSUME NEW data \in Seq(Byte), NEW patterns, NEW from \in Nat,
         Find(data, patterns, from) # NotFound
  PROVE  /\ Find(data, patterns, from) \in from..(Len(data) - 1)
         /\ \E p \in patterns : Find(data, patterns, from) + Len(p) <= Len(data)
<1> DEFINE hits == {i \in from..Len(data) - 1 :
                      \E p \in patterns : i + Len(p) <= Len(data) /\ Slice(data, i, i + Len(p)) = p}
<1>1. Find(data, patterns, from) = IF hits = {} THEN NotFound ELSE Min(hits)
  BY DEF Find
<1>2. hits # {} /\ Find(data, patterns, from) = Min(hits)
  BY <1>1
<1>3. Len(data) \in Nat
  BY LenProperties
<1>4. hits \in SUBSET Nat
  BY <1>3
<1>5. Min(hits) \in hits
  <2> HIDE DEF hits
  <2>1. \E x \in hits : \A y \in hits : x <= y
    BY <1>2, <1>4, LeastNatural
  <2> QED BY <2>1 DEF Min
<1> QED BY <1>2, <1>5

\* A carver with headers knows their length.
LEMMA HeaderRight ==
  ASSUME NEW k \in Kinds, Headers[k] # {}
  PROVE  HeaderLen(k) \in Nat
<1>1. (CHOOSE h \in Headers[k] : TRUE) \in Headers[k]
  OBVIOUS
<1> QED BY <1>1, CarvingAssumption, LenProperties DEF HeaderLen

\* A file that is found (the carvers' size fields and footers) ends behind its start
\* and not behind the data.
LEMMA EndRight ==
  ASSUME NEW k \in Kinds, NEW data \in Seq(Byte), NEW start \in 0..(Len(data) - 1),
         Headers[k] # {}, EndOf(k, data, start) # NotFound
  PROVE  EndOf(k, data, start) \in (start + 1)..Len(data)
<1>0. HeaderLen(k) \in Nat /\ Len(data) \in Nat
  BY HeaderRight, LenProperties
<1>1. CASE k \in Sized
  <2> DEFINE field == start + HeaderLen(k)
             size  == Declared[data[field + 1]]
  <2>1. EndOf(k, data, start) = DeclaredEnd(k, data, start)
    BY <1>1 DEF EndOf
  <2>2. ~(field >= Len(data)) /\ size # 0 /\ ~(start + size > Len(data)) /\ DeclaredEnd(k, data, start) = start + size
    BY <2>1 DEF DeclaredEnd
  <2>3. data[field + 1] \in Byte
    BY <1>0, <2>2, ElementOfSeq
  <2>4. size \in Nat
    BY <2>3, CarvingAssumption
  <2> QED BY <1>0, <2>1, <2>2, <2>4
<1>2. CASE k \notin Sized
  <2> DEFINE footer == Find(data, {Footer[k]}, start + HeaderLen(k))
  <2>1. EndOf(k, data, start) = FooterEnd(k, data, start)
    BY <1>2 DEF EndOf
  <2>2. footer # NotFound /\ FooterEnd(k, data, start) = footer + Len(Footer[k])
    BY <2>1 DEF FooterEnd
  <2>3. footer \in (start + HeaderLen(k))..(Len(data) - 1) /\ footer + Len(Footer[k]) <= Len(data)
    <3>1. start + HeaderLen(k) \in Nat
      BY <1>0
    <3> QED BY <2>2, <3>1, FindRight
  <2>4. Len(Footer[k]) \in Nat /\ Len(Footer[k]) > 0
    BY <1>2, CarvingAssumption, LenProperties
  <2> QED BY <1>0, <2>1, <2>2, <2>3, <2>4
<1> QED BY <1>1, <1>2

\* What a carver may report of the data: a file that is not empty, lies within the data
\* and holds the bytes from its start to its end.
CarvedFile(data) ==
  {f \in [kind : Kinds, start : Nat, end : Nat, data : Seq(Byte)] :
     f.start < f.end /\ f.end <= Len(data) /\ f.data = Slice(data, f.start, f.end)}

\* The file of a header at start, what the carver reports of that header, and where it
\* goes on after it.
FileAt(k, data, start) ==
  [kind |-> k, start |-> start, end |-> EndOf(k, data, start),
   data |-> Slice(data, start, EndOf(k, data, start))]

FoundAt(k, data, start) ==
  IF EndOf(k, data, start) = NotFound \/ EndOf(k, data, start) - start < MinSize[k] THEN <<>>
  ELSE <<FileAt(k, data, start)>>

ResumeAt(k, data, start) ==
  IF EndOf(k, data, start) = NotFound THEN start + 1 ELSE EndOf(k, data, start)

\* One round of the loop of a carver: of the header it finds it reports nothing or one
\* file, which starts there and at whose end it goes on; it always goes on further
\* behind.
LEMMA FoundRight ==
  ASSUME NEW k \in Kinds, NEW data \in Seq(Byte), NEW start \in 0..(Len(data) - 1), Headers[k] # {}
  PROVE  /\ FoundAt(k, data, start) \in Seq(CarvedFile(data))
         /\ FoundAt(k, data, start) = <<>>
            \/ /\ FoundAt(k, data, start) = <<FileAt(k, data, start)>>
               /\ FileAt(k, data, start) \in CarvedFile(data)
               /\ ResumeAt(k, data, start) = FileAt(k, data, start).end
               /\ FileAt(k, data, start).start = start
         /\ ResumeAt(k, data, start) \in (start + 1)..Len(data)
<1>0. Len(data) \in Nat
  BY LenProperties
<1>1. ResumeAt(k, data, start) \in (start + 1)..Len(data)
  BY <1>0, EndRight DEF ResumeAt
<1>2. CASE FoundAt(k, data, start) = <<>>
  BY <1>1, <1>2
<1>3. CASE FoundAt(k, data, start) # <<>>
  <2>1. EndOf(k, data, start) \in (start + 1)..Len(data)
        /\ FoundAt(k, data, start) = <<FileAt(k, data, start)>>
    BY <1>3, EndRight DEF FoundAt
  <2>2. Slice(data, start, EndOf(k, data, start)) \in Seq(Byte)
    <3>1. start \in Nat /\ EndOf(k, data, start) \in start..Len(data)
      BY <1>0, <2>1
    <3> QED BY <3>1, SliceRight
  <2>3. FileAt(k, data, start) \in CarvedFile(data)
    BY <1>0, <2>1, <2>2 DEF FileAt, CarvedFile
  <2>4. ResumeAt(k, data, start) = EndOf(k, data, start)
    BY <1>0, <2>1 DEF ResumeAt, NotFound
  <2> QED BY <1>1, <2>1, <2>3, <2>4 DEF FileAt
<1> QED BY <1>2, <1>3

\* F gives for every offset what the carver's loop finds from there on.
CarveFrom(F, k, data) ==
  \A o \in 0..Len(data) :
     LET start == Find(data, Headers[k], o)
     IN  F[o] = IF start = NotFound THEN <<>>
                ELSE FoundAt(k, data, start) \o F[ResumeAt(k, data, start)]

\* carve() is a loop: there is a function F of the offset that unfolds round by round,
\* and the carver's result is F from the first byte. What follows about carve() is
\* induction over that function.
LEMMA CarveUnfolds ==
  ASSUME NEW k \in Kinds, NEW data \in Seq(Byte)
  PROVE  \E F \in [0..Len(data) -> Seq(CarvedFile(data))] :
            CarveFrom(F, k, data) /\ F[0] = Carve(k, data)
<1>0. Len(data) \in Nat
  BY LenProperties
<1> DEFINE n == Len(data)
           V == Seq(CarvedFile(data))
           at(o) == Find(data, Headers[k], o)
           stop == [o \in 0..n |-> at(o) = NotFound]
           next == [o \in 0..n |-> IF at(o) = NotFound THEN 0 ELSE ResumeAt(k, data, at(o))]
           step == [p \in (0..n) \X V |-> IF at(p[1]) = NotFound THEN <<>>
                                          ELSE FoundAt(k, data, at(p[1])) \o p[2]]
           Body(F, o) == IF at(o) = NotFound THEN <<>>
                         ELSE FoundAt(k, data, at(o)) \o F[ResumeAt(k, data, at(o))]
<1>1. ASSUME NEW o \in 0..n, at(o) # NotFound
      PROVE  /\ at(o) \in o..(n - 1) /\ at(o) \in 0..(n - 1)
             /\ FoundAt(k, data, at(o)) \in V
             /\ ResumeAt(k, data, at(o)) \in (o + 1)..n
  <2>1. at(o) \in o..(n - 1) /\ Headers[k] # {}
    BY <1>0, <1>1, FindRight
  <2> HIDE DEF at
  <2>2. at(o) \in 0..(n - 1)
    BY <1>0, <2>1
  <2>3. FoundAt(k, data, at(o)) \in V /\ ResumeAt(k, data, at(o)) \in (at(o) + 1)..n
    BY <2>1, <2>2, FoundRight
  <2> QED BY <1>0, <2>1, <2>2, <2>3
<1>9. PICK g : IsForward(g, n, V, <<>>, step, stop, next)
  <2>1. <<>> \in V /\ stop \in [0..n -> BOOLEAN] /\ n \in Nat
    BY <1>0
  <2>2. stop \in [0..n -> BOOLEAN] /\ next \in [0..n -> Int] /\ \A o \in 0..n : ~stop[o] => next[o] \in (o + 1)..n
    <3> HIDE DEF at
    <3>1. ASSUME NEW o \in 0..n
          PROVE  /\ (IF at(o) = NotFound THEN 0 ELSE ResumeAt(k, data, at(o))) \in Int
                 /\ ~stop[o] => next[o] \in (o + 1)..n
      <4>1. CASE at(o) = NotFound
        <5>1. stop[o] /\ (IF at(o) = NotFound THEN 0 ELSE ResumeAt(k, data, at(o))) = 0
          BY <4>1
        <5> HIDE DEF stop, next
        <5> QED BY <5>1
      <4>2. CASE at(o) # NotFound
        <5>1. ResumeAt(k, data, at(o)) \in (o + 1)..n
          BY <1>1, <4>2
        <5>2. next[o] = ResumeAt(k, data, at(o))
          BY <4>2
        <5> HIDE DEF next
        <5> QED BY <1>0, <4>2, <5>1, <5>2
      <4> QED BY <4>1, <4>2
    <3> QED BY <3>1
  <2>3. step \in [(0..n) \X V -> V]
    <3> SUFFICES ASSUME NEW p \in (0..n) \X V
                 PROVE  (IF at(p[1]) = NotFound THEN <<>> ELSE FoundAt(k, data, at(p[1])) \o p[2]) \in V
      OBVIOUS
    <3>1. p[1] \in 0..n /\ p[2] \in V
      OBVIOUS
    <3>2. CASE at(p[1]) # NotFound
      <4>1. FoundAt(k, data, at(p[1])) \in V
        BY <1>1, <3>1, <3>2
      <4> QED BY <3>1, <3>2, <4>1, ConcatProperties
    <3> QED BY <2>1, <3>2
  <2> HIDE DEF stop, next, step, n, V
  <2>4. Forward(n, stop, next)
    BY <2>2 DEF Forward
  <2> QED BY <2>1, <2>3, <2>4, ForwardRecursion, Zenon
<1>2. g \in [0..n -> V] /\ \A o \in 0..n : g[o] = IF stop[o] THEN <<>> ELSE step[<<o, g[next[o]]>>]
  <2> HIDE DEF stop, next, step, n, V
  <2> QED BY <1>9 DEF IsForward
<1>3. \A o \in 0..n : g[o] = Body(g, o)
  <2> SUFFICES ASSUME NEW o \in 0..n PROVE g[o] = Body(g, o)
    OBVIOUS
  <2> HIDE DEF at, V
  <2>1. CASE at(o) = NotFound
    BY <1>2, <2>1
  <2>2. CASE at(o) # NotFound
    <3>1. next[o] = ResumeAt(k, data, at(o)) /\ next[o] \in 0..n
      BY <1>0, <1>1, <2>2
    <3>2. <<o, g[next[o]]>> \in (0..n) \X V
      BY <1>2, <3>1
    <3>3. step[<<o, g[next[o]]>>] = FoundAt(k, data, at(o)) \o g[next[o]]
      BY <2>2, <3>2
    <3> QED BY <1>2, <2>2, <3>1, <3>3
  <2> QED BY <2>1, <2>2
<1> DEFINE Equation(F) ==
      F = [offset \in 0..n |->
             LET start == Find(data, Headers[k], offset)
                 end   == EndOf(k, data, start)
                 file  == [kind |-> k, start |-> start, end |-> end,
                           data |-> Slice(data, start, end)]
             IN  IF start = NotFound THEN <<>>
                 ELSE IF end = NotFound THEN F[start + 1]
                 ELSE (IF end - start >= MinSize[k] THEN <<file>> ELSE <<>>) \o F[end]]
<1>4. Equation(g)
  <2> SUFFICES ASSUME NEW o \in 0..n
               PROVE  g[o] = LET start == Find(data, Headers[k], o)
                                 end   == EndOf(k, data, start)
                                 file  == [kind |-> k, start |-> start, end |-> end,
                                           data |-> Slice(data, start, end)]
                             IN  IF start = NotFound THEN <<>>
                                 ELSE IF end = NotFound THEN g[start + 1]
                                 ELSE (IF end - start >= MinSize[k] THEN <<file>> ELSE <<>>) \o g[end]
    BY <1>2
  <2>1. CASE at(o) = NotFound
    BY <1>3, <2>1
  <2>2. CASE at(o) # NotFound /\ EndOf(k, data, at(o)) = NotFound
    <3>1. FoundAt(k, data, at(o)) = <<>> /\ ResumeAt(k, data, at(o)) = at(o) + 1
      BY <2>2 DEF FoundAt, ResumeAt
    <3>2. at(o) + 1 \in 0..n
      BY <1>0, <1>1, <2>2, <3>1
    <3>3. <<>> \o g[at(o) + 1] = g[at(o) + 1]
      BY <1>2, <3>2, ConcatEmptySeq
    <3>4. g[o] = FoundAt(k, data, at(o)) \o g[ResumeAt(k, data, at(o))]
      BY <1>3, <2>2
    <3> QED BY <2>2, <3>1, <3>3, <3>4
  <2>3. CASE at(o) # NotFound /\ EndOf(k, data, at(o)) # NotFound
    <3>1. at(o) \in Int /\ EndOf(k, data, at(o)) \in Int /\ MinSize[k] \in Int
      <4>1. at(o) \in 0..(n - 1) /\ Headers[k] # {}
        BY <1>0, <1>1, <2>3, FindRight
      <4> HIDE DEF at
      <4>2. EndOf(k, data, at(o)) \in (at(o) + 1)..n
        BY <2>3, <4>1, EndRight
      <4> QED BY <4>1, <4>2, CarvingAssumption
    <3>2. FoundAt(k, data, at(o)) = IF EndOf(k, data, at(o)) - at(o) >= MinSize[k]
                                    THEN <<FileAt(k, data, at(o))>> ELSE <<>>
      BY <2>3, <3>1 DEF FoundAt
    <3>3. ResumeAt(k, data, at(o)) = EndOf(k, data, at(o))
      BY <2>3 DEF ResumeAt
    <3> QED BY <1>3, <2>3, <3>2, <3>3 DEF FileAt
  <2> QED BY <2>1, <2>2, <2>3
<1>5. PICK F : Equation(F) /\ Carve(k, data) = F[0]
  <2> HIDE DEF Equation
  <2>1. Equation(CHOOSE F : Equation(F))
    BY <1>4
  <2>2. Carve(k, data) = (CHOOSE F : Equation(F))[0]
    BY DEF Carve, Equation
  <2> QED BY <2>1, <2>2
<1>6. ASSUME NEW o \in 0..n
      PROVE  F[o] = IF at(o) = NotFound THEN <<>>
                    ELSE IF EndOf(k, data, at(o)) = NotFound THEN F[at(o) + 1]
                    ELSE FoundAt(k, data, at(o)) \o F[EndOf(k, data, at(o))]
  <2>1. F[o] = LET start == Find(data, Headers[k], o)
                   end   == EndOf(k, data, start)
                   file  == [kind |-> k, start |-> start, end |-> end,
                             data |-> Slice(data, start, end)]
               IN  IF start = NotFound THEN <<>>
                   ELSE IF end = NotFound THEN F[start + 1]
                   ELSE (IF end - start >= MinSize[k] THEN <<file>> ELSE <<>>) \o F[end]
    BY <1>5
  <2> HIDE DEF Equation
  <2>2. CASE at(o) # NotFound /\ EndOf(k, data, at(o)) # NotFound
    <3>1. at(o) \in Int /\ EndOf(k, data, at(o)) \in Int /\ MinSize[k] \in Int
      <4>1. at(o) \in 0..(n - 1) /\ Headers[k] # {}
        BY <1>0, <1>1, <2>2, FindRight
      <4> HIDE DEF at
      <4>2. EndOf(k, data, at(o)) \in (at(o) + 1)..n
        BY <2>2, <4>1, EndRight
      <4> QED BY <4>1, <4>2, CarvingAssumption
    <3>2. FoundAt(k, data, at(o)) = IF EndOf(k, data, at(o)) - at(o) >= MinSize[k]
                                    THEN <<FileAt(k, data, at(o))>> ELSE <<>>
      BY <2>2, <3>1 DEF FoundAt
    <3> QED BY <2>1, <2>2, <3>2 DEF FileAt
  <2> QED BY <2>1, <2>2
<1>7. \A o \in 0..n : F[o] \in V
  <2> DEFINE Bad == {o \in 0..n : F[o] \notin V}
  <2> SUFFICES ASSUME Bad # {} PROVE FALSE
    OBVIOUS
  <2>1. PICK o \in Bad : \A p \in Bad : o >= p
    <3>1. Bad \in SUBSET Nat /\ \A p \in Bad : p <= n
      BY <1>0
    <3>2. n \in Nat
      BY <1>0
    <3> HIDE DEF Bad, n
    <3> QED BY <3>1, <3>2, GreatestNatural
  <2> HIDE DEF Equation, at, V
  <2>2. CASE at(o) = NotFound
    <3>1. F[o] = <<>>
      BY <1>6, <2>1, <2>2
    <3>2. F[o] \in V
      BY <3>1, EmptySeq DEF V
    <3>3. F[o] \notin V
      BY <2>1
    <3> QED BY <3>2, <3>3
  <2>3. CASE at(o) # NotFound
    <3>1. FoundAt(k, data, at(o)) \in V /\ ResumeAt(k, data, at(o)) \in (o + 1)..n
      BY <1>1, <2>1, <2>3
    <3>2. F[ResumeAt(k, data, at(o))] \in V
      BY <1>0, <2>1, <3>1
    <3>3. CASE EndOf(k, data, at(o)) = NotFound
      BY <1>6, <2>1, <2>3, <3>2, <3>3 DEF ResumeAt
    <3>4. CASE EndOf(k, data, at(o)) # NotFound
      <4>1. F[o] = FoundAt(k, data, at(o)) \o F[ResumeAt(k, data, at(o))]
        BY <1>6, <2>1, <2>3, <3>4 DEF ResumeAt
      <4>2. F[o] \in V
        BY <3>1, <3>2, <4>1, ConcatProperties DEF V
      <4> QED BY <2>1, <4>2
    <3> QED BY <3>3, <3>4
  <2> QED BY <2>2, <2>3
<1>8. \A o \in 0..n : F[o] = Body(F, o)
  <2> SUFFICES ASSUME NEW o \in 0..n PROVE F[o] = Body(F, o)
    OBVIOUS
  <2> HIDE DEF Equation, at
  <2>1. CASE at(o) # NotFound /\ EndOf(k, data, at(o)) = NotFound
    <3>1. ResumeAt(k, data, at(o)) = at(o) + 1 /\ at(o) + 1 \in 0..n
      <4>1. ResumeAt(k, data, at(o)) = at(o) + 1
        BY <2>1 DEF ResumeAt
      <4>2. ResumeAt(k, data, at(o)) \in (o + 1)..n
        BY <1>1, <2>1
      <4> QED BY <1>0, <4>1, <4>2
    <3>2. <<>> \o F[at(o) + 1] = F[at(o) + 1]
      BY <1>7, <3>1, ConcatEmptySeq
    <3> QED BY <1>6, <2>1, <3>1, <3>2 DEF FoundAt
  <2>2. CASE at(o) # NotFound /\ EndOf(k, data, at(o)) # NotFound
    BY <1>6, <2>2 DEF ResumeAt
  <2>3. CASE at(o) = NotFound
    BY <1>6, <2>3
  <2> QED BY <2>1, <2>2, <2>3
<1>10. F \in [0..n -> V]
  <2>1. F = [o \in 0..n |-> F[o]]
    BY <1>5
  <2> HIDE DEF Equation, V
  <2> QED BY <1>7, <2>1
<1> HIDE DEF Equation
<1> QED BY <1>5, <1>8, <1>10 DEF CarveFrom

\* No file starts before the one before it has ended.
Ascending(files) == \A i, j \in DOMAIN files : i < j => files[i].end <= files[j].start

\* Whatever the data, a carver (carving/) reports files that lie in the data, hold its
\* bytes, ascend, and do not share a byte.
LEMMA CarveRight ==
  ASSUME NEW k \in Kinds, NEW data \in Seq(Byte)
  PROVE  Carve(k, data) \in Seq(CarvedFile(data)) /\ Ascending(Carve(k, data))
<1> DEFINE n == Len(data)
           V == Seq(CarvedFile(data))
           at(o) == Find(data, Headers[k], o)
<1>1. PICK F \in [0..n -> V] : CarveFrom(F, k, data) /\ F[0] = Carve(k, data)
  BY CarveUnfolds
<1>2. n \in Nat
  BY LenProperties
<1> HIDE DEF n
<1> DEFINE Good(o) == Ascending(F[o]) /\ \A i \in DOMAIN F[o] : F[o][i].start >= o
           Bad == {o \in 0..n : ~Good(o)}
<1>3. Bad = {}
  <2> SUFFICES ASSUME Bad # {} PROVE FALSE
    OBVIOUS
  <2>1. PICK o \in Bad : \A p \in Bad : o >= p
    <3>1. Bad \in SUBSET Nat /\ \A p \in Bad : p <= n
      BY <1>2
    <3> HIDE DEF Bad
    <3> QED BY <1>2, <3>1, GreatestNatural
  <2>2. o \in 0..n /\ F[o] \in V
    BY <1>1, <2>1
  <2>3. F[o] = IF at(o) = NotFound THEN <<>> ELSE FoundAt(k, data, at(o)) \o F[ResumeAt(k, data, at(o))]
    BY <1>1, <2>2 DEF CarveFrom, n
  <2>4. CASE F[o] = <<>>
    BY <2>1, <2>4 DEF Ascending
  <2>5. CASE F[o] # <<>>
    <3>1. at(o) # NotFound /\ at(o) \in o..(n - 1) /\ at(o) \in 0..(n - 1) /\ Headers[k] # {}
      BY <1>2, <2>2, <2>3, <2>5, FindRight DEF n
    <3> HIDE DEF at, V
    <3> DEFINE next == ResumeAt(k, data, at(o))
               out == FoundAt(k, data, at(o))
    <3>2. /\ out \in V /\ next \in (at(o) + 1)..n
          /\ out = <<>> \/ /\ out = <<FileAt(k, data, at(o))>>
                           /\ next = FileAt(k, data, at(o)).end
                           /\ FileAt(k, data, at(o)).start = at(o)
      BY <3>1, FoundRight DEF n, V
    <3>3. next \in 0..n /\ next > o /\ F[next] \in V /\ F[o] = out \o F[next]
      <4>1. o \in Nat /\ n \in Nat /\ at(o) \in Nat /\ at(o) >= o
        BY <1>2, <2>2, <3>1
      <4>2. next \in 0..n /\ next > o
        <5> HIDE DEF next
        <5> QED BY <3>2, <4>1
      <4>3. F[o] = out \o F[next]
        BY <2>3, <3>1
      <4> HIDE DEF next, out
      <4> QED BY <1>1, <4>2, <4>3
    <3> HIDE DEF next, out
    <3>4. Good(next)
      BY <2>1, <3>3
    <3>5. CASE out = <<>>
      <4>1. F[o] = F[next]
        BY <3>3, <3>5, ConcatEmptySeq DEF V
      <4>2. \A i \in DOMAIN F[o] : F[o][i].start \in Nat
        BY <2>2, LenProperties, ElementOfSeq DEF V, CarvedFile
      <4>3. Good(o)
        BY <2>2, <3>3, <3>4, <4>1, <4>2
      <4> QED BY <2>1, <4>3
    <3>6. CASE out # <<>>
      <4> DEFINE head == FileAt(k, data, at(o))
      <4>1. out = <<head>> /\ Len(out) = 1 /\ out[1] = head /\ next = head.end /\ head.start = at(o)
        BY <3>2, <3>6
      <4> HIDE DEF head
      <4>2. Len(F[next]) \in Nat /\ DOMAIN F[next] = 1..Len(F[next])
        BY <3>3, LenProperties DEF V
      <4>3. DOMAIN F[o] = 1..(1 + Len(F[next]))
            /\ \A i \in 1..(1 + Len(F[next])) : F[o][i] = IF i <= 1 THEN out[i] ELSE F[next][i - 1]
        BY <2>2, <3>2, <3>3, <4>1, ConcatProperties, LenProperties DEF V
      <4>4. F[o][1] = head /\ \A i \in 2..(1 + Len(F[next])) : F[o][i] = F[next][i - 1] /\ i - 1 \in DOMAIN F[next]
        BY <4>1, <4>2, <4>3
      <4>5. \A i \in DOMAIN F[next] : F[next][i].start \in Nat
        BY <3>3, <4>2, ElementOfSeq DEF V, CarvedFile
      <4>6. \A i \in DOMAIN F[o] : F[o][i].start >= o
        <5> SUFFICES ASSUME NEW i \in DOMAIN F[o] PROVE F[o][i].start >= o
          OBVIOUS
        <5>1. CASE i = 1
          BY <3>1, <4>1, <4>4, <5>1
        <5>2. CASE i # 1
          <6>1. i \in 2..(1 + Len(F[next]))
            BY <4>2, <4>3, <5>2
          <6>2. F[o][i] = F[next][i - 1] /\ i - 1 \in DOMAIN F[next]
            BY <4>4, <6>1
          <6>3. F[next][i - 1].start \in Nat /\ F[next][i - 1].start >= next
            BY <3>4, <4>5, <6>2
          <6> QED BY <2>2, <3>3, <6>2, <6>3
        <5> QED BY <5>1, <5>2
      <4>7. Ascending(F[o])
        <5> SUFFICES ASSUME NEW i \in DOMAIN F[o], NEW j \in DOMAIN F[o], i < j
                     PROVE  F[o][i].end <= F[o][j].start
          BY DEF Ascending
        <5>1. j \in 2..(1 + Len(F[next]))
          BY <4>2, <4>3
        <5>2. CASE i = 1
          BY <3>3, <3>4, <4>1, <4>4, <5>1, <5>2
        <5>3. CASE i # 1
          <6>1. i \in 2..(1 + Len(F[next]))
            BY <4>2, <4>3, <5>3
          <6>2. /\ F[o][i] = F[next][i - 1] /\ i - 1 \in DOMAIN F[next]
                /\ F[o][j] = F[next][j - 1] /\ j - 1 \in DOMAIN F[next]
            BY <4>4, <5>1, <6>1
          <6>3. i - 1 < j - 1
            BY <4>2, <5>1, <6>1
          <6> QED BY <3>4, <6>2, <6>3 DEF Ascending
        <5> QED BY <5>2, <5>3
      <4> QED BY <2>1, <4>6, <4>7
    <3> QED BY <3>5, <3>6
  <2> QED BY <2>4, <2>5
<1>4. Good(0)
  <2> HIDE DEF Good
  <2>1. 0 \in 0..n
    BY <1>2
  <2>2. 0 \notin Bad
    BY <1>3, Zenon
  <2> QED BY <2>1, <2>2
<1> QED BY <1>1, <1>2, <1>4

-----------------------------------------------------------------------------
(* Slices of slices.                                                          *)

\* A slice of a slice is a slice of the data.
LEMMA SliceSlice ==
  ASSUME NEW S, NEW data \in Seq(S), NEW a \in Nat, NEW b \in a..Len(data),
         NEW c \in 0..(b - a), NEW d \in c..(b - a)
  PROVE  Slice(Slice(data, a, b), c, d) = Slice(data, a + c, a + d)
<1>0. Len(data) \in Nat
  BY LenProperties
<1> DEFINE inner == Slice(data, a, b)
           left  == Slice(inner, c, d)
           right == Slice(data, a + c, a + d)
<1>1. inner \in Seq(S) /\ Len(inner) = b - a /\ \A i \in 1..(b - a) : inner[i] = data[a + i]
  BY SliceRight
<1>2. left \in Seq(S) /\ Len(left) = d - c /\ \A i \in 1..(d - c) : left[i] = inner[c + i]
  <2>1. c \in Nat /\ d \in c..Len(inner)
    BY <1>1
  <2> HIDE DEF inner
  <2>2. inner \in Seq(S)
    BY <1>1
  <2> QED BY <2>1, <2>2, SliceRight
<1>3. right \in Seq(S) /\ Len(right) = d - c /\ \A i \in 1..(d - c) : right[i] = data[a + c + i]
  <2>1. a + c \in Nat /\ a + d \in (a + c)..Len(data) /\ (a + d) - (a + c) = d - c
    BY <1>0
  <2>2. right \in Seq(S) /\ Len(right) = (a + d) - (a + c)
        /\ \A i \in 1..((a + d) - (a + c)) : right[i] = data[a + c + i]
    BY <2>1, SliceRight
  <2> QED BY <2>1, <2>2
<1> HIDE DEF inner, left, right
<1>4. \A i \in 1..Len(left) : left[i] = right[i]
  <2> SUFFICES ASSUME NEW i \in 1..(d - c) PROVE left[i] = right[i]
    BY <1>2
  <2>1. c + i \in 1..(b - a) /\ a + (c + i) = a + c + i
    OBVIOUS
  <2> QED BY <1>1, <1>2, <1>3, <2>1
<1>5. left = right
  BY <1>2, <1>3, <1>4, SeqEqual
<1> QED BY <1>5 DEF left, right, inner

\* Two slices one behind the other are one slice.
LEMMA SliceJoin ==
  ASSUME NEW S, NEW data \in Seq(S), NEW a \in Nat, NEW b \in a..Len(data), NEW c \in b..Len(data)
  PROVE  Slice(data, a, b) \o Slice(data, b, c) = Slice(data, a, c)
<1>0. Len(data) \in Nat /\ b \in Nat /\ c \in a..Len(data)
  BY LenProperties
<1> DEFINE x == Slice(data, a, b)
           y == Slice(data, b, c)
           z == Slice(data, a, c)
<1>1. x \in Seq(S) /\ Len(x) = b - a /\ \A i \in 1..(b - a) : x[i] = data[a + i]
  BY SliceRight
<1>2. y \in Seq(S) /\ Len(y) = c - b /\ \A i \in 1..(c - b) : y[i] = data[b + i]
  BY <1>0, SliceRight
<1>3. z \in Seq(S) /\ Len(z) = c - a /\ \A i \in 1..(c - a) : z[i] = data[a + i]
  BY <1>0, SliceRight
<1> HIDE DEF x, y, z
<1>4. x \o y \in Seq(S) /\ Len(x \o y) = c - a
      /\ \A i \in 1..(c - a) : (x \o y)[i] = IF i <= b - a THEN x[i] ELSE y[i - (b - a)]
  <2>1. Len(x) + Len(y) = c - a
    BY <1>0, <1>1, <1>2
  <2>2. x \o y \in Seq(S) /\ Len(x \o y) = Len(x) + Len(y)
        /\ \A i \in 1..(Len(x) + Len(y)) : (x \o y)[i] = IF i <= Len(x) THEN x[i] ELSE y[i - Len(x)]
    BY <1>1, <1>2, ConcatProperties
  <2> QED BY <1>1, <2>1, <2>2
<1>5. \A i \in 1..(c - a) : (x \o y)[i] = z[i]
  <2> SUFFICES ASSUME NEW i \in 1..(c - a) PROVE (x \o y)[i] = z[i]
    OBVIOUS
  <2>1. CASE i <= b - a
    <3>1. i \in 1..(b - a)
      BY <1>0, <2>1
    <3> QED BY <1>1, <1>3, <1>4, <2>1, <3>1
  <2>2. CASE ~(i <= b - a)
    <3>1. i - (b - a) \in 1..(c - b) /\ b + (i - (b - a)) = a + i
      BY <1>0, <2>2
    <3> QED BY <1>2, <1>3, <1>4, <2>2, <3>1
  <2> QED BY <2>1, <2>2
<1>6. x \o y = z
  <2>1. \A i \in 1..Len(x \o y) : (x \o y)[i] = z[i]
    BY <1>4, <1>5
  <2>2. x \o y \in Seq(S) /\ z \in Seq(S) /\ Len(x \o y) = Len(z)
    BY <1>3, <1>4
  <2> QED BY <2>1, <2>2, SeqEqual
<1> QED BY <1>6 DEF x, y, z

\* A file found in a window, moved to where the window is in the image.
Moved(base, f) == [f EXCEPT !.start = base + f.start, !.end = base + f.end]

\* A file that was carved from a slice, moved by the place of the slice as the scanners
\* do with what they carve from a window, is a file of the data with the same bytes.
LEMMA MovedRight ==
  ASSUME NEW data \in Seq(Byte), NEW a \in Nat, NEW b \in a..Len(data),
         NEW f \in CarvedFile(Slice(data, a, b))
  PROVE  /\ Moved(a, f) \in CarvedFile(data)
         /\ Moved(a, f).start = a + f.start /\ Moved(a, f).end = a + f.end
         /\ a + f.end <= b
<1>0. Len(data) \in Nat /\ Len(Slice(data, a, b)) = b - a
  BY LenProperties, SliceRight
<1>1. /\ f \in [kind : Kinds, start : Nat, end : Nat, data : Seq(Byte)]
      /\ f.start < f.end /\ f.end <= b - a /\ f.data = Slice(Slice(data, a, b), f.start, f.end)
  BY <1>0 DEF CarvedFile
<1>2. f.start \in 0..(b - a) /\ f.end \in f.start..(b - a)
  BY <1>1
<1>3. f.data = Slice(data, a + f.start, a + f.end)
  BY <1>1, <1>2, SliceSlice
<1>4. /\ Moved(a, f) \in [kind : Kinds, start : Nat, end : Nat, data : Seq(Byte)]
      /\ Moved(a, f).start = a + f.start /\ Moved(a, f).end = a + f.end /\ Moved(a, f).data = f.data
  <2> DEFINE g == [f EXCEPT !.start = a + f.start]
  <2>1. /\ g \in [kind : Kinds, start : Nat, end : Nat, data : Seq(Byte)]
        /\ g.start = a + f.start /\ g.data = f.data
    BY <1>1
  <2>2. Moved(a, f) = [g EXCEPT !.end = a + f.end]
    BY DEF Moved
  <2> HIDE DEF g
  <2>3. a + f.end \in Nat
    BY <1>1
  <2> QED BY <2>1, <2>2, <2>3
<1> QED BY <1>0, <1>1, <1>3, <1>4 DEF CarvedFile

-----------------------------------------------------------------------------
(* A prefix of the data: a carver that looks for footers finds in it a prefix *)
(* of what it finds in the whole.                                             *)

\* A pattern is in the data at i.
HitAt(data, patterns, i) ==
  \E p \in patterns : i + Len(p) <= Len(data) /\ Slice(data, i, i + Len(p)) = p

\* find returns the first occurrence.
LEMMA FindLeast ==
  ASSUME NEW data \in Seq(Byte), NEW patterns, NEW from \in Nat
  PROVE  /\ Find(data, patterns, from) = NotFound =>
                \A i \in from..Len(data) - 1 : ~HitAt(data, patterns, i)
         /\ Find(data, patterns, from) # NotFound =>
                /\ Find(data, patterns, from) \in from..Len(data) - 1
                /\ HitAt(data, patterns, Find(data, patterns, from))
                /\ \A i \in from..Find(data, patterns, from) - 1 : ~HitAt(data, patterns, i)
<1> DEFINE hits == {i \in from..Len(data) - 1 : HitAt(data, patterns, i)}
<1>1. Find(data, patterns, from) = IF hits = {} THEN NotFound ELSE Min(hits)
  BY DEF Find, HitAt
<1>2. Len(data) \in Nat
  BY LenProperties
<1>3. hits \in SUBSET Nat /\ \A i : i \in hits <=> i \in from..Len(data) - 1 /\ HitAt(data, patterns, i)
  BY <1>2
<1> HIDE DEF hits
<1>4. CASE hits = {}
  <2>1. Find(data, patterns, from) = NotFound /\ \A i \in from..Len(data) - 1 : ~HitAt(data, patterns, i)
    BY <1>1, <1>3, <1>4
  <2> QED BY <2>1
<1>5. CASE hits # {}
  <2> DEFINE f == Min(hits)
  <2>1. f \in hits /\ \A y \in hits : f <= y
    <3>1. \E x \in hits : \A y \in hits : x <= y
      BY <1>3, <1>5, LeastNatural
    <3> QED BY <3>1 DEF Min
  <2>2. Find(data, patterns, from) = f
    BY <1>1, <1>5
  <2> HIDE DEF f
  <2>3. f \in from..Len(data) - 1 /\ HitAt(data, patterns, f) /\ f # NotFound
    BY <1>2, <1>3, <2>1 DEF NotFound
  <2>4. ASSUME NEW i \in from..f - 1 PROVE ~HitAt(data, patterns, i)
    <3>1. i \notin hits /\ i \in from..Len(data) - 1
      BY <1>2, <2>1, <2>3
    <3> QED BY <1>3, <3>1
  <2> QED BY <2>2, <2>3, <2>4
<1> QED BY <1>4, <1>5

\* What is found in a prefix is found at the same place in the whole.
LEMMA FindPrefix ==
  ASSUME NEW data \in Seq(Byte), NEW a \in 0..Len(data), NEW patterns, NEW from \in Nat,
         \A p, q \in patterns : p \in Seq(Byte) /\ Len(p) = Len(q),
         Find(Slice(data, 0, a), patterns, from) # NotFound
  PROVE  Find(data, patterns, from) = Find(Slice(data, 0, a), patterns, from)
<1> DEFINE part == Slice(data, 0, a)
           f == Find(part, patterns, from)
           g == Find(data, patterns, from)
<1>1. Len(data) \in Nat /\ part \in Seq(Byte) /\ Len(part) = a
  BY LenProperties, SliceRight
<1>2. ASSUME NEW i \in Nat, NEW p \in patterns, i + Len(p) <= a
      PROVE  Slice(part, i, i + Len(p)) = Slice(data, i, i + Len(p))
  <2>1. Len(p) \in Nat
    BY LenProperties
  <2>2. i \in 0..(a - 0) /\ i + Len(p) \in i..(a - 0)
    BY <1>1, <1>2, <2>1
  <2>3. Slice(Slice(data, 0, a), i, i + Len(p)) = Slice(data, 0 + i, 0 + (i + Len(p)))
    BY <1>1, <2>2, SliceSlice
  <2> QED BY <2>1, <2>3
<1> HIDE DEF part
<1>3. f \in from..a - 1 /\ HitAt(part, patterns, f) /\ \A i \in from..f - 1 : ~HitAt(part, patterns, i)
  BY <1>1, FindLeast DEF part
<1> HIDE DEF f
<1>4. PICK q \in patterns : f + Len(q) <= a /\ Slice(part, f, f + Len(q)) = q
  BY <1>1, <1>3 DEF HitAt
<1>5. Len(q) \in Nat /\ f \in Nat
  BY <1>1, <1>3, LenProperties
<1>6. f \in from..Len(data) - 1 /\ HitAt(data, patterns, f)
  <2>1. Slice(data, f, f + Len(q)) = q
    BY <1>2, <1>4, <1>5
  <2> QED BY <1>1, <1>3, <1>4, <1>5, <2>1 DEF HitAt
<1>7. g # NotFound
  BY <1>6, FindLeast
<1>8. g \in from..Len(data) - 1 /\ HitAt(data, patterns, g) /\ \A i \in from..g - 1 : ~HitAt(data, patterns, i)
  BY <1>7, FindLeast
<1> HIDE DEF g
<1>9. ~(f < g)
  BY <1>1, <1>3, <1>6, <1>8
<1>10. ~(g < f)
  <2> SUFFICES ASSUME g < f PROVE FALSE
    OBVIOUS
  <2>1. PICK p \in patterns : g + Len(p) <= Len(data) /\ Slice(data, g, g + Len(p)) = p
    BY <1>8 DEF HitAt
  <2>2. Len(p) = Len(q) /\ g \in Nat /\ g + Len(p) <= a
    BY <1>1, <1>3, <1>4, <1>5, <1>8
  <2>3. Slice(part, g, g + Len(p)) = p
    BY <1>2, <2>1, <2>2
  <2>4. HitAt(part, patterns, g)
    BY <1>1, <2>2, <2>3 DEF HitAt
  <2>5. g \in from..f - 1
    BY <1>1, <1>3, <1>8
  <2> QED BY <1>3, <2>4, <2>5
<1>11. f \in Int /\ g \in Int
  BY <1>1, <1>3, <1>8
<1>12. f = g
  BY <1>9, <1>10, <1>11
<1> QED BY <1>12 DEF f, g, part

\* A file whose footer is found within the first bytes of the data is the same file,
\* however many bytes follow: for the carvers that look for a footer a longer window
\* changes nothing that was complete.
LEMMA FooterPrefix ==
  ASSUME NEW k \in Kinds \ Sized, Headers[k] # {}, NEW data \in Seq(Byte), NEW a \in 0..Len(data),
         NEW start \in 0..(a - 1),
         Find(Slice(data, 0, a), {Footer[k]}, start + HeaderLen(k)) # NotFound
  PROVE  /\ EndOf(k, data, start) = EndOf(k, Slice(data, 0, a), start)
         /\ FoundAt(k, data, start) = FoundAt(k, Slice(data, 0, a), start)
         /\ ResumeAt(k, data, start) = ResumeAt(k, Slice(data, 0, a), start)
<1> DEFINE part == Slice(data, 0, a)
<1>0. Len(data) \in Nat /\ part \in Seq(Byte) /\ Len(part) = a /\ HeaderLen(k) \in Nat
  <2>1. Len(data) \in Nat /\ part \in Seq(Byte) /\ Len(part) = a
    BY LenProperties, SliceRight
  <2>2. HeaderLen(k) \in Nat
    BY HeaderRight
  <2> QED BY <2>1, <2>2
<1>1. Find(data, {Footer[k]}, start + HeaderLen(k)) = Find(part, {Footer[k]}, start + HeaderLen(k))
  <2>1. \A p, q \in {Footer[k]} : p \in Seq(Byte) /\ Len(p) = Len(q)
    BY CarvingAssumption
  <2>2. start + HeaderLen(k) \in Nat
    BY <1>0
  <2> QED BY <2>1, <2>2, FindPrefix
<1> HIDE DEF part
<1>2. EndOf(k, data, start) = EndOf(k, part, start)
  BY <1>1 DEF EndOf, FooterEnd
<1>3. ASSUME EndOf(k, part, start) # NotFound
      PROVE  Slice(data, start, EndOf(k, part, start)) = Slice(part, start, EndOf(k, part, start))
  <2> DEFINE e == EndOf(k, part, start)
  <2>1. e \in (start + 1)..a
    BY <1>0, <1>3, EndRight
  <2> HIDE DEF e
  <2>2. start \in 0..(a - 0) /\ e \in start..(a - 0)
    BY <1>0, <2>1
  <2>3. Slice(Slice(data, 0, a), start, e) = Slice(data, 0 + start, 0 + e)
    BY <1>0, <2>2, SliceSlice
  <2>4. 0 + start = start /\ 0 + e = e
    BY <2>2
  <2> QED BY <2>3, <2>4 DEF part, e
<1>4. EndOf(k, part, start) # NotFound => FileAt(k, data, start) = FileAt(k, part, start)
  BY <1>2, <1>3 DEF FileAt
<1>5. FoundAt(k, data, start) = FoundAt(k, part, start)
  BY <1>2, <1>4 DEF FoundAt
<1>6. ResumeAt(k, data, start) = ResumeAt(k, part, start)
  BY <1>2 DEF ResumeAt
<1> QED BY <1>2, <1>5, <1>6 DEF part

\* Past a header without a footer there is no file.
LEMMA NothingLeft ==
  ASSUME NEW k \in Kinds \ Sized, Headers[k] # {}, NEW data \in Seq(Byte), NEW start \in 0..(Len(data) - 1),
         NEW F, CarveFrom(F, k, data),
         Find(data, {Footer[k]}, start + HeaderLen(k)) = NotFound
  PROVE  \A o \in start..Len(data) : F[o] = <<>>
<1> DEFINE n == Len(data)
           at(o) == Find(data, Headers[k], o)
           Bad == {o \in start..n : F[o] # <<>>}
<1>0. n \in Nat /\ HeaderLen(k) \in Nat
  BY LenProperties, HeaderRight
<1> SUFFICES ASSUME Bad # {} PROVE FALSE
  OBVIOUS
<1>1. PICK o \in Bad : \A p \in Bad : o >= p
  <2>1. n \in Nat /\ Bad \in SUBSET Nat /\ \A p \in Bad : p <= n
    BY <1>0
  <2> HIDE DEF Bad, n
  <2> QED BY <2>1, GreatestNatural
<1>2. o \in start..n /\ o \in 0..n /\ F[o] # <<>> /\ \A p \in start..n : p > o => F[p] = <<>>
  BY <1>0, <1>1
<1>3. F[o] = IF at(o) = NotFound THEN <<>> ELSE FoundAt(k, data, at(o)) \o F[ResumeAt(k, data, at(o))]
  BY <1>2 DEF CarveFrom
<1>4. at(o) # NotFound
  BY <1>2, <1>3
<1>5. at(o) \in o..(n - 1)
  BY <1>2, <1>4, FindLeast
<1> HIDE DEF at, Bad
<1>6. Find(data, {Footer[k]}, at(o) + HeaderLen(k)) = NotFound
  <2> DEFINE x == start + HeaderLen(k)
             y == at(o) + HeaderLen(k)
  <2>1. x \in Nat /\ y \in Nat /\ x <= y
    BY <1>0, <1>2, <1>5
  <2>2. \A i \in x..n - 1 : ~HitAt(data, {Footer[k]}, i)
    BY <2>1, FindLeast
  <2> HIDE DEF x, y
  <2>3. ASSUME Find(data, {Footer[k]}, y) # NotFound PROVE FALSE
    <3>1. Find(data, {Footer[k]}, y) \in y..n - 1 /\ HitAt(data, {Footer[k]}, Find(data, {Footer[k]}, y))
      BY <2>1, <2>3, FindLeast
    <3>2. Find(data, {Footer[k]}, y) \in x..n - 1
      BY <1>0, <2>1, <3>1
    <3> QED BY <2>2, <3>1, <3>2
  <2> QED BY <2>3 DEF y
<1>7. EndOf(k, data, at(o)) = NotFound
  BY <1>6 DEF EndOf, FooterEnd
<1>8. FoundAt(k, data, at(o)) = <<>> /\ ResumeAt(k, data, at(o)) = at(o) + 1
  BY <1>7 DEF FoundAt, ResumeAt
<1>9. F[at(o) + 1] = <<>>
  BY <1>0, <1>2, <1>5
<1>10. F[o] = <<>> \o <<>>
  BY <1>3, <1>4, <1>8, <1>9
<1> QED BY <1>2, <1>10

\* A file of any data.
AnyFile == [kind : Kinds, start : Nat, end : Nat, data : Seq(Byte)]

\* Lists of files are joined in any grouping.
LEMMA Regroup ==
  \A s, t, u \in Seq(AnyFile) : (s \o t) \o u = s \o (t \o u)
BY ConcatAssociative

\* What a carver that looks for a footer reports of the first bytes is the beginning of
\* what it reports of all bytes.
LEMMA CarvePrefix ==
  ASSUME NEW k \in Kinds \ Sized, NEW data \in Seq(Byte), NEW a \in 0..Len(data)
  PROVE  \E rest \in Seq(AnyFile) : Carve(k, data) = Carve(k, Slice(data, 0, a)) \o rest
<1> DEFINE part == Slice(data, 0, a)
           n == Len(data)
           inPart(o) == Find(part, Headers[k], o)
           inData(o) == Find(data, Headers[k], o)
<1>0. n \in Nat /\ part \in Seq(Byte) /\ Len(part) = a
  BY LenProperties, SliceRight
<1>1. PICK G \in [0..n -> Seq(CarvedFile(data))] : CarveFrom(G, k, data) /\ G[0] = Carve(k, data)
  BY CarveUnfolds
<1> HIDE DEF part
<1>2. PICK F \in [0..a -> Seq(CarvedFile(part))] : CarveFrom(F, k, part) /\ F[0] = Carve(k, part)
  BY <1>0, CarveUnfolds
<1>3. \A o \in 0..n : G[o] \in Seq(AnyFile)
  <2>1. CarvedFile(data) \subseteq AnyFile
    BY DEF CarvedFile, AnyFile
  <2> QED BY <1>1, <2>1, SeqMonotonic
<1>4. \A o \in 0..a : F[o] \in Seq(AnyFile)
  <2>1. CarvedFile(part) \subseteq AnyFile
    BY DEF CarvedFile, AnyFile
  <2> QED BY <1>2, <2>1, SeqMonotonic
<1> DEFINE Good(o) == \E rest \in Seq(AnyFile) : G[o] = F[o] \o rest
           Bad == {o \in 0..a : ~Good(o)}
<1>5. Bad = {}
  <2> SUFFICES ASSUME Bad # {} PROVE FALSE
    OBVIOUS
  <2>1. PICK o \in Bad : \A p \in Bad : o >= p
    <3>1. a \in Nat /\ Bad \in SUBSET Nat /\ \A p \in Bad : p <= a
      BY <1>0
    <3> HIDE DEF Bad
    <3> QED BY <3>1, GreatestNatural
  <2>2. o \in 0..a /\ o \in 0..n /\ ~Good(o) /\ \A p \in (o + 1)..a : Good(p)
    <3>1. o \in 0..a /\ ~Good(o) /\ \A p \in 0..a : p > o => Good(p)
      <4> HIDE DEF Good
      <4> QED BY <2>1
    <3> HIDE DEF Good, Bad
    <3> QED BY <1>0, <3>1
  <2>3. F[o] = IF inPart(o) = NotFound THEN <<>>
               ELSE FoundAt(k, part, inPart(o)) \o F[ResumeAt(k, part, inPart(o))]
    BY <1>0, <1>2, <2>2 DEF CarveFrom
  <2>4. G[o] = IF inData(o) = NotFound THEN <<>>
               ELSE FoundAt(k, data, inData(o)) \o G[ResumeAt(k, data, inData(o))]
    BY <1>1, <2>2 DEF CarveFrom
  <2> HIDE DEF Bad
  <2>5. CASE F[o] = <<>>
    <3>1. G[o] \in Seq(AnyFile) /\ <<>> \o G[o] = G[o]
      BY <1>3, <2>2, ConcatEmptySeq
    <3> QED BY <2>2, <2>5, <3>1
  <2>6. CASE F[o] # <<>>
    <3> DEFINE s == inPart(o)
    <3>1. s # NotFound
      BY <2>3, <2>6
    <3>2. s \in o..(a - 1) /\ Headers[k] # {}
      <4>1. s \in o..(a - 1) /\ HitAt(part, Headers[k], s)
        BY <1>0, <2>2, <3>1, FindLeast
      <4> QED BY <4>1 DEF HitAt
    <3>3. inData(o) = s
      <4>1. \A p, q \in Headers[k] : p \in Seq(Byte) /\ Len(p) = Len(q)
        BY CarvingAssumption
      <4>2. Find(Slice(data, 0, a), Headers[k], o) # NotFound
        BY <3>1 DEF part
      <4>3. o \in Nat
        BY <2>2
      <4> HIDE DEF s
      <4>4. Find(data, Headers[k], o) = Find(Slice(data, 0, a), Headers[k], o)
        BY <4>1, <4>2, <4>3, FindPrefix
      <4> QED BY <4>4 DEF part, s
    <3> HIDE DEF s, inData, inPart
    <3>4. s \in 0..(a - 1)
      BY <2>2, <3>2
    <3>5. Find(part, {Footer[k]}, s + HeaderLen(k)) # NotFound
      <4> SUFFICES ASSUME Find(part, {Footer[k]}, s + HeaderLen(k)) = NotFound PROVE FALSE
        OBVIOUS
      <4>1. \A p \in s..a : F[p] = <<>>
        BY <1>0, <1>2, <3>2, <3>4, NothingLeft
      <4>2. EndOf(k, part, s) = NotFound
        BY DEF EndOf, FooterEnd
      <4>3. FoundAt(k, part, s) = <<>> /\ ResumeAt(k, part, s) = s + 1 /\ s + 1 \in s..a
        BY <3>4, <4>2 DEF FoundAt, ResumeAt
      <4>4. F[o] = <<>> \o <<>>
        BY <2>3, <3>1, <4>1, <4>3 DEF s
      <4> QED BY <2>6, <4>4
    <3>6. /\ FoundAt(k, data, s) = FoundAt(k, part, s)
          /\ ResumeAt(k, data, s) = ResumeAt(k, part, s)
      BY <3>2, <3>4, <3>5, FooterPrefix DEF part
    <3> DEFINE out == FoundAt(k, part, s)
               next == ResumeAt(k, part, s)
    <3>7. out \in Seq(CarvedFile(part)) /\ next \in (s + 1)..a
      BY <1>0, <3>2, <3>4, FoundRight
    <3>8. F[o] = out \o F[next] /\ G[o] = out \o G[next]
      BY <2>3, <2>4, <3>1, <3>3, <3>6 DEF s
    <3> HIDE DEF out, next
    <3>9. next \in (o + 1)..a /\ next \in 0..a
      BY <2>2, <3>2, <3>7
    <3>10. PICK rest \in Seq(AnyFile) : G[next] = F[next] \o rest
      BY <2>2, <3>9
    <3>11. out \in Seq(AnyFile) /\ F[next] \in Seq(AnyFile)
      <4>1. CarvedFile(part) \subseteq AnyFile
        BY DEF CarvedFile, AnyFile
      <4> QED BY <1>4, <3>7, <3>9, <4>1, SeqMonotonic
    <3>12. G[o] = F[o] \o rest
      <4>1. (out \o F[next]) \o rest = out \o (F[next] \o rest)
        BY <3>10, <3>11, Regroup
      <4> QED BY <3>8, <3>10, <4>1
    <3> QED BY <2>2, <3>12
  <2> QED BY <2>5, <2>6
<1>6. Good(0)
  <2>1. 0 \in 0..a /\ 0 \notin Bad
    <3> HIDE DEF Good
    <3>1. 0 \in 0..a
      BY <1>0
    <3> HIDE DEF Bad
    <3> QED BY <1>5, <3>1
  <2> QED BY <2>1
<1> QED BY <1>1, <1>2, <1>6 DEF part
=============================================================================
