----------------------------- MODULE NtfsProofs -----------------------------
(***************************************************************************)
(* Proofs about the readers of NTFS: what a pass over the transaction log  *)
(* reads; what the search of the change journal finds and what events its  *)
(* records become; and that a run list is parsed back from its bytes and   *)
(* tiles the file, that every reader has the bytes of the file, and that   *)
(* what was said of a file before agrees with reading it.  Last, the       *)
(* records of the master file table: what the walk finds, what every       *)
(* reader takes of a record, and the files that are saved.                 *)
(***************************************************************************)
EXTENDS LogFile, UsnJournal, Runlists, MftRecords, DataLemmas, TLAPS

-----------------------------------------------------------------------------
(* Part 1: the transaction log.                                             *)

ReadRecord == [at : Nat, len : Nat, page : Nat]

\* The types of what reading the log keeps; a pass is behind the header of its page and
\* what it may still read is left of max_records.
LogTypes ==
    /\ log \in Logs
    /\ lstep \in {"pages", "pass", "done"}
    /\ pages \in Seq(Nat)
    /\ at_page \in 1..Len(pages) + 1
    /\ lpos \in Nat /\ tries \in Nat
    /\ entries \in Seq(ReadRecord)
    /\ lstep = "pages" => entries = <<>> /\ lpos = 0 /\ at_page = 1
    /\ log.max > 0 => Len(entries) <= log.max
    /\ lpos > 0 => /\ lstep = "pass" /\ at_page \in DOMAIN pages
                   /\ pages[at_page] < lpos
                   /\ log.max > 0 => tries + Len(entries) <= log.max

\* A record is behind the header of its page and inside the data; those of the page that
\* is being read are before the place of the pass.
EntryOK(e) ==
    /\ e.page \in DOMAIN pages /\ e.page <= at_page
    /\ pages[e.page] < e.at
    /\ e.len > 0 /\ e.at + e.len <= log.len
    /\ e.page = at_page => lpos > 0 /\ e.at + e.len <= lpos

\* Two records of one pass do not overlap, the later one is further behind.
PassesApart ==
    \A i, j \in DOMAIN entries :
        i < j /\ entries[i].page = entries[j].page => entries[i].at + entries[i].len <= entries[j].at

LogInv == LogTypes /\ (\A i \in DOMAIN entries : EntryOK(entries[i])) /\ PassesApart

\* A length that was cut is one that fits: parse_log_record goes on behind the record and
\* never behind the end of the data.
LEMMA RecordLengthFits ==
  ASSUME log \in Logs, NEW p \in Nat, p + MinLog <= log.len
  PROVE  /\ RecordLength(p) \in Nat /\ RecordLength(p) >= MinLog
         /\ p + RecordLength(p) <= log.len
<1>1. log.len \in Nat /\ MinLog \in Nat /\ MaxLog \in Nat /\ MinLog <= MaxLog
  BY LogAssumption
<1>2. ASSUME p \in DOMAIN log.lengths PROVE log.lengths[p] \in Nat
  BY <1>2, LogAssumption
<1> QED BY <1>1, <1>2 DEF RecordLength, Smaller

\* The offsets that _find_record_pages returns are numbers.
LEMMA PagesType ==
  ASSUME log \in Logs
  PROVE  RecordPages \in Seq(Nat)
<1> DEFINE n == log.len
           V == Seq(Nat)
           Equation(g) ==
             g = [i \in 0..n |->
                    IF i = 0 THEN <<>>
                    ELSE IF (i - 1) * PageSize \in log.magic THEN Append(g[i - 1], (i - 1) * PageSize)
                    ELSE g[i - 1]]
<1>1. n \in Nat /\ PageSize \in Nat
  BY LogAssumption
<1> HIDE DEF n
<1>2. \E g : Equation(g)
  <2> DEFINE add == [p \in (1..n) \X V |->
                        IF (p[1] - 1) * PageSize \in log.magic THEN Append(p[2], (p[1] - 1) * PageSize)
                        ELSE p[2]]
  <2>1. add \in [(1..n) \X V -> V]
    <3> SUFFICES ASSUME NEW p \in (1..n) \X V PROVE add[p] \in V
      OBVIOUS
    <3>1. p[2] \in Seq(Nat) /\ (p[1] - 1) * PageSize \in Nat
      <4>1. p[1] - 1 \in Nat /\ p[2] \in Seq(Nat)
        BY <1>1
      <4> QED BY <1>1, <4>1
    <3>2. Append(p[2], (p[1] - 1) * PageSize) \in Seq(Nat)
      BY <3>1, AppendProperties
    <3> QED BY <3>1, <3>2
  <2>2. <<>> \in V
    OBVIOUS
  <2> HIDE DEF add
  <2>3. PICK f : Recurs(f, n, V, <<>>, add)
    BY <1>1, <2>1, <2>2, Recursion
  <2>4. f \in [0..n -> V] /\ f[0] = <<>> /\ \A i \in 1..n : f[i] = add[<<i, f[i - 1]>>]
    BY <2>3 DEF Recurs
  <2>5. ASSUME NEW i \in 0..n
        PROVE  f[i] = IF i = 0 THEN <<>>
                      ELSE IF (i - 1) * PageSize \in log.magic THEN Append(f[i - 1], (i - 1) * PageSize)
                      ELSE f[i - 1]
    <3>1. CASE i = 0
      BY <2>4, <3>1
    <3>2. CASE i # 0
      <4>1. i \in 1..n /\ i - 1 \in 0..n
        BY <1>1, <3>2
      <4>2. <<i, f[i - 1]>> \in (1..n) \X V
        BY <2>4, <4>1
      <4>3. f[i] = add[<<i, f[i - 1]>>]
        BY <2>4, <4>1
      <4> QED BY <3>2, <4>2, <4>3 DEF add
    <3> QED BY <3>1, <3>2
  <2> QED BY <2>4, <2>5
<1>3. PICK g : Equation(g) /\ RecordPages = g[n]
  <2> HIDE DEF Equation
  <2>1. Equation(CHOOSE g : Equation(g))
    BY <1>2
  <2>2. RecordPages = (CHOOSE g : Equation(g))[n]
    BY DEF RecordPages, Equation, n
  <2> QED BY <2>1, <2>2
<1> DEFINE P == {i \in 0..n : g[i] \in V}
<1>4. 0 \in P
  BY <1>1, <1>3
<1>5. ASSUME NEW i \in 1..n, i - 1 \in P PROVE i \in P
  <2>1. i \in 0..n /\ i # 0 /\ g[i - 1] \in V /\ (i - 1) * PageSize \in Nat
    <3>1. i - 1 \in Nat /\ i \in 0..n /\ i # 0
      BY <1>1
    <3> QED BY <1>1, <1>5, <3>1
  <2>2. g[i] = IF (i - 1) * PageSize \in log.magic THEN Append(g[i - 1], (i - 1) * PageSize)
               ELSE g[i - 1]
    BY <1>3, <2>1
  <2>3. Append(g[i - 1], (i - 1) * PageSize) \in V
    BY <2>1, AppendProperties
  <2> QED BY <2>1, <2>2, <2>3
<1> HIDE DEF P
<1>6. \A i \in 0..n : i \in P
  BY <1>1, <1>4, <1>5, UpTo
<1> QED BY <1>1, <1>3, <1>6 DEF P

\* Behind its pages a log has no records yet.
LEMMA LogStarts == LogInit => LogInv
<1> SUFFICES ASSUME LogInit PROVE LogInv
  OBVIOUS
<1>1. pages = <<>> /\ entries = <<>> /\ at_page = 1 /\ lpos = 0 /\ tries = 0 /\ lstep = "pages" /\ log \in Logs
  BY DEF LogInit, LogOff
<1>2. log.max \in Nat
  BY <1>1, LogAssumption
<1>3. pages \in Seq(Nat) /\ Len(pages) = 0 /\ entries \in Seq(ReadRecord) /\ Len(entries) = 0
      /\ DOMAIN entries = {}
  BY <1>1, EmptySeq
<1>4. LogTypes
  BY <1>1, <1>2, <1>3 DEF LogTypes
<1> QED BY <1>3, <1>4 DEF LogInv, PassesApart

\* The pages are found before the first record is read.
LEMMA PagesKeep ==
  ASSUME LogInv, FindPages
  PROVE  LogInv'
<1>1. /\ lstep = "pages" /\ pages' = RecordPages /\ lstep' = "pass"
      /\ UNCHANGED <<log, at_page, lpos, tries, entries>>
  BY DEF FindPages
<1>2. entries = <<>> /\ lpos = 0 /\ at_page = 1 /\ log \in Logs /\ tries \in Nat
  BY <1>1 DEF LogInv, LogTypes
<1>3. log.max \in Nat
  BY <1>2, LogAssumption
<1>4. entries' \in Seq(ReadRecord) /\ Len(entries') = 0 /\ DOMAIN entries' = {}
  BY <1>1, <1>2, EmptySeq
<1>5. pages' \in Seq(Nat) /\ Len(pages') \in Nat
  BY <1>1, <1>2, PagesType
<1>6. LogTypes'
  BY <1>1, <1>2, <1>3, <1>4, <1>5 DEF LogTypes
<1> QED BY <1>4, <1>6 DEF LogInv, PassesApart

\* A pass starts behind the header of its page; no record of it is read yet.
LEMMA StartKeeps ==
  ASSUME LogInv, StartPage
  PROVE  LogInv'
<1>1. /\ Starting /\ lpos' = pages[at_page] + PageHeader
      /\ tries' = IF log.max = 0 THEN log.len \div MinLog ELSE Left
      /\ UNCHANGED <<log, lstep, pages, at_page, entries>>
  BY DEF StartPage
<1>2. lstep = "pass" /\ at_page \in DOMAIN pages /\ lpos = 0 /\ (log.max = 0 \/ Left > 0)
  BY <1>1 DEF Starting
<1>3. LogTypes
  BY DEF LogInv
<1>4. log \in Logs /\ log.len \in Nat /\ log.max \in Nat /\ MinLog \in Nat \ {0} /\ PageHeader \in Nat \ {0}
  BY <1>3, LogAssumption DEF LogTypes
<1>5. pages[at_page] \in Nat /\ Len(entries) \in Nat
  BY <1>2, <1>3, ElementOfSeq, LenProperties DEF LogTypes
<1>6. log.len \div MinLog \in Nat
  BY <1>4
<1>7. tries' \in Nat /\ (log.max > 0 => tries' + Len(entries) <= log.max)
  <2>1. tries' = IF log.max = 0 THEN log.len \div MinLog ELSE log.max - Len(entries)
    BY <1>1 DEF Left
  <2>2. log.max = 0 \/ log.max - Len(entries) > 0
    BY <1>2 DEF Left
  <2> QED BY <1>4, <1>5, <1>6, <2>1, <2>2
<1>8. lpos' \in Nat /\ pages[at_page] < lpos'
  BY <1>1, <1>4, <1>5
<1>9. LogTypes'
  BY <1>1, <1>2, <1>3, <1>7, <1>8 DEF LogTypes
<1>10. ASSUME NEW i \in DOMAIN entries PROVE EntryOK(entries[i])'
  <2>1. EntryOK(entries[i])
    BY DEF LogInv
  <2> QED BY <1>1, <1>2, <2>1 DEF EntryOK
<1>11. PassesApart'
  BY <1>1 DEF LogInv, PassesApart
<1> QED BY <1>1, <1>9, <1>10, <1>11 DEF LogInv

\* A record is read behind the records of its page, and the pass goes on behind it.
LEMMA ReadKeeps ==
  ASSUME LogInv, ReadEntry
  PROVE  LogInv'
<1>1. /\ Passing /\ MoreLog
      /\ entries' = Append(entries, NewEntry)
      /\ lpos' = lpos + RecordLength(lpos)
      /\ tries' = tries - 1
      /\ UNCHANGED <<log, lstep, pages, at_page>>
  BY DEF ReadEntry
<1>2. lstep = "pass" /\ lpos > 0 /\ lpos + MinLog <= log.len /\ tries > 0
  BY <1>1 DEF Passing, MoreLog
<1>3. LogTypes
  BY DEF LogInv
<1>4. /\ log \in Logs /\ lpos \in Nat /\ tries \in Nat /\ entries \in Seq(ReadRecord)
      /\ at_page \in DOMAIN pages /\ pages[at_page] < lpos /\ pages \in Seq(Nat)
      /\ log.max > 0 => tries + Len(entries) <= log.max
  BY <1>2, <1>3 DEF LogTypes
<1>5. log.len \in Nat /\ log.max \in Nat /\ MinLog \in Nat \ {0} /\ at_page \in Nat
  BY <1>4, LogAssumption, LenProperties
<1> DEFINE size == RecordLength(lpos)
<1>6. size \in Nat /\ size >= MinLog /\ lpos + size <= log.len
  BY <1>2, <1>4, RecordLengthFits
<1>7. NewEntry = [at |-> lpos, len |-> size, page |-> at_page] /\ NewEntry \in ReadRecord
  BY <1>4, <1>5, <1>6 DEF NewEntry, ReadRecord
<1> HIDE DEF size
<1> DEFINE n == Len(entries)
<1>8. /\ n \in Nat /\ DOMAIN entries = 1..n
      /\ entries' \in Seq(ReadRecord) /\ Len(entries') = n + 1 /\ DOMAIN entries' = 1..(n + 1)
      /\ entries'[n + 1] = NewEntry /\ \A i \in 1..n : entries'[i] = entries[i]
  <2>1. entries' \in Seq(ReadRecord) /\ Len(entries') = n + 1 /\ n \in Nat
    BY <1>1, <1>4, <1>7, AppendProperties, LenProperties
  <2>2. DOMAIN entries = 1..n /\ DOMAIN entries' = 1..(n + 1)
    BY <1>4, <2>1, LenProperties
  <2> QED BY <1>1, <1>4, <1>7, <2>1, <2>2, AppendProperties
<1> HIDE DEF n
<1>9. LogTypes'
  <2>1. lpos' \in Nat /\ tries' \in Nat /\ pages[at_page] < lpos'
    <3>1. pages[at_page] \in Nat
      BY <1>4, ElementOfSeq, LenProperties
    <3> QED BY <1>1, <1>2, <1>4, <1>6, <3>1 DEF size
  <2>2. log.max > 0 => Len(entries') <= log.max /\ tries' + Len(entries') <= log.max
    <3>1. n \in Nat /\ tries \in Nat /\ tries > 0 /\ log.max \in Nat
      BY <1>2, <1>4, <1>5, <1>8
    <3>2. Len(entries') = n + 1 /\ tries' = tries - 1 /\ (log.max > 0 => tries + n <= log.max)
      BY <1>1, <1>4, <1>8 DEF n
    <3> QED BY <3>1, <3>2
  <2> QED BY <1>1, <1>2, <1>3, <1>4, <1>8, <2>1, <2>2 DEF LogTypes
<1>10. /\ NewEntry.at = lpos /\ NewEntry.len = size /\ NewEntry.page = at_page
  BY <1>7
<1>11. lpos' = lpos + size
  BY <1>1 DEF size
<1>12. ASSUME NEW i \in 1..n
       PROVE  EntryOK(entries[i]) /\ entries[i] \in ReadRecord
  BY <1>4, <1>8, ElementOfSeq DEF LogInv, n
<1>13. ASSUME NEW i \in 1..(n + 1) PROVE EntryOK(entries[i])'
  <2>1. CASE i = n + 1
    <3>1. entries'[i] = NewEntry
      BY <1>8, <2>1
    <3>2. /\ entries'[i].page = at_page /\ entries'[i].at = lpos /\ entries'[i].len = size
      BY <1>10, <3>1
    <3>3. size > 0
      BY <1>5, <1>6
    <3>4. lpos' > 0 /\ lpos + size <= lpos'
      BY <1>2, <1>4, <1>6, <1>11
    <3> QED BY <1>1, <1>4, <1>5, <1>6, <3>2, <3>3, <3>4 DEF EntryOK
  <2>2. CASE i # n + 1
    <3>1. i \in 1..n
      BY <1>8, <2>2
    <3>2. entries'[i] = entries[i] /\ EntryOK(entries[i]) /\ entries[i].at \in Nat /\ entries[i].len \in Nat
      BY <1>8, <1>12, <3>1 DEF ReadRecord
    <3>3. /\ entries[i].page \in DOMAIN pages /\ entries[i].page <= at_page
          /\ pages[entries[i].page] < entries[i].at
          /\ entries[i].len > 0 /\ entries[i].at + entries[i].len <= log.len
          /\ entries[i].page = at_page => entries[i].at + entries[i].len <= lpos
      BY <3>2 DEF EntryOK
    <3>4. ASSUME NEW a \in Nat, a <= lpos PROVE lpos' > 0 /\ a <= lpos'
      BY <1>2, <1>4, <1>6, <1>11, <3>4
    <3>5. entries[i].at + entries[i].len \in Nat
      BY <3>2
    <3>6. lpos' > 0 /\ (entries[i].page = at_page => entries[i].at + entries[i].len <= lpos')
      BY <1>2, <1>4, <1>6, <1>11, <3>3, <3>4, <3>5
    <3> QED BY <1>1, <3>2, <3>3, <3>6 DEF EntryOK
  <2> QED BY <2>1, <2>2
<1>14. ASSUME NEW i \in 1..(n + 1), NEW j \in 1..(n + 1), i < j, entries'[i].page = entries'[j].page
       PROVE  entries'[i].at + entries'[i].len <= entries'[j].at
  <2>1. i \in 1..n /\ entries'[i] = entries[i]
    BY <1>8, <1>14
  <2>2. CASE j = n + 1
    <3>1. entries'[j] = NewEntry
      BY <1>8, <2>2
    <3> QED BY <1>10, <1>12, <1>14, <2>1, <3>1 DEF EntryOK
  <2>3. CASE j # n + 1
    <3>1. j \in 1..n /\ entries'[j] = entries[j]
      BY <1>8, <2>3
    <3>2. PassesApart
      BY DEF LogInv
    <3> QED BY <1>8, <1>14, <2>1, <3>1, <3>2 DEF PassesApart
  <2> QED BY <2>2, <2>3
<1>15. PassesApart'
  BY <1>8, <1>14 DEF PassesApart
<1> QED BY <1>8, <1>9, <1>13, <1>15 DEF LogInv

\* The end of a pass leaves its records behind; the next pass is one of a later page.
LEMMA PassKeeps ==
  ASSUME LogInv, PassOver
  PROVE  LogInv'
<1>1. /\ Passing /\ at_page' = at_page + 1 /\ lpos' = 0 /\ tries' = 0
      /\ UNCHANGED <<log, lstep, pages, entries>>
  BY DEF PassOver
<1>2. LogTypes /\ lpos > 0 /\ lstep = "pass" /\ PassesApart
  BY <1>1 DEF LogInv, Passing
<1>3. at_page \in DOMAIN pages /\ DOMAIN pages = 1..Len(pages) /\ Len(pages) \in Nat
  BY <1>2, LenProperties DEF LogTypes
<1>4. at_page' \in 1..(Len(pages) + 1) /\ at_page \in Nat
  BY <1>1, <1>3
<1>5. LogTypes'
  BY <1>1, <1>2, <1>4 DEF LogTypes
<1>6. ASSUME NEW i \in DOMAIN entries PROVE EntryOK(entries[i])'
  <2>1. EntryOK(entries[i]) /\ entries[i].page \in Nat
    BY <1>3 DEF LogInv, EntryOK
  <2> QED BY <1>1, <1>4, <2>1 DEF EntryOK
<1>7. PassesApart'
  BY <1>1, <1>2 DEF PassesApart
<1> QED BY <1>1, <1>5, <1>6, <1>7 DEF LogInv

\* What no step of the reader changes keeps the invariant, and so does its end.
LEMMA LogRests ==
  ASSUME LogInv, LogOver \/ UNCHANGED logVars
  PROVE  LogInv'
<1>1. UNCHANGED <<log, pages, at_page, lpos, tries, entries>>
  BY DEF LogOver, logVars
<1>2. lstep' = lstep \/ (lstep = "pass" /\ lpos = 0 /\ lstep' = "done")
  BY DEF LogOver, logVars
<1>3. LogTypes'
  BY <1>1, <1>2 DEF LogInv, LogTypes
<1>4. \A i \in DOMAIN entries : EntryOK(entries[i])'
  BY <1>1 DEF LogInv, EntryOK
<1>5. PassesApart'
  BY <1>1 DEF LogInv, PassesApart
<1> QED BY <1>1, <1>3, <1>4, <1>5 DEF LogInv

\* Every step of the reader keeps the invariant.
LEMMA LogSteps == LogInv /\ [LogNext]_logVars => LogInv'
BY PagesKeep, StartKeeps, ReadKeeps, PassKeeps, LogRests DEF LogNext

\* The records of a pass are inside the data and behind one another, and each of the places
\* that have a record has one for a page before it: from the places of one record, the
\* pages are an injection into the pages before it.
LEMMA LogInvReads == LogInv => LogIsRead
<1> SUFFICES ASSUME LogInv PROVE LogIsRead
  OBVIOUS
<1>1. entries \in Seq(ReadRecord) /\ pages \in Seq(Nat) /\ PassesApart
  BY DEF LogInv, LogTypes
<1>2. /\ Len(entries) \in Nat /\ DOMAIN entries = 1..Len(entries)
      /\ Len(pages) \in Nat /\ DOMAIN pages = 1..Len(pages)
  BY <1>1, LenProperties
<1>3. \A i \in DOMAIN entries :
         EntryOK(entries[i]) /\ entries[i].at \in Nat /\ entries[i].len \in Nat
  <2> SUFFICES ASSUME NEW i \in DOMAIN entries
               PROVE  EntryOK(entries[i]) /\ entries[i].at \in Nat /\ entries[i].len \in Nat
    OBVIOUS
  <2>1. EntryOK(entries[i])
    BY DEF LogInv
  <2>2. entries[i] \in ReadRecord
    BY <1>1, <1>2, ElementOfSeq
  <2> QED BY <2>1, <2>2 DEF ReadRecord
<1>4. EntriesInside
  <2>1. ASSUME NEW i \in DOMAIN entries PROVE entries[i].at + entries[i].len <= log.len
    BY <1>3 DEF EntryOK
  <2>2. ASSUME NEW i \in DOMAIN entries, i > 1, entries[i - 1].page = entries[i].page
        PROVE  entries[i - 1].at + entries[i - 1].len <= entries[i].at
    <3>1. i - 1 \in DOMAIN entries /\ i - 1 < i
      BY <1>2, <2>2
    <3> QED BY <1>1, <2>2, <3>1 DEF PassesApart
  <2> QED BY <2>1, <2>2 DEF EntriesInside
<1>5. ASSUME NEW i \in DOMAIN entries, NEW j \in DOMAIN entries, NEW k \in DOMAIN entries,
             entries[j].at = entries[i].at, entries[k].at = entries[i].at, j # k
      PROVE  entries[j].page # entries[k].page
  <2>1. SUFFICES ASSUME entries[j].page = entries[k].page PROVE FALSE
    OBVIOUS
  <2>2. ASSUME NEW x \in DOMAIN entries, NEW y \in DOMAIN entries, x < y,
               entries[x].page = entries[y].page, entries[x].at = entries[y].at
        PROVE  FALSE
    <3>1. entries[x].at + entries[x].len <= entries[y].at
      BY <1>1, <2>2 DEF PassesApart
    <3>2. entries[x].at \in Nat /\ entries[x].len \in Nat /\ entries[x].len > 0 /\ entries[y].at \in Nat
      BY <1>3 DEF EntryOK
    <3> QED BY <2>2, <3>1, <3>2
  <2>3. j < k \/ k < j
    BY <1>2, <1>5
  <2> QED BY <1>5, <2>1, <2>2, <2>3
<1>6. ASSUME NEW i \in DOMAIN entries
      PROVE  Cardinality({j \in DOMAIN entries : entries[j].at = entries[i].at})
                <= Cardinality({n \in DOMAIN pages : pages[n] < entries[i].at})
  <2> DEFINE same == {j \in DOMAIN entries : entries[j].at = entries[i].at}
             before == {n \in DOMAIN pages : pages[n] < entries[i].at}
             f == [j \in same |-> entries[j].page]
  <2>1. \A j \in same : entries[j].page \in before
    BY <1>3 DEF EntryOK
  <2>2. f \in Injection(same, before)
    <3>1. f \in [same -> before]
      BY <2>1
    <3>2. \A j, k \in same : f[j] = f[k] => j = k
      BY <1>5
    <3> QED BY <3>1, <3>2 DEF Injection, IsInjective
  <2>3. IsFiniteSet(before)
    <3>1. IsFiniteSet(DOMAIN pages) /\ before \in SUBSET DOMAIN pages
      BY <1>2, FS_Interval
    <3> HIDE DEF before
    <3> QED BY <3>1, FS_Subset
  <2> HIDE DEF same, before, f
  <2>4. Cardinality(same) <= Cardinality(before)
    BY <2>2, <2>3, FS_Injection
  <2> QED BY <2>4 DEF same, before
<1>7. OncePerPage
  BY <1>5, <1>6 DEF OncePerPage
<1> QED BY <1>4, <1>7 DEF LogIsRead

\* The passes over a damaged transaction log read records that are inside the data; those
\* of one pass do not overlap, and a record is read at most once for every page before it.
THEOREM LogRead == LogSpec => []LogIsRead
<1>1. LogSpec => []LogInv
  BY LogStarts, LogSteps, PTL DEF LogSpec
<1> QED BY <1>1, LogInvReads, PTL

-----------------------------------------------------------------------------
(* Part 2: the search for the records of the change journal.                *)

\* The end of the record at p, its span in the journal, and the words no record of the
\* journal covers.
EndOf(p) == p + Head_(p).len
Covered == UNION {p..(p + Head_(p).len - 1) : p \in Chained}
Outside == (0..(journal.len - 1)) \ Covered

\* Where the search stops once at most, before it has read the position b.
StopsBefore(b) == {p \in Chained \union Outside : p < b}

\* What is found so far ends before the search, comes in the order of the journal and is
\* all that begins there; each step of the search was at a place of its own.
SearchInv ==
    /\ journal \in Journals
    /\ upos \in Nat /\ iterations \in Nat /\ found \in Seq(Nat)
    /\ \A i \in DOMAIN found : RecordAt(found[i]) /\ EndOf(found[i]) <= upos
    /\ \A i, j \in DOMAIN found : i < j => EndOf(found[i]) <= found[j]
    /\ \A p \in Chained : p < upos => \E i \in DOMAIN found : found[i] = p
    /\ iterations <= Cardinality(StopsBefore(upos))

\* A record of the journal is inside its data and not empty.
LEMMA RecordInside ==
  ASSUME journal \in Journals, NEW p, RecordAt(p)
  PROVE  /\ p \in 0..(journal.len - 1) /\ journal.len \in Nat
         /\ Head_(p).len \in Nat /\ Head_(p).len >= MinRecord /\ MinRecord \in Nat \ {0}
         /\ EndOf(p) \in Nat /\ EndOf(p) > p /\ EndOf(p) <= journal.len
<1>1. /\ journal.len \in Nat /\ DOMAIN journal.heads \subseteq 0..(journal.len - 1)
      /\ MinRecord \in Nat \ {0}
      /\ \A q \in DOMAIN journal.heads : journal.heads[q].len \in Nat
  BY JournalAssumption
<1>2. p \in 0..(journal.len - 1) /\ Head_(p).len \in Nat
  BY <1>1 DEF RecordAt, Head_
<1>3. Head_(p).len \in MinRecord..(journal.len - p)
  BY DEF RecordAt
<1> QED BY <1>1, <1>2, <1>3 DEF EndOf

\* The records of the journal and the words outside of them are finite sets of its places.
LEMMA StopsFinite ==
  ASSUME journal \in Journals
  PROVE  /\ Chained \union Outside \in SUBSET (0..(journal.len - 1))
         /\ IsFiniteSet(Chained \union Outside)
         /\ \A b : IsFiniteSet(StopsBefore(b)) /\ Cardinality(StopsBefore(b)) \in Nat
                   /\ Cardinality(StopsBefore(b)) <= Cardinality(Chained \union Outside)
<1>1. journal.len \in Nat
  BY JournalAssumption
<1>2. Chained \union Outside \in SUBSET (0..(journal.len - 1))
  BY DEF Chained, Outside
<1>3. IsFiniteSet(0..(journal.len - 1))
  BY <1>1, FS_Interval
<1>4. IsFiniteSet(Chained \union Outside)
  BY <1>2, <1>3, FS_Subset
<1>5. ASSUME NEW b
      PROVE  /\ IsFiniteSet(StopsBefore(b)) /\ Cardinality(StopsBefore(b)) \in Nat
             /\ Cardinality(StopsBefore(b)) <= Cardinality(Chained \union Outside)
  <2>1. StopsBefore(b) \in SUBSET (Chained \union Outside)
    BY DEF StopsBefore
  <2> QED BY <1>4, <2>1, FS_Subset, FS_CardinalityType
<1> QED BY <1>2, <1>4, <1>5

\* A record that was not overlapped from before is not inside any record.
LEMMA ChainedOutside ==
  ASSUME journal \in Journals, NEW p \in Chained, NEW q, RecordAt(q), q < p
  PROVE  EndOf(q) <= p
<1>1. p \in 0..(journal.len - 1) /\ \A r \in 0..(p - 1) : RecordAt(r) => r + Head_(r).len <= p
  BY DEF Chained
<1>2. q \in 0..(p - 1)
  BY <1>1, RecordInside
<1> QED BY <1>1, <1>2 DEF EndOf

\* The place the search is at is no word inside a record of the journal: what begins before
\* it was found and passed.
LEMMA StopsCount ==
  ASSUME SearchInv, upos < journal.len, NEW b \in Nat, upos < b
  PROVE  Cardinality(StopsBefore(upos)) + 1 <= Cardinality(StopsBefore(b))
<1>1. journal \in Journals /\ upos \in Nat /\ journal.len \in Nat
  BY JournalAssumption DEF SearchInv
<1>2. upos \in Chained \union Outside
  <2>1. SUFFICES ASSUME upos \in Covered, upos \notin Chained PROVE FALSE
    BY <1>1 DEF Outside
  <2>2. PICK p \in Chained : upos \in p..(p + Head_(p).len - 1)
    BY <2>1 DEF Covered
  <2>3. RecordAt(p) /\ p \in Nat
    BY <1>1 DEF Chained
  <2>4. Head_(p).len \in Nat
    BY <1>1, <2>3, RecordInside
  <2>5. p < upos /\ upos < EndOf(p)
    BY <1>1, <2>1, <2>2, <2>3, <2>4 DEF EndOf
  <2>6. PICK i \in DOMAIN found : found[i] = p
    BY <2>5 DEF SearchInv
  <2>7. EndOf(p) <= upos
    BY <2>6 DEF SearchInv
  <2>8. EndOf(p) \in Nat
    BY <1>1, <2>3, RecordInside
  <2> QED BY <1>1, <2>5, <2>7, <2>8
<1> DEFINE old == StopsBefore(upos)
           new == StopsBefore(b)
<1>3. old \union {upos} \in SUBSET new
  <2>1. \A p \in old : p \in Chained \union Outside /\ p < upos /\ p \in Nat
    BY <1>1, StopsFinite DEF StopsBefore
  <2>2. \A p \in old : p < b
    BY <1>1, <2>1
  <2> QED BY <1>2, <2>1, <2>2 DEF StopsBefore
<1>4. upos \notin old
  BY <1>1 DEF StopsBefore
<1>5. IsFiniteSet(old) /\ IsFiniteSet(new)
  BY <1>1, StopsFinite
<1> HIDE DEF old, new
<1>6. Cardinality(old \union {upos}) = Cardinality(old) + 1
  BY <1>4, <1>5, FS_AddElement
<1>7. Cardinality(old \union {upos}) <= Cardinality(new)
  BY <1>3, <1>5, FS_Subset
<1> QED BY <1>6, <1>7 DEF old, new

\* The search starts before everything.
LEMMA SearchStarts ==
  ASSUME journal \in Journals, upos = 0, iterations = 0, found = <<>>
  PROVE  SearchInv
<1>1. found \in Seq(Nat) /\ DOMAIN found = {}
  BY EmptySeq
<1>2. \A p \in Chained : ~(p < upos)
  <2>1. \A p \in Chained : p \in 0..(journal.len - 1)
    BY DEF Chained
  <2>2. journal.len \in Nat
    BY JournalAssumption
  <2> QED BY <2>1, <2>2
<1>3. iterations <= Cardinality(StopsBefore(upos))
  BY StopsFinite
<1> QED BY <1>1, <1>2, <1>3 DEF SearchInv

\* What the bytes of the journal say does not depend on the search.
LEMMA SameJournal ==
  ASSUME journal' = journal
  PROVE  /\ Chained' = Chained /\ Outside' = Outside
         /\ \A b : StopsBefore(b)' = StopsBefore(b)
         /\ \A p : RecordAt(p)' = RecordAt(p) /\ EndOf(p)' = EndOf(p)
<1>1. \A p : RecordAt(p)' = RecordAt(p) /\ EndOf(p)' = EndOf(p)
  BY DEF RecordAt, EndOf, Head_
<1>2. Chained' = Chained
  BY DEF Chained, RecordAt, Head_
<1>3. Covered' = Covered
  BY <1>2 DEF Covered, Head_
<1>4. Outside' = Outside
  BY <1>3 DEF Outside
<1>5. \A b : StopsBefore(b)' = StopsBefore(b)
  BY <1>2, <1>4 DEF StopsBefore
<1> QED BY <1>1, <1>2, <1>4, <1>5

\* A search that is inside the data has not read its place.
LEMMA SearchingInside ==
  ASSUME journal \in Journals, upos \in Nat, Searching
  PROVE  upos < journal.len
<1>1. journal.len \in Nat /\ MinRecord \in Nat \ {0} /\ upos + MinRecord <= journal.len
  BY JournalAssumption DEF Searching
<1> QED BY <1>1

\* A record that is found comes behind those before, and no record of the journal begins
\* inside of it.
LEMMA TakeKeeps ==
  ASSUME SearchInv, TakeRecord
  PROVE  SearchInv'
<1>1. /\ Searching /\ RecordAt(upos) /\ found' = Append(found, upos)
      /\ upos' = upos + Head_(upos).len /\ iterations' = iterations + 1 /\ journal' = journal
  BY DEF TakeRecord
<1>2. /\ journal \in Journals /\ upos \in Nat /\ iterations \in Nat /\ found \in Seq(Nat)
      /\ iterations <= Cardinality(StopsBefore(upos))
  BY DEF SearchInv
<1>3. upos < journal.len /\ journal.len \in Nat
  BY <1>1, <1>2, SearchingInside, JournalAssumption
<1>4. upos' = EndOf(upos) /\ upos' \in Nat /\ upos' > upos
  BY <1>1, <1>2, RecordInside DEF EndOf
<1> DEFINE n == Len(found)
<1>5. /\ n \in Nat /\ DOMAIN found = 1..n /\ found' \in Seq(Nat) /\ DOMAIN found' = 1..(n + 1)
      /\ found'[n + 1] = upos /\ \A i \in 1..n : found'[i] = found[i]
  <2>1. found' \in Seq(Nat) /\ Len(found') = n + 1 /\ n \in Nat
    BY <1>1, <1>2, AppendProperties, LenProperties
  <2>2. DOMAIN found = 1..n /\ DOMAIN found' = 1..(n + 1)
    BY <1>2, <2>1, LenProperties
  <2> QED BY <1>1, <1>2, <2>1, <2>2, AppendProperties
<1> HIDE DEF n
<1>6. ASSUME NEW i \in 1..n
      PROVE  RecordAt(found[i]) /\ EndOf(found[i]) \in Nat /\ EndOf(found[i]) <= upos
  <2>1. RecordAt(found[i]) /\ EndOf(found[i]) <= upos
    BY <1>5 DEF SearchInv
  <2> QED BY <1>2, <2>1, RecordInside
<1>7. ASSUME NEW i \in 1..(n + 1)
      PROVE  RecordAt(found'[i]) /\ EndOf(found'[i]) <= upos'
  <2>1. CASE i = n + 1
    BY <1>1, <1>4, <1>5, <2>1
  <2>2. CASE i # n + 1
    <3>1. i \in 1..n
      BY <1>5, <2>2
    <3>2. found'[i] = found[i] /\ EndOf(found[i]) <= upos /\ RecordAt(found[i]) /\ EndOf(found[i]) \in Nat
      BY <1>5, <1>6, <3>1
    <3> QED BY <1>2, <1>4, <3>2
  <2> QED BY <2>1, <2>2
<1>8. ASSUME NEW i \in 1..(n + 1), NEW j \in 1..(n + 1), i < j
      PROVE  EndOf(found'[i]) <= found'[j]
  <2>1. i \in 1..n /\ found'[i] = found[i]
    BY <1>5, <1>8
  <2>2. CASE j = n + 1
    BY <1>5, <1>6, <2>1, <2>2
  <2>3. CASE j # n + 1
    <3>1. j \in 1..n /\ found'[j] = found[j]
      BY <1>5, <2>3
    <3> QED BY <1>5, <1>8, <2>1, <3>1 DEF SearchInv
  <2> QED BY <2>2, <2>3
<1>9. ASSUME NEW p \in Chained, p < upos' PROVE \E i \in 1..(n + 1) : found'[i] = p
  <2>1. p \in Nat
    BY <1>3 DEF Chained
  <2>2. CASE p < upos
    <3>1. PICK i \in 1..n : found[i] = p
      BY <1>5, <2>2 DEF SearchInv
    <3> QED BY <1>5, <3>1
  <2>3. CASE p = upos
    BY <1>5, <2>3
  <2>4. CASE p > upos
    <3>1. EndOf(upos) <= p
      BY <1>1, <1>2, <2>4, ChainedOutside
    <3> QED BY <1>4, <1>9, <2>1, <3>1
  <2> QED BY <1>2, <2>1, <2>2, <2>3, <2>4
<1>10. iterations' \in Nat /\ iterations' <= Cardinality(StopsBefore(upos'))
  <2>1. Cardinality(StopsBefore(upos)) + 1 <= Cardinality(StopsBefore(upos'))
    BY <1>3, <1>4, StopsCount
  <2>2. Cardinality(StopsBefore(upos)) \in Nat /\ Cardinality(StopsBefore(upos')) \in Nat
    BY <1>2, StopsFinite
  <2> QED BY <1>1, <1>2, <2>1, <2>2
<1>11. /\ Chained' = Chained /\ \A b : StopsBefore(b)' = (StopsBefore(b))
       /\ \A p : RecordAt(p)' = RecordAt(p) /\ EndOf(p)' = EndOf(p)
  BY <1>1, SameJournal
<1>12. StopsBefore(upos)' = StopsBefore(upos')
  BY <1>1, <1>11 DEF StopsBefore, Outside, Covered, Head_
<1>13. \A i \in DOMAIN found' : (RecordAt(found[i]) /\ EndOf(found[i]) <= upos)'
  BY <1>1, <1>5, <1>7 DEF RecordAt, EndOf, Head_
<1>14. \A i, j \in DOMAIN found' : i < j => (EndOf(found[i]) <= found[j])'
  BY <1>1, <1>5, <1>8 DEF EndOf, Head_
<1>15. /\ journal' \in Journals /\ upos' \in Nat /\ iterations' \in Nat /\ found' \in Seq(Nat)
       /\ iterations' <= Cardinality(StopsBefore(upos)')
       /\ \A p \in Chained' : p < upos' => \E i \in DOMAIN found' : found'[i] = p
  BY <1>1, <1>2, <1>4, <1>5, <1>9, <1>10, <1>11, <1>12
<1> QED BY <1>13, <1>14, <1>15 DEF SearchInv

\* A word that begins no record is passed.
LEMMA SkipKeeps ==
  ASSUME SearchInv, SkipWord
  PROVE  SearchInv'
<1>1. /\ Searching /\ ~RecordAt(upos) /\ found' = found
      /\ upos' = upos + 1 /\ iterations' = iterations + 1 /\ journal' = journal
  BY DEF SkipWord
<1>2. /\ journal \in Journals /\ upos \in Nat /\ iterations \in Nat /\ found \in Seq(Nat)
      /\ iterations <= Cardinality(StopsBefore(upos))
  BY DEF SearchInv
<1>3. upos < journal.len /\ journal.len \in Nat /\ upos' \in Nat /\ upos < upos'
  BY <1>1, <1>2, SearchingInside, JournalAssumption
<1>4. ASSUME NEW i \in DOMAIN found PROVE RecordAt(found[i]) /\ EndOf(found[i]) <= upos'
  <2>1. RecordAt(found[i]) /\ EndOf(found[i]) <= upos
    BY DEF SearchInv
  <2>2. EndOf(found[i]) \in Nat
    BY <1>2, <2>1, RecordInside
  <2> QED BY <1>1, <1>2, <2>1, <2>2
<1>5. ASSUME NEW p \in Chained, p < upos' PROVE \E i \in DOMAIN found : found[i] = p
  <2>1. p \in Nat /\ RecordAt(p)
    BY <1>3 DEF Chained
  <2>2. p # upos
    BY <1>1, <2>1
  <2>3. p < upos
    BY <1>1, <1>2, <1>5, <2>1, <2>2
  <2> QED BY <2>3 DEF SearchInv
<1>6. iterations' \in Nat /\ iterations' <= Cardinality(StopsBefore(upos'))
  <2>1. Cardinality(StopsBefore(upos)) + 1 <= Cardinality(StopsBefore(upos'))
    BY <1>3, StopsCount
  <2>2. Cardinality(StopsBefore(upos)) \in Nat /\ Cardinality(StopsBefore(upos')) \in Nat
    BY <1>2, StopsFinite
  <2> QED BY <1>1, <1>2, <2>1, <2>2
<1>7. Chained' = Chained
  BY <1>1, SameJournal
<1>8. StopsBefore(upos)' = StopsBefore(upos')
  BY <1>1, <1>7 DEF StopsBefore, Outside, Covered, Head_
<1>9. \A i \in DOMAIN found' : (RecordAt(found[i]) /\ EndOf(found[i]) <= upos)'
  BY <1>1, <1>4 DEF RecordAt, EndOf, Head_
<1>10. \A i, j \in DOMAIN found' : i < j => (EndOf(found[i]) <= found[j])'
  BY <1>1 DEF SearchInv, EndOf, Head_
<1>11. /\ journal' \in Journals /\ upos' \in Nat /\ iterations' \in Nat /\ found' \in Seq(Nat)
       /\ iterations' <= Cardinality(StopsBefore(upos)')
       /\ \A p \in Chained' : p < upos' => \E i \in DOMAIN found' : found'[i] = p
  BY <1>1, <1>2, <1>3, <1>5, <1>6, <1>7, <1>8
<1> QED BY <1>9, <1>10, <1>11 DEF SearchInv

\* What does not search keeps it.
LEMMA SearchRests ==
  ASSUME SearchInv, UNCHANGED <<journal, upos, iterations, found>>
  PROVE  SearchInv'
<1>1. Chained' = Chained /\ StopsBefore(upos)' = StopsBefore(upos)
  BY SameJournal DEF StopsBefore
<1>2. \A p : RecordAt(p)' = RecordAt(p) /\ EndOf(p)' = EndOf(p)
  BY SameJournal
<1>3. \A i \in DOMAIN found' : (RecordAt(found[i]) /\ EndOf(found[i]) <= upos)'
  BY DEF SearchInv, RecordAt, EndOf, Head_
<1>4. \A i, j \in DOMAIN found' : i < j => (EndOf(found[i]) <= found[j])'
  BY DEF SearchInv, EndOf, Head_
<1>5. /\ journal' \in Journals /\ upos' \in Nat /\ iterations' \in Nat /\ found' \in Seq(Nat)
      /\ iterations' <= Cardinality(StopsBefore(upos)')
      /\ \A p \in Chained' : p < upos' => \E i \in DOMAIN found' : found'[i] = p
  BY <1>1 DEF SearchInv
<1> QED BY <1>3, <1>4, <1>5 DEF SearchInv

\* The places where the search can stop are the records of the journal and the words between.
LEMMA StopsAll ==
  ASSUME journal \in Journals
  PROVE  /\ Cardinality(Chained \union Outside) = Cardinality(Chained) + Between
         /\ Cardinality(Chained) \in Nat /\ Between \in Int
<1> DEFINE all == 0..(journal.len - 1)
<1>1. journal.len \in Nat
  BY JournalAssumption
<1>2. IsFiniteSet(all) /\ Cardinality(all) = journal.len
  <2>1. 0 \in Int /\ journal.len - 1 \in Int
    BY <1>1
  <2>2. IsFiniteSet(all) /\ Cardinality(all) = IF 0 > journal.len - 1 THEN 0 ELSE journal.len - 1 - 0 + 1
    BY <2>1, FS_Interval, Zenon
  <2> QED BY <1>1, <2>2
<1>3. ASSUME NEW p \in Chained
      PROVE  p \in p..(p + Head_(p).len - 1) /\ p..(p + Head_(p).len - 1) \in SUBSET all
  <2>1. RecordAt(p) /\ p \in Nat
    BY <1>1 DEF Chained
  <2>2. Head_(p).len \in Nat /\ Head_(p).len > 0 /\ p + Head_(p).len <= journal.len
    BY <2>1, RecordInside DEF EndOf
  <2> QED BY <1>1, <2>1, <2>2
<1>4. Covered \in SUBSET all /\ Chained \in SUBSET Covered
  <2>1. Covered \in SUBSET all
    BY <1>3 DEF Covered
  <2>2. Chained \in SUBSET Covered
    BY <1>3 DEF Covered
  <2> QED BY <2>1, <2>2
<1>5. Outside = all \ Covered
  BY DEF Outside
<1>6. Between = journal.len - Cardinality(Covered)
  BY DEF Between, Covered
<1> HIDE DEF all
<1>7. IsFiniteSet(Covered) /\ IsFiniteSet(Chained) /\ IsFiniteSet(Outside)
  BY <1>2, <1>4, <1>5, FS_Subset, FS_Difference
<1>8. Cardinality(Outside) = Cardinality(all) - Cardinality(Covered)
  <2>1. all \cap Covered = Covered
    BY <1>4
  <2>2. Cardinality(all \ Covered) = Cardinality(all) - Cardinality(all \cap Covered)
    BY <1>2, FS_Difference, Zenon
  <2> QED BY <1>5, <2>1, <2>2, Zenon
<1>9. Cardinality(Chained \union Outside) = Cardinality(Chained) + Cardinality(Outside)
  <2>1. Chained \cap Outside = {}
    BY <1>4, <1>5
  <2>2. Cardinality({}) = 0
    BY FS_EmptySet
  <2>3. Cardinality(Chained \union Outside)
          = Cardinality(Chained) + Cardinality(Outside) - Cardinality(Chained \cap Outside)
    BY <1>7, FS_Union, Zenon
  <2>4. Cardinality(Chained) \in Nat /\ Cardinality(Outside) \in Nat
    BY <1>7, FS_CardinalityType
  <2>5. Cardinality(Chained \cap Outside) = 0
    BY <2>1, <2>2, Zenon
  <2> QED BY <2>3, <2>4, <2>5
<1>10. Cardinality(Chained) \in Nat /\ Cardinality(Covered) \in Nat
  BY <1>7, FS_CardinalityType
<1> QED BY <1>1, <1>2, <1>6, <1>8, <1>9, <1>10

\* The search that is over has read all records of a journal that fits the bound of its loop:
\* it ends at the end of the data, or it has stopped at every place there was to stop at.
LEMMA SearchFinds ==
  ASSUME SearchInv, ustep = "scan", ~Searching, Cardinality(Chained) + Between <= MaxIterations
  PROVE  Chained \subseteq {found[i] : i \in DOMAIN found}
<1>1. journal \in Journals /\ upos \in Nat /\ iterations \in Nat
  BY DEF SearchInv
<1>2. journal.len \in Nat /\ MinRecord \in Nat \ {0}
  BY <1>1, JournalAssumption
<1>3. MaxIterations \in Int
  BY <1>2 DEF MaxIterations
<1>4. SUFFICES ASSUME NEW p \in Chained PROVE p < upos
  BY DEF SearchInv
<1>5. RecordAt(p) /\ p \in Nat
  BY <1>2 DEF Chained
<1>6. CASE ~(upos + MinRecord <= journal.len)
  <2>1. Head_(p).len \in Nat /\ Head_(p).len >= MinRecord /\ p + Head_(p).len <= journal.len
    BY <1>1, <1>5, RecordInside DEF EndOf
  <2> QED BY <1>1, <1>2, <1>5, <1>6, <2>1
<1>7. CASE ~(iterations < MaxIterations)
  <2> DEFINE stops == StopsBefore(upos)
             all == Chained \union Outside
  <2>1. IsFiniteSet(all) /\ Cardinality(all) <= MaxIterations /\ Cardinality(all) \in Nat
    BY <1>1, StopsFinite, StopsAll, FS_CardinalityType
  <2>2. stops \in SUBSET all /\ Cardinality(stops) \in Nat /\ Cardinality(stops) <= Cardinality(all)
    BY <1>1, StopsFinite DEF StopsBefore
  <2>3. iterations <= Cardinality(stops)
    BY DEF SearchInv
  <2>4. Cardinality(stops) = Cardinality(all)
    BY <1>1, <1>3, <1>7, <2>1, <2>2, <2>3
  <2> HIDE DEF stops, all
  <2>5. stops = all
    BY <2>1, <2>2, <2>4, FS_Subset
  <2> QED BY <2>5 DEF stops, all, StopsBefore
<1> QED BY <1>6, <1>7 DEF Searching

-----------------------------------------------------------------------------
(* Part 3: the events of the records that were found.                       *)

EventTypes == {"FILE_CREATED", "FILE_DELETED", "FILE_RENAMED", "FILE_MODIFIED",
               "ATTRIBUTE_CHANGED", "JOURNAL_ENTRY"}
Told == [record : Nat, type : EventTypes, previous : Int]
Refs == {journal.heads[p].ref : p \in DOMAIN journal.heads}

\* How often a record is in some events.
Count(told, p) == Cardinality({i \in DOMAIN told : told[i].record = p})

\* One more event tells its own record once more and no other.
LEMMA CountAppend ==
  ASSUME NEW told \in Seq(Told), NEW e \in Told, NEW p
  PROVE  /\ Append(told, e) \in Seq(Told)
         /\ Count(told, p) \in Nat
         /\ Count(Append(told, e), p) = Count(told, p) + (IF e.record = p THEN 1 ELSE 0)
<1> DEFINE n == Len(told)
           more == Append(told, e)
           old == {i \in DOMAIN told : told[i].record = p}
           new == {i \in DOMAIN more : more[i].record = p}
<1>1. /\ n \in Nat /\ DOMAIN told = 1..n /\ more \in Seq(Told) /\ DOMAIN more = 1..(n + 1)
      /\ more[n + 1] = e /\ \A i \in 1..n : more[i] = told[i]
  <2>1. more \in Seq(Told) /\ Len(more) = n + 1 /\ n \in Nat
    BY AppendProperties, LenProperties
  <2>2. DOMAIN told = 1..n /\ DOMAIN more = 1..(n + 1)
    BY <2>1, LenProperties
  <2> QED BY <2>1, <2>2, AppendProperties
<1> HIDE DEF n, more
<1>2. IsFiniteSet(old)
  <2>1. IsFiniteSet(1..n) /\ old \in SUBSET (1..n)
    BY <1>1, FS_Interval
  <2> HIDE DEF old
  <2> QED BY <2>1, FS_Subset
<1>3. n + 1 \notin old
  BY <1>1
<1>4. new = IF e.record = p THEN old \union {n + 1} ELSE old
  BY <1>1
<1> HIDE DEF old, new
<1>5. Cardinality(old) \in Nat /\ Cardinality(old \union {n + 1}) = Cardinality(old) + 1
  BY <1>2, <1>3, FS_AddElement, FS_CardinalityType
<1>6. Cardinality(new) = Cardinality(old) + (IF e.record = p THEN 1 ELSE 0)
  BY <1>4, <1>5
<1> USE DEF old, new, more
<1> QED BY <1>1, <1>5, <1>6 DEF Count

\* Events behind others, at most one of them of a record.
LEMMA CountConcat ==
  ASSUME NEW told \in Seq(Told), NEW rest \in Seq(Told), NEW p,
         \A i, j \in DOMAIN rest : rest[i].record = p /\ rest[j].record = p => i = j
  PROVE  /\ told \o rest \in Seq(Told)
         /\ Count(told \o rest, p)
              = Count(told, p) + (IF \E i \in DOMAIN rest : rest[i].record = p THEN 1 ELSE 0)
<1> DEFINE n == Len(told)
           m == Len(rest)
           more == told \o rest
           old == {i \in DOMAIN told : told[i].record = p}
           new == {i \in DOMAIN more : more[i].record = p}
<1>1. /\ n \in Nat /\ m \in Nat /\ DOMAIN told = 1..n /\ DOMAIN rest = 1..m
      /\ more \in Seq(Told) /\ DOMAIN more = 1..(n + m)
      /\ \A i \in 1..(n + m) : more[i] = IF i <= n THEN told[i] ELSE rest[i - n]
  <2>1. /\ more \in Seq(Told) /\ Len(more) = n + m /\ n \in Nat /\ m \in Nat
        /\ \A i \in 1..(n + m) : more[i] = IF i <= n THEN told[i] ELSE rest[i - n]
    BY ConcatProperties, LenProperties
  <2> QED BY <2>1, LenProperties
<1> HIDE DEF n, m, more
<1>2. IsFiniteSet(old)
  <2>1. IsFiniteSet(1..n) /\ old \in SUBSET (1..n)
    BY <1>1, FS_Interval
  <2> HIDE DEF old
  <2> QED BY <2>1, FS_Subset
<1>3. \A i \in 1..(n + m) : i > n => i - n \in 1..m
  BY <1>1
<1>4. CASE \E i \in DOMAIN rest : rest[i].record = p
  <2>1. PICK k \in 1..m : rest[k].record = p
    BY <1>1, <1>4
  <2>2. n + k \in 1..(n + m) /\ more[n + k] = rest[k] /\ n + k \notin 1..n
    <3>1. n + k \in 1..(n + m) /\ ~(n + k <= n) /\ (n + k) - n = k
      BY <1>1
    <3> QED BY <1>1, <3>1
  <2>3. \A i \in new : i \in old \/ i = n + k
    <3>1. ASSUME NEW i \in 1..(n + m), more[i].record = p, i > n PROVE i = n + k
      <4>1. i - n \in 1..m /\ rest[i - n].record = p
        BY <1>1, <1>3, <3>1
      <4>2. i - n = k
        BY <1>1, <2>1, <4>1
      <4> QED BY <1>1, <4>2
    <3>2. ASSUME NEW i \in 1..(n + m), more[i].record = p, ~(i > n) PROVE i \in old
      <4>1. i \in 1..n /\ i <= n
        BY <1>1, <3>2
      <4> QED BY <1>1, <3>2, <4>1
    <3> QED BY <1>1, <3>1, <3>2
  <2>4. old \union {n + k} \subseteq new
    <3>1. \A i \in 1..n : i \in 1..(n + m) /\ more[i] = told[i]
      BY <1>1
    <3> QED BY <1>1, <2>1, <2>2, <3>1
  <2>5. n + k \notin old
    BY <1>1, <2>2
  <2>6. new = old \union {n + k}
    BY <2>3, <2>4
  <2> HIDE DEF old, new
  <2>7. Cardinality(new) = Cardinality(old) + 1
    BY <1>2, <2>5, <2>6, FS_AddElement
  <2> USE DEF old, new, more
  <2> QED BY <1>1, <1>4, <2>7 DEF Count
<1>5. CASE ~\E i \in DOMAIN rest : rest[i].record = p
  <2>1. new \subseteq old
    <3> SUFFICES ASSUME NEW i \in 1..(n + m), more[i].record = p PROVE i \in 1..n /\ told[i].record = p
      BY <1>1
    <3>1. ~(i > n)
      BY <1>1, <1>3, <1>5
    <3> QED BY <1>1, <3>1
  <2>2. old \subseteq new
    <3>1. \A i \in 1..n : i \in 1..(n + m) /\ more[i] = told[i]
      BY <1>1
    <3> QED BY <1>1, <3>1
  <2>3. new = old
    BY <2>1, <2>2
  <2>4. Cardinality(old) \in Nat
    <3> HIDE DEF old
    <3> QED BY <1>2, FS_CardinalityType
  <2>5. Count(told, p) = Cardinality(old) /\ Count(more, p) = Cardinality(new)
    BY DEF Count
  <2> HIDE DEF old, new
  <2>6. Count(more, p) = Count(told, p) + 0
    BY <2>3, <2>4, <2>5
  <2> USE DEF more
  <2> QED BY <1>1, <1>5, <2>6
<1> QED BY <1>4, <1>5

\* The pair of a file in rename_pairs, if there is one.
LEMMA PairFound ==
  ASSUME NEW V, rename_pairs \in Seq(V), NEW ref
  PROVE  \/ PairOf(ref) = 0 /\ \A k \in DOMAIN rename_pairs : rename_pairs[k][1] # ref
         \/ PairOf(ref) \in DOMAIN rename_pairs /\ rename_pairs[PairOf(ref)][1] = ref
                /\ PairOf(ref) # 0
<1> DEFINE I == {i \in 1..Len(rename_pairs) : rename_pairs[i][1] = ref}
<1>1. PairOf(ref) = IF I # {} THEN Min(I) ELSE 0
  BY DEF PairOf, SelectInSeq
<1>2. DOMAIN rename_pairs = 1..Len(rename_pairs) /\ Len(rename_pairs) \in Nat
  BY LenProperties
<1>3. I # {} => Min(I) \in I
  <2>1. SUFFICES ASSUME I # {} PROVE Min(I) \in I
    OBVIOUS
  <2>2. I \in SUBSET Nat
    OBVIOUS
  <2> HIDE DEF I
  <2>3. \E x \in I : \A y \in I : x <= y
    BY <2>1, <2>2, LeastNatural
  <2> QED BY <2>3 DEF Min
<1>4. CASE I = {}
  BY <1>1, <1>2, <1>4
<1>5. CASE I # {}
  <2>1. PairOf(ref) \in I
    BY <1>1, <1>3, <1>5
  <2>2. 0 \notin DOMAIN rename_pairs
    BY <1>2
  <2> QED BY <1>2, <2>1, <2>2
<1> QED BY <1>4, <1>5

\* A sequence without its member at a place.
LEMMA Removed ==
  ASSUME NEW V, NEW s \in Seq(V), NEW place \in DOMAIN s
  PROVE  /\ RemoveAt(s, place) \in Seq(V)
         /\ DOMAIN RemoveAt(s, place) = 1..(Len(s) - 1)
         /\ \A k \in 1..(Len(s) - 1) : RemoveAt(s, place)[k] = IF k < place THEN s[k] ELSE s[k + 1]
<1> DEFINE n == Len(s)
           a == SubSeq(s, 1, place - 1)
           b == SubSeq(s, place + 1, n)
<1>1. n \in Nat /\ place \in 1..n /\ \A i \in 1..n : s[i] \in V
  BY LenProperties, ElementOfSeq
<1> HIDE DEF n
<1>2. /\ a \in Seq(V) /\ Len(a) = place - 1 /\ \A i \in 1..(place - 1) : a[i] = s[i]
  <2>1. 1 \in Int /\ place - 1 \in Int /\ \A i \in 1..(place - 1) : s[i] \in V
    BY <1>1
  <2>2. /\ a \in Seq(V) /\ Len(a) = IF 1 <= place - 1 THEN (place - 1) - 1 + 1 ELSE 0
        /\ \A i \in 1..((place - 1) - 1 + 1) : a[i] = s[1 + i - 1]
    BY <2>1, SubSeqProperties
  <2>3. Len(a) = place - 1
    BY <1>1, <2>2
  <2>4. ASSUME NEW i \in 1..(place - 1) PROVE a[i] = s[i]
    <3>1. i \in 1..((place - 1) - 1 + 1) /\ 1 + i - 1 = i
      BY <1>1
    <3> QED BY <2>2, <3>1
  <2> QED BY <2>2, <2>3, <2>4
<1>3. /\ b \in Seq(V) /\ Len(b) = n - place /\ \A i \in 1..(n - place) : b[i] = s[place + i]
  <2>1. n \in Int /\ place + 1 \in Int /\ \A i \in (place + 1)..n : s[i] \in V
    BY <1>1
  <2>2. /\ b \in Seq(V) /\ Len(b) = IF place + 1 <= n THEN n - (place + 1) + 1 ELSE 0
        /\ \A i \in 1..(n - (place + 1) + 1) : b[i] = s[(place + 1) + i - 1]
    BY <2>1, SubSeqProperties
  <2>3. Len(b) = n - place
    BY <1>1, <2>2
  <2>4. ASSUME NEW i \in 1..(n - place) PROVE b[i] = s[place + i]
    <3>1. i \in 1..(n - (place + 1) + 1) /\ (place + 1) + i - 1 = place + i
      BY <1>1
    <3> QED BY <2>2, <3>1
  <2> QED BY <2>2, <2>3, <2>4
<1>4. RemoveAt(s, place) = a \o b
  BY DEF RemoveAt, n
<1> HIDE DEF a, b
<1>5. /\ a \o b \in Seq(V) /\ Len(a \o b) = (place - 1) + (n - place)
      /\ \A i \in 1..((place - 1) + (n - place)) : (a \o b)[i] = IF i <= place - 1 THEN a[i] ELSE b[i - (place - 1)]
  <2>1. /\ a \o b \in Seq(V) /\ Len(a \o b) = Len(a) + Len(b)
        /\ \A i \in 1..(Len(a) + Len(b)) : (a \o b)[i] = IF i <= Len(a) THEN a[i] ELSE b[i - Len(a)]
    BY <1>2, <1>3, ConcatProperties
  <2>2. Len(a) = place - 1 /\ Len(b) = n - place
    BY <1>2, <1>3
  <2> QED BY <2>1, <2>2
<1>6. (place - 1) + (n - place) = n - 1
  BY <1>1
<1>7. DOMAIN (a \o b) = 1..(n - 1)
  BY <1>5, <1>6, LenProperties
<1>8. ASSUME NEW k \in 1..(n - 1) PROVE (a \o b)[k] = IF k < place THEN s[k] ELSE s[k + 1]
  <2>1. (a \o b)[k] = IF k <= place - 1 THEN a[k] ELSE b[k - (place - 1)]
    BY <1>5, <1>6
  <2>2. CASE k < place
    <3>1. k <= place - 1 /\ k \in 1..(place - 1)
      BY <1>1, <2>2
    <3> QED BY <1>2, <2>1, <2>2, <3>1
  <2>3. CASE ~(k < place)
    <3>1. ~(k <= place - 1) /\ k - (place - 1) \in 1..(n - place) /\ place + (k - (place - 1)) = k + 1
      BY <1>1, <2>3
    <3> QED BY <1>3, <2>1, <2>3, <3>1
  <2> QED BY <2>2, <2>3
<1> QED BY <1>4, <1>5, <1>7, <1>8 DEF n

\* What an event is, and what it is about.
LEMMA EventIs ==
  ASSUME journal \in Journals, NEW p \in Nat, NEW previous \in Int
  PROVE  /\ Event(p, previous) \in Told
         /\ Event(p, previous).record = p /\ Event(p, previous).previous = previous
         /\ Event(p, previous).type = EventType(Head_(p).reason)
<1>1. EventType(Head_(p).reason) \in EventTypes
  BY DEF EventType, EventTypes
<1> QED BY <1>1 DEF Event, Told

-----------------------------------------------------------------------------
(* Part 4: the invariant of the mapping.                                    *)

\* The pair waits for the new name of the file of the i-th record, which has one event; no
\* name of that file came since.
WaitsAt(pair, i) ==
    /\ pair[1] = Head_(found[i]).ref /\ pair[2] = found[i]
    /\ Old(found[i]) /\ Times(found[i]) = 1
    /\ \A j \in (i + 1)..(at_record - 1) :
          Head_(found[j]).ref = pair[1] => ~Old(found[j]) /\ ~New(found[j])

Waiting ==
    /\ \A k \in DOMAIN rename_pairs : \E i \in 1..(at_record - 1) : WaitsAt(rename_pairs[k], i)
    /\ \A k, l \in DOMAIN rename_pairs : rename_pairs[k][1] = rename_pairs[l][1] => k = l

\* The records up to the one being mapped have their events, the others none.
Counted ==
    \A i \in DOMAIN found :
        Times(found[i]) \in IF i >= at_record THEN {0} ELSE IF Old(found[i]) THEN 1..2 ELSE {1}

\* What RenamesPaired says of one event.
PairedRight(e) ==
    e.previous # None =>
        LET old == e.previous
            new == e.record
        IN  /\ Old(old) /\ New(new) /\ old < new
            /\ Head_(old).ref = Head_(new).ref
            /\ Head_(new).reason \cap {"create", "delete"} = {} => e.type = "FILE_RENAMED"
            /\ \A k \in DOMAIN found :
                (old < found[k] /\ found[k] < new /\ Head_(found[k]).ref = Head_(old).ref)
                    => ~Old(found[k]) /\ ~New(found[k])

Fits == Cardinality(Chained) + Between <= MaxIterations
AllFound == Fits => Chained \subseteq {found[i] : i \in DOMAIN found}

MapTypes ==
    /\ ustep \in {"scan", "map", "done"}
    /\ at_record \in 1..Len(found) + 1
    /\ rename_pairs \in Seq(Refs \X Nat)
    /\ events \in Seq(Told)

UsnInv ==
    /\ SearchInv /\ MapTypes
    /\ ustep = "scan" => at_record = 1 /\ rename_pairs = <<>> /\ events = <<>>
    /\ ustep # "scan" => AllFound
    /\ ustep = "map" => Waiting /\ Counted
    /\ ustep = "done" => EveryRecordTold
    /\ \A i \in DOMAIN events : PairedRight(events[i])

\* The records found are different places, in order.
LEMMA FoundOrder ==
  ASSUME SearchInv
  PROVE  /\ journal \in Journals /\ Len(found) \in Nat /\ DOMAIN found = 1..Len(found)
         /\ \A i \in DOMAIN found : found[i] \in Nat /\ found[i] \in DOMAIN journal.heads
         /\ \A i, j \in DOMAIN found : i < j => found[i] < found[j]
         /\ \A i, j \in DOMAIN found : found[i] = found[j] => i = j
         /\ \A i, j \in DOMAIN found : found[i] < found[j] => i < j
<1>1. journal \in Journals /\ found \in Seq(Nat)
  BY DEF SearchInv
<1>2. Len(found) \in Nat /\ DOMAIN found = 1..Len(found)
  BY <1>1, LenProperties
<1>3. \A i \in DOMAIN found : found[i] \in Nat /\ found[i] \in DOMAIN journal.heads
  BY <1>1, <1>2, ElementOfSeq DEF SearchInv, RecordAt
<1>4. ASSUME NEW i \in DOMAIN found, NEW j \in DOMAIN found, i < j PROVE found[i] < found[j]
  <2>1. RecordAt(found[i]) /\ EndOf(found[i]) <= found[j]
    BY <1>4 DEF SearchInv
  <2>2. EndOf(found[i]) \in Nat /\ EndOf(found[i]) > found[i]
    BY <1>1, <2>1, RecordInside
  <2> QED BY <1>3, <2>1, <2>2
<1>5. ASSUME NEW i \in DOMAIN found, NEW j \in DOMAIN found PROVE i < j \/ j < i \/ i = j
  BY <1>2
<1>6. ASSUME NEW i \in DOMAIN found, NEW j \in DOMAIN found, found[i] = found[j] PROVE i = j
  <2>1. ~(found[i] < found[j]) /\ ~(found[j] < found[i])
    BY <1>3, <1>6
  <2> QED BY <1>4, <1>5, <2>1
<1>7. ASSUME NEW i \in DOMAIN found, NEW j \in DOMAIN found, found[i] < found[j] PROVE i < j
  <2>1. i # j /\ ~(found[j] < found[i])
    BY <1>3, <1>7
  <2> QED BY <1>4, <1>5, <2>1
<1> QED BY <1>1, <1>2, <1>3, <1>4, <1>6, <1>7

\* What is said of an event depends on the journal and on the records found only.
LEMMA PairedStays ==
  ASSUME UNCHANGED <<journal, found>>, NEW e, PairedRight(e)
  PROVE  PairedRight(e)'
BY DEF PairedRight, Old, New, Head_

\* A pair goes on waiting when the record that is mapped names another file, or no name.
LEMMA WaitsOn ==
  ASSUME SearchInv, MapTypes, at_record \in DOMAIN found,
         UNCHANGED <<journal, found>>, at_record' = at_record + 1,
         NEW pair, NEW i \in 1..(at_record - 1), WaitsAt(pair, i),
         Head_(Rec).ref # pair[1] \/ (~Old(Rec) /\ ~New(Rec)),
         Count(events', found[i]) = Count(events, found[i])
  PROVE  i \in 1..(at_record' - 1) /\ WaitsAt(pair, i)'
<1>1. at_record \in Nat /\ i \in 1..(at_record' - 1)
  BY FoundOrder
<1>2. \A j \in (i + 1)..(at_record' - 1) : j \in (i + 1)..(at_record - 1) \/ j = at_record
  BY <1>1
<1>3. ASSUME NEW j \in (i + 1)..(at_record' - 1), Head_(found[j]).ref = pair[1]
      PROVE  ~Old(found[j]) /\ ~New(found[j])
  BY <1>2, <1>3 DEF WaitsAt, Rec
<1>4. /\ pair[1] = Head_(found[i]).ref /\ pair[2] = found[i] /\ Old(found[i]) /\ Times(found[i]) = 1
  BY DEF WaitsAt
<1> HIDE DEF Times
<1>5. \A p : Old(p)' = Old(p) /\ New(p)' = New(p) /\ Head_(p)' = Head_(p)
  BY DEF Old, New, Head_
<1>6. /\ (pair[1] = Head_(found[i]).ref)' /\ (pair[2] = found[i])' /\ Old(found[i])'
  BY <1>4 DEF Old, Head_
<1>7. Times(found[i])' = 1
  BY <1>4 DEF Times, Count
<1>8. \A j \in (i + 1)..(at_record' - 1) :
         (Head_(found[j]).ref = pair[1] => ~Old(found[j]) /\ ~New(found[j]))'
  BY <1>3 DEF Old, New, Head_
<1> QED BY <1>1, <1>6, <1>7, <1>8 DEF WaitsAt

\* Once the search is over, no record has an event.
LEMMA ScanOverKeeps ==
  ASSUME UsnInv, ScanOver
  PROVE  UsnInv'
<1>1. /\ ustep = "scan" /\ ~Searching /\ ustep' = "map"
      /\ UNCHANGED <<journal, upos, iterations, found, at_record, rename_pairs, events>>
  BY DEF ScanOver
<1>2. SearchInv /\ MapTypes /\ at_record = 1 /\ rename_pairs = <<>> /\ events = <<>>
  BY <1>1 DEF UsnInv
<1>3. SearchInv'
  BY <1>1, <1>2, SearchRests
<1>4. MapTypes'
  BY <1>1, <1>2 DEF MapTypes, Refs
<1>5. AllFound'
  <2>1. AllFound
    BY <1>1, <1>2, SearchFinds DEF AllFound, Fits
  <2> QED BY <1>1, <2>1 DEF AllFound, Fits, Chained, Between, MaxIterations, RecordAt, Head_
<1>6. DOMAIN events = {} /\ DOMAIN rename_pairs = {}
  BY <1>2
<1>7. Waiting'
  BY <1>1, <1>6 DEF Waiting
<1>8. Counted'
  <2>1. \A p : Times(p) = 0
    BY <1>6, FS_EmptySet DEF Times
  <2>2. \A i \in DOMAIN found : i >= at_record
    BY <1>2, FoundOrder
  <2>3. Counted
    BY <2>1, <2>2 DEF Counted
  <2> QED BY <1>1, <2>3 DEF Counted, Times, Old, Head_
<1>9. \A i \in DOMAIN events' : PairedRight(events[i])'
  BY <1>1, <1>6
<1> QED BY <1>1, <1>3, <1>4, <1>5, <1>7, <1>8, <1>9 DEF UsnInv

\* While the search goes on, nothing is mapped.
LEMMA SearchStepKeeps ==
  ASSUME UsnInv, TakeRecord \/ SkipWord
  PROVE  UsnInv'
<1>1. /\ ustep = "scan" /\ UNCHANGED <<journal, ustep, at_record, rename_pairs, events>>
  BY DEF TakeRecord, SkipWord, Searching
<1>2. SearchInv /\ MapTypes /\ at_record = 1 /\ rename_pairs = <<>> /\ events = <<>>
  BY <1>1 DEF UsnInv
<1>3. SearchInv'
  BY <1>2, TakeKeeps, SkipKeeps
<1>4. Len(found') \in Nat
  BY <1>3, LenProperties DEF SearchInv
<1>5. MapTypes'
  BY <1>1, <1>2, <1>4 DEF MapTypes, Refs
<1>6. DOMAIN events' = {}
  BY <1>1, <1>2
<1> QED BY <1>1, <1>2, <1>3, <1>5, <1>6 DEF UsnInv

\* The event of the record that is mapped, and what it changes of the counts.
LEMMA TellOne ==
  ASSUME UsnInv, ustep = "map", at_record \in DOMAIN found,
         UNCHANGED <<journal, ustep, upos, iterations, found>>, NextRecord,
         events' = Append(events, Event(Rec, None))
  PROVE  /\ SearchInv' /\ events' \in Seq(Told) /\ AllFound'
         /\ at_record' \in 1..Len(found') + 1
         /\ Counted'
         /\ \A p : p # Rec => Count(events', p) = Count(events, p)
         /\ Count(events', Rec) = 1
         /\ \A i \in DOMAIN events' : PairedRight(events[i])'
<1>1. SearchInv /\ MapTypes /\ Waiting /\ Counted /\ AllFound
  BY DEF UsnInv
<1>2. SearchInv'
  BY <1>1, SearchRests
<1>3. AllFound'
  BY <1>1 DEF AllFound, Fits, Chained, Between, MaxIterations, RecordAt, Head_
<1>4. /\ at_record \in Nat /\ DOMAIN found = 1..Len(found) /\ Len(found) \in Nat
      /\ at_record' = at_record + 1 /\ events \in Seq(Told) /\ journal \in Journals
  BY <1>1, FoundOrder DEF MapTypes, NextRecord
<1>5. at_record' \in 1..Len(found') + 1
  BY <1>4
<1> DEFINE e == Event(Rec, None)
<1>6. e \in Told /\ e.record = Rec /\ e.previous = None
  <2>1. Rec \in Nat /\ None \in Int
    BY <1>1, FoundOrder DEF Rec, None
  <2> QED BY <1>4, <2>1, EventIs
<1> HIDE DEF e
<1>7. events' = Append(events, e)
  BY DEF e
<1>8. \A p : Count(events', p) = Count(events, p) + (IF e.record = p THEN 1 ELSE 0)
             /\ Count(events, p) \in Nat /\ events' \in Seq(Told)
  BY <1>4, <1>6, <1>7, CountAppend
<1>9. \A p : Times(p) = Count(events, p) /\ Times(p)' = Count(events', p)
  BY DEF Times, Count
<1>10. \A p : p # Rec => Count(events', p) = Count(events, p)
  BY <1>6, <1>8
<1>11. Count(events', Rec) = 1
  <2>1. Count(events, Rec) = 0
    <3>1. Times(Rec) = 0
      BY <1>1, <1>4 DEF Counted, Rec
    <3> QED BY <1>9, <3>1
  <2> QED BY <1>6, <1>8, <2>1
<1>12. Counted'
  <2> SUFFICES ASSUME NEW i \in DOMAIN found
               PROVE  Count(events', found[i]) \in
                        IF i >= at_record' THEN {0} ELSE IF Old(found[i]) THEN 1..2 ELSE {1}
    BY <1>9 DEF Counted, Times, Count, Old, Head_
  <2>1. CASE i = at_record
    <3>1. Count(events', found[i]) = 1
      BY <1>1, <1>4, <1>6, <1>8, <1>9, <2>1 DEF Counted, Rec
    <3>2. ~(i >= at_record')
      BY <1>4, <2>1
    <3> QED BY <3>1, <3>2
  <2>2. CASE i # at_record
    <3>1. found[i] # Rec
      BY <1>1, <2>2, FoundOrder DEF Rec
    <3>2. Count(events', found[i]) = Times(found[i])
      BY <1>6, <1>8, <1>9, <3>1
    <3>3. i >= at_record' <=> i >= at_record
      BY <1>4, <2>2
    <3> HIDE DEF Times
    <3> QED BY <1>1, <3>2, <3>3 DEF Counted
  <2> QED BY <2>1, <2>2
<1>13. ASSUME NEW i \in DOMAIN events' PROVE PairedRight(events'[i])
  <2> DEFINE n == Len(events)
  <2>1. n \in Nat /\ DOMAIN events' = 1..(n + 1) /\ DOMAIN events = 1..n
        /\ events'[n + 1] = e /\ \A j \in 1..n : events'[j] = events[j]
    <3>1. Len(events') = n + 1 /\ events' \in Seq(Told) /\ n \in Nat
      BY <1>4, <1>6, <1>7, AppendProperties, LenProperties
    <3>2. DOMAIN events' = 1..(n + 1) /\ DOMAIN events = 1..n
      BY <1>4, <3>1, LenProperties
    <3> QED BY <1>4, <1>6, <1>7, <3>1, <3>2, AppendProperties
  <2> HIDE DEF n
  <2>2. CASE i = n + 1
    BY <1>6, <2>1, <2>2 DEF PairedRight
  <2>3. CASE i # n + 1
    <3>1. i \in 1..n /\ events'[i] = events[i]
      BY <2>1, <2>3
    <3> QED BY <2>1, <3>1 DEF UsnInv
  <2> QED BY <2>2, <2>3
<1>14. \A i \in DOMAIN events' : PairedRight(events[i])'
  <2> SUFFICES ASSUME NEW i \in DOMAIN events' PROVE PairedRight(events[i])'
    OBVIOUS
  <2>1. PICK told : told = events'[i]
    OBVIOUS
  <2>2. PairedRight(told)'
    BY <1>13, <2>1, PairedStays
  <2> QED BY <2>1, <2>2 DEF PairedRight
<1> QED BY <1>2, <1>3, <1>5, <1>8, <1>10, <1>11, <1>12, <1>14

\* A record that is no new name of a waiting file is told; its file waits no less than before.
LEMMA MapOtherKeeps ==
  ASSUME UsnInv, MapOther
  PROVE  UsnInv'
<1>1. /\ ustep = "map" /\ at_record \in DOMAIN found /\ ~Old(Rec) /\ ~(New(Rec) /\ Pair # 0)
      /\ events' = Append(events, Event(Rec, None)) /\ NextRecord
      /\ UNCHANGED <<journal, ustep, upos, iterations, found, rename_pairs>>
  BY DEF MapOther
<1>2. /\ SearchInv' /\ events' \in Seq(Told) /\ AllFound' /\ at_record' \in 1..Len(found') + 1
      /\ Counted' /\ \A p : p # Rec => Count(events', p) = Count(events, p)
      /\ \A i \in DOMAIN events' : PairedRight(events[i])'
  BY <1>1, TellOne
<1>3. SearchInv /\ MapTypes /\ Waiting
  BY <1>1 DEF UsnInv
<1>4. MapTypes'
  BY <1>1, <1>2, <1>3 DEF MapTypes, Refs
<1>5. ASSUME NEW k \in DOMAIN rename_pairs
      PROVE  \E i \in 1..(at_record' - 1) : WaitsAt(rename_pairs[k], i)'
  <2>1. PICK i \in 1..(at_record - 1) : WaitsAt(rename_pairs[k], i)
    BY <1>3 DEF Waiting
  <2>2. Head_(Rec).ref # rename_pairs[k][1] \/ (~Old(Rec) /\ ~New(Rec))
    <3>1. SUFFICES ASSUME Head_(Rec).ref = rename_pairs[k][1], New(Rec) PROVE FALSE
      BY <1>1
    <3>2. Pair # 0
      BY <1>3, <3>1, PairFound DEF Pair, MapTypes
    <3> QED BY <1>1, <3>1, <3>2
  <2>3. Count(events', found[i]) = Count(events, found[i])
    <3>1. i \in DOMAIN found /\ i # at_record
      BY <1>1, <1>3, FoundOrder DEF MapTypes
    <3>2. found[i] # Rec
      BY <1>1, <1>3, <3>1, FoundOrder DEF Rec
    <3> QED BY <1>2, <3>2
  <2>4. at_record' = at_record + 1 /\ UNCHANGED <<journal, found>>
    BY <1>1 DEF NextRecord
  <2>5. i \in 1..(at_record' - 1) /\ WaitsAt(rename_pairs[k], i)'
    <3> DEFINE pair == rename_pairs[k]
    <3>1. WaitsAt(pair, i) /\ (Head_(Rec).ref # pair[1] \/ (~Old(Rec) /\ ~New(Rec)))
      BY <2>1, <2>2
    <3> QED BY <1>1, <1>3, <2>3, <2>4, <3>1, WaitsOn
  <2> QED BY <2>5
<1>6. Waiting'
  BY <1>1, <1>3, <1>5 DEF Waiting
<1> QED BY <1>1, <1>2, <1>4, <1>6 DEF UsnInv

\* The pairs when an old name is mapped: the new pair is at one place, the others are of other
\* files.
LEMMA OldPairs ==
  ASSUME SearchInv, MapTypes, Waiting, at_record \in DOMAIN found,
         rename_pairs' = IF Pair = 0 THEN Append(rename_pairs, <<Head_(Rec).ref, Rec>>)
                         ELSE [rename_pairs EXCEPT ![Pair] = <<Head_(Rec).ref, Rec>>]
  PROVE  /\ rename_pairs' \in Seq(Refs \X Nat)
         /\ \E k \in DOMAIN rename_pairs' :
              /\ rename_pairs'[k] = <<Head_(Rec).ref, Rec>>
              /\ \A l \in DOMAIN rename_pairs' \ {k} :
                    /\ l \in DOMAIN rename_pairs /\ rename_pairs'[l] = rename_pairs[l]
                    /\ rename_pairs[l][1] # Head_(Rec).ref
<1> DEFINE new == <<Head_(Rec).ref, Rec>>
           V == Refs \X Nat
           n == Len(rename_pairs)
           ref == Head_(Rec).ref
<1>1. new \in V
  BY FoundOrder DEF Rec, Refs, Head_
<1>2. rename_pairs \in Seq(V)
  BY DEF MapTypes
<1>3. n \in Nat /\ DOMAIN rename_pairs = 1..n
  BY <1>2, LenProperties
<1> HIDE DEF new, V, n, ref
<1>4. \/ Pair = 0 /\ \A k \in DOMAIN rename_pairs : rename_pairs[k][1] # ref
      \/ Pair \in DOMAIN rename_pairs /\ rename_pairs[Pair][1] = ref /\ Pair # 0
  BY <1>2, PairFound DEF Pair, ref
<1>5. CASE Pair = 0
  <2>1. rename_pairs' = Append(rename_pairs, new)
    BY <1>5 DEF new
  <2>2. rename_pairs' \in Seq(V) /\ Len(rename_pairs') = n + 1
    BY <1>1, <1>2, <2>1, AppendProperties DEF n
  <2>3. DOMAIN rename_pairs' = 1..(n + 1)
    BY <2>2, LenProperties
  <2>4. rename_pairs'[n + 1] = new /\ \A l \in 1..n : rename_pairs'[l] = rename_pairs[l]
    <3>1. /\ Append(rename_pairs, new)[Len(rename_pairs) + 1] = new
          /\ \A l \in 1..Len(rename_pairs) : Append(rename_pairs, new)[l] = rename_pairs[l]
      BY <1>1, <1>2, AppendProperties
    <3> QED BY <2>1, <3>1 DEF n
  <2>5. n + 1 \in 1..(n + 1) /\ \A l \in 1..(n + 1) \ {n + 1} : l \in 1..n
    BY <1>3
  <2>6. \A l \in DOMAIN rename_pairs : rename_pairs[l][1] # ref
    BY <1>3, <1>4, <1>5
  <2>7. \A l \in DOMAIN rename_pairs' \ {n + 1} :
           l \in DOMAIN rename_pairs /\ rename_pairs'[l] = rename_pairs[l] /\ rename_pairs[l][1] # ref
    BY <1>3, <2>3, <2>4, <2>5, <2>6
  <2> QED BY <2>2, <2>3, <2>4, <2>5, <2>7 DEF new, V, ref
<1>6. CASE Pair # 0
  <2>1. rename_pairs' = [rename_pairs EXCEPT ![Pair] = new]
    BY <1>6 DEF new
  <2>2. Pair \in DOMAIN rename_pairs /\ rename_pairs[Pair][1] = ref
    BY <1>4, <1>6
  <2>3. rename_pairs' \in Seq(V) /\ DOMAIN rename_pairs' = DOMAIN rename_pairs
    <3>1. \A i \in 1..n : rename_pairs[i] \in V
      BY <1>2, ElementOfSeq DEF n
    <3>2. rename_pairs = [i \in 1..n |-> rename_pairs[i]]
      BY <1>2, <1>3
    <3>3. rename_pairs' \in [1..n -> V]
      BY <1>1, <1>3, <2>1, <2>2, <3>1, <3>2
    <3>4. \A f \in [1..n -> V] : f \in Seq(V)
      BY <1>3
    <3>5. DOMAIN rename_pairs' = DOMAIN rename_pairs
      BY <2>1
    <3> QED BY <3>3, <3>4, <3>5
  <2>4. rename_pairs'[Pair] = new
    BY <2>1, <2>2
  <2>5. ASSUME NEW l \in DOMAIN rename_pairs' \ {Pair}
        PROVE  l \in DOMAIN rename_pairs /\ rename_pairs'[l] = rename_pairs[l] /\ rename_pairs[l][1] # ref
    BY <2>1, <2>2, <2>3 DEF Waiting
  <2> QED BY <2>2, <2>3, <2>4, <2>5 DEF new, V, ref
<1> QED BY <1>5, <1>6

\* An old name is told, and waits from now on.
LEMMA MapOldKeeps ==
  ASSUME UsnInv, MapOld
  PROVE  UsnInv'
<1>1. /\ ustep = "map" /\ at_record \in DOMAIN found /\ Old(Rec)
      /\ rename_pairs' = IF Pair = 0 THEN Append(rename_pairs, <<Head_(Rec).ref, Rec>>)
                         ELSE [rename_pairs EXCEPT ![Pair] = <<Head_(Rec).ref, Rec>>]
      /\ events' = Append(events, Event(Rec, None)) /\ NextRecord
      /\ UNCHANGED <<journal, ustep, upos, iterations, found>>
  BY DEF MapOld
<1>2. /\ SearchInv' /\ events' \in Seq(Told) /\ AllFound' /\ at_record' \in 1..Len(found') + 1
      /\ Counted' /\ \A p : p # Rec => Count(events', p) = Count(events, p)
      /\ Count(events', Rec) = 1
      /\ \A i \in DOMAIN events' : PairedRight(events[i])'
  BY <1>1, TellOne
<1>3. SearchInv /\ MapTypes /\ Waiting
  BY <1>1 DEF UsnInv
<1>4. /\ rename_pairs' \in Seq(Refs \X Nat)
      /\ \E k \in DOMAIN rename_pairs' :
              /\ rename_pairs'[k] = <<Head_(Rec).ref, Rec>>
              /\ \A l \in DOMAIN rename_pairs' \ {k} :
                    /\ l \in DOMAIN rename_pairs /\ rename_pairs'[l] = rename_pairs[l]
                    /\ rename_pairs[l][1] # Head_(Rec).ref
  BY <1>1, <1>3, OldPairs
<1>5. MapTypes'
  BY <1>1, <1>2, <1>4 DEF MapTypes, Refs
<1>6. PICK k \in DOMAIN rename_pairs' :
              /\ rename_pairs'[k] = <<Head_(Rec).ref, Rec>>
              /\ \A l \in DOMAIN rename_pairs' \ {k} :
                    /\ l \in DOMAIN rename_pairs /\ rename_pairs'[l] = rename_pairs[l]
                    /\ rename_pairs[l][1] # Head_(Rec).ref
  BY <1>4
<1>7. at_record' = at_record + 1 /\ at_record \in Nat /\ UNCHANGED <<journal, found>>
  BY <1>1, <1>3, FoundOrder DEF NextRecord
<1>8. ASSUME NEW pair, pair = rename_pairs'[k]
      PROVE  \E i \in 1..(at_record' - 1) : WaitsAt(pair, i)'
  <2>1. PICK i : i = at_record
    OBVIOUS
  <2>2. pair[1] = Head_(Rec).ref /\ pair[2] = Rec /\ found[i] = Rec
    BY <1>6, <1>8, <2>1 DEF Rec
  <2>3. i \in 1..(at_record' - 1) /\ (i + 1)..(at_record' - 1) = {}
    BY <1>1, <1>3, <1>7, <2>1, FoundOrder
  <2>4. (pair[1] = Head_(found[i]).ref)' /\ (pair[2] = found[i])' /\ Old(found[i])'
    BY <1>1, <1>7, <2>2 DEF Old, Head_
  <2>5. Times(found[i])' = 1
    BY <1>2, <1>7, <2>2 DEF Times, Count
  <2> QED BY <2>3, <2>4, <2>5 DEF WaitsAt
<1>9. ASSUME NEW l \in DOMAIN rename_pairs', l # k, NEW pair, pair = rename_pairs'[l]
      PROVE  \E i \in 1..(at_record' - 1) : WaitsAt(pair, i)'
  <2>1. l \in DOMAIN rename_pairs /\ pair = rename_pairs[l] /\ pair[1] # Head_(Rec).ref
    BY <1>6, <1>9
  <2>2. PICK i \in 1..(at_record - 1) : WaitsAt(pair, i)
    BY <1>3, <2>1 DEF Waiting
  <2>3. Count(events', found[i]) = Count(events, found[i])
    <3>1. i \in DOMAIN found /\ i # at_record
      BY <1>1, <1>3, FoundOrder DEF MapTypes
    <3>2. found[i] # Rec
      BY <1>1, <1>3, <3>1, FoundOrder DEF Rec
    <3> QED BY <1>2, <3>2
  <2>4. i \in 1..(at_record' - 1) /\ WaitsAt(pair, i)'
    BY <1>1, <1>3, <1>7, <2>1, <2>2, <2>3, WaitsOn
  <2> QED BY <2>4
<1>10. Waiting'
  <2>1. ASSUME NEW l \in DOMAIN rename_pairs'
        PROVE  (\E i \in 1..(at_record - 1) : WaitsAt(rename_pairs[l], i))'
    <3>1. PICK pair : pair = rename_pairs'[l]
      OBVIOUS
    <3>2. PICK i \in 1..(at_record' - 1) : WaitsAt(pair, i)'
      BY <1>8, <1>9, <3>1
    <3> QED BY <3>1, <3>2 DEF WaitsAt
  <2>2. ASSUME NEW l \in DOMAIN rename_pairs', NEW m \in DOMAIN rename_pairs',
               rename_pairs'[l][1] = rename_pairs'[m][1]
        PROVE  l = m
    <3>1. rename_pairs'[k][1] = Head_(Rec).ref
      BY <1>6
    <3>2. l = k <=> m = k
      BY <1>6, <2>2, <3>1
    <3>3. CASE l # k /\ m # k
      BY <1>3, <1>6, <2>2, <3>3 DEF Waiting
    <3> QED BY <3>2, <3>3
  <2> QED BY <2>1, <2>2 DEF Waiting
<1> QED BY <1>1, <1>2, <1>5, <1>10 DEF UsnInv

\* A new name of a waiting file is told with the old one: the old name is the last one of
\* the file, and the flags of the new one tell a rename unless they tell more.
LEMMA PairIsRight ==
  ASSUME SearchInv, MapTypes, at_record \in DOMAIN found, New(Rec),
         NEW i \in 1..(at_record - 1), NEW pair, WaitsAt(pair, i), pair[1] = Head_(Rec).ref
  PROVE  PairedRight(Event(Rec, pair[2]))
<1>1. /\ pair[2] = found[i] /\ Old(found[i]) /\ Head_(found[i]).ref = Head_(Rec).ref
      /\ \A j \in (i + 1)..(at_record - 1) :
            Head_(found[j]).ref = pair[1] => ~Old(found[j]) /\ ~New(found[j])
  BY DEF WaitsAt
<1>2. /\ i \in DOMAIN found /\ found[i] < Rec /\ Rec \in Nat /\ found[i] \in Nat
      /\ journal \in Journals /\ at_record \in Nat /\ DOMAIN found \subseteq Nat
  <2>1. i \in DOMAIN found /\ i < at_record
    BY FoundOrder
  <2> QED BY <2>1, FoundOrder DEF Rec
<1> DEFINE e == Event(Rec, pair[2])
<1>3. e.record = Rec /\ e.previous = found[i] /\ e.type = EventType(Head_(Rec).reason)
  BY <1>1, <1>2, EventIs
<1> HIDE DEF e
<1>4. Head_(Rec).reason \cap {"create", "delete"} = {} => e.type = "FILE_RENAMED"
  <2>1. SUFFICES ASSUME Head_(Rec).reason \cap {"create", "delete"} = {}
                 PROVE  EventType(Head_(Rec).reason) = "FILE_RENAMED"
    BY <1>3
  <2> DEFINE r == Head_(Rec).reason
  <2>2. "new" \in r
    BY DEF New
  <2>3. "create" \notin r /\ "delete" \notin r /\ r \cap {"old", "new"} # {}
    BY <2>1, <2>2
  <2> HIDE DEF r
  <2>4. EventType(r) = "FILE_RENAMED"
    BY <2>3 DEF EventType
  <2> QED BY <2>4 DEF r
<1>5. ASSUME NEW k \in DOMAIN found, found[i] < found[k], found[k] < Rec,
             Head_(found[k]).ref = Head_(found[i]).ref
      PROVE  ~Old(found[k]) /\ ~New(found[k])
  <2>1. i < k /\ k < at_record
    BY <1>2, <1>5, FoundOrder DEF Rec
  <2>2. k \in (i + 1)..(at_record - 1)
    BY <1>2, <2>1
  <2> QED BY <1>1, <1>5, <2>2 DEF WaitsAt
<1>6. PairedRight(e)
  BY <1>1, <1>2, <1>3, <1>4, <1>5 DEF PairedRight
<1> QED BY <1>6 DEF e

\* A new name of a waiting file is told with the old one, which waits no longer.
LEMMA MapNewKeeps ==
  ASSUME UsnInv, MapNew
  PROVE  UsnInv'
<1>1. /\ ustep = "map" /\ at_record \in DOMAIN found /\ New(Rec) /\ Pair # 0
      /\ rename_pairs' = RemoveAt(rename_pairs, Pair)
      /\ events' = events \o <<Event(rename_pairs[Pair][2], None), Event(Rec, rename_pairs[Pair][2])>>
      /\ at_record' = at_record + 1
      /\ UNCHANGED <<journal, ustep, upos, iterations, found>>
  BY DEF MapNew, NextRecord
<1>2. SearchInv /\ MapTypes /\ Waiting /\ Counted /\ AllFound
  BY <1>1 DEF UsnInv
<1>3. /\ rename_pairs \in Seq(Refs \X Nat) /\ events \in Seq(Told) /\ journal \in Journals
      /\ at_record \in Nat /\ DOMAIN found = 1..Len(found) /\ Len(found) \in Nat
  BY <1>2, FoundOrder DEF MapTypes
<1>here. /\ at_record \in Nat /\ at_record \in 1..Len(found) /\ Len(found) \in Nat
         /\ DOMAIN found = 1..Len(found) /\ at_record' = at_record + 1 /\ found' = found
  BY <1>1, <1>3
<1>4. Pair \in DOMAIN rename_pairs /\ rename_pairs[Pair][1] = Head_(Rec).ref
  BY <1>1, <1>3, PairFound DEF Pair
<1>5. PICK pair : pair = rename_pairs[Pair]
  OBVIOUS
<1>6. PICK i \in 1..(at_record - 1) : WaitsAt(pair, i)
  BY <1>2, <1>4, <1>5 DEF Waiting
<1>7. PICK old : old = found[i]
  OBVIOUS
<1>8. pair[1] = Head_(Rec).ref /\ pair[2] = old /\ Old(old) /\ Times(old) = 1 /\ ~Old(Rec)
  BY <1>1, <1>4, <1>5, <1>6, <1>7 DEF WaitsAt, New
<1>9. i \in DOMAIN found /\ old \in Nat /\ Rec \in Nat /\ old # Rec
  <2>1. i \in DOMAIN found /\ i # at_record
    BY <1>here
  <2> QED BY <1>1, <1>2, <1>7, <2>1, FoundOrder DEF Rec
<1> DEFINE e1 == Event(old, None)
           e2 == Event(Rec, old)
           rest == <<e1, e2>>
<1>10. e1 \in Told /\ e2 \in Told /\ e1.record = old /\ e2.record = Rec /\ e1.previous = None
  <2>1. None \in Int /\ old \in Int
    BY <1>9 DEF None
  <2> QED BY <1>3, <1>9, <2>1, EventIs
<1>11. PairedRight(e1) /\ PairedRight(e2)
  <2>1. PairedRight(e1)
    BY <1>10 DEF PairedRight
  <2>2. PairedRight(Event(Rec, pair[2]))
    BY <1>1, <1>2, <1>6, <1>8, PairIsRight
  <2> QED BY <1>8, <2>1, <2>2
<1>12. events' = events \o rest
  BY <1>1, <1>5, <1>8
<1> HIDE DEF e1, e2
<1>13. rest \in Seq(Told) /\ DOMAIN rest = {1, 2} /\ Len(rest) = 2 /\ rest[1] = e1 /\ rest[2] = e2
  BY <1>10
<1> HIDE DEF rest
<1>14. \A p : /\ events' \in Seq(Told)
              /\ Count(events', p) = Count(events, p)
                    + (IF \E j \in DOMAIN rest : rest[j].record = p THEN 1 ELSE 0)
  <2> SUFFICES ASSUME NEW p
               PROVE  /\ events' \in Seq(Told)
                      /\ Count(events', p) = Count(events, p)
                            + (IF \E j \in DOMAIN rest : rest[j].record = p THEN 1 ELSE 0)
    OBVIOUS
  <2>1. \A j, k \in DOMAIN rest : rest[j].record = p /\ rest[k].record = p => j = k
    BY <1>9, <1>10, <1>13
  <2> QED BY <1>3, <1>12, <1>13, <2>1, CountConcat
<1>15. \A p : (\E j \in DOMAIN rest : rest[j].record = p) <=> p = old \/ p = Rec
  BY <1>10, <1>13
<1>16. \A p : Times(p) = Count(events, p) /\ Times(p)' = Count(events', p)
  BY DEF Times, Count
<1>17. ASSUME NEW j \in DOMAIN found
       PROVE  Count(events, found[j]) \in IF j >= at_record THEN {0} ELSE IF Old(found[j]) THEN 1..2 ELSE {1}
  BY <1>2, <1>16 DEF Counted
<1>18. ASSUME NEW j \in DOMAIN found, found[j] # old, found[j] # Rec
       PROVE  Count(events', found[j]) = Count(events, found[j])
  <2>1. Count(events, found[j]) \in Int
    BY <1>17
  <2>2. Count(events', found[j]) = Count(events, found[j]) + 0
    BY <1>14, <1>15, <1>18
  <2> QED BY <2>1, <2>2
<1>19. Count(events', old) = 2 /\ Count(events', Rec) = 1
  <2>1. Count(events, old) = 1
    BY <1>8, <1>16
  <2>2. Count(events, Rec) = 0
    BY <1>1, <1>3, <1>17 DEF Rec
  <2>3. Count(events', old) = Count(events, old) + 1 /\ Count(events', Rec) = Count(events, Rec) + 1
    BY <1>14, <1>15
  <2> QED BY <2>1, <2>2, <2>3
<1>20. Counted'
  <2> SUFFICES ASSUME NEW j \in DOMAIN found
               PROVE  Count(events', found[j]) \in
                        IF j >= at_record' THEN {0} ELSE IF Old(found[j]) THEN 1..2 ELSE {1}
    BY <1>1, <1>16 DEF Counted, Times, Count, Old, Head_
  <2>1. CASE j = at_record
    <3>1. Count(events', found[j]) = 1 /\ ~Old(found[j])
      BY <1>8, <1>19, <2>1 DEF Rec
    <3>2. ~(j >= at_record')
      BY <1>here, <2>1
    <3> QED BY <3>1, <3>2
  <2>2. CASE j = i
    <3>1. Count(events', found[j]) = 2 /\ Old(found[j])
      BY <1>7, <1>8, <1>19, <2>2
    <3>2. ~(j >= at_record')
      BY <1>here, <2>2
    <3> QED BY <3>1, <3>2
  <2>3. CASE j # at_record /\ j # i
    <3>1. found[j] # old /\ found[j] # Rec
      BY <1>1, <1>2, <1>7, <1>9, <2>3, FoundOrder DEF Rec
    <3>2. Count(events', found[j]) = Count(events, found[j])
      BY <1>18, <3>1
    <3>3. j >= at_record' <=> j >= at_record
      BY <1>here, <2>3
    <3> QED BY <1>17, <3>2, <3>3
  <2> QED BY <2>1, <2>2, <2>3
<1> DEFINE n == Len(rename_pairs)
           less == RemoveAt(rename_pairs, Pair)
<1>21. /\ less \in Seq(Refs \X Nat) /\ DOMAIN less = 1..(n - 1) /\ n \in Nat /\ DOMAIN rename_pairs = 1..n
       /\ \A k \in 1..(n - 1) : less[k] = IF k < Pair THEN rename_pairs[k] ELSE rename_pairs[k + 1]
  BY <1>3, <1>4, Removed, LenProperties
<1>22. rename_pairs' = less
  BY <1>1
<1> DEFINE from(k) == IF k < Pair THEN k ELSE k + 1
<1> HIDE DEF n, less
<1>23. \A k \in 1..(n - 1) : /\ from(k) \in DOMAIN rename_pairs /\ from(k) # Pair
                             /\ less[k] = rename_pairs[from(k)]
  <2> SUFFICES ASSUME NEW k \in 1..(n - 1)
               PROVE  /\ from(k) \in DOMAIN rename_pairs /\ from(k) # Pair
                      /\ less[k] = rename_pairs[from(k)]
    OBVIOUS
  <2>1. k \in 1..n /\ k + 1 \in 1..n /\ Pair \in 1..n
    BY <1>4, <1>21
  <2> QED BY <1>21, <2>1
<1>24. \A k, l \in 1..(n - 1) : from(k) = from(l) => k = l
  <2>1. Pair \in Nat /\ n \in Nat
    BY <1>4, <1>21
  <2>2. ASSUME NEW k \in 1..(n - 1), NEW l \in 1..(n - 1), from(k) = from(l) PROVE k = l
    BY <2>1, <2>2
  <2> QED BY <2>2
<1> HIDE DEF from
<1>25. ASSUME NEW k \in 1..(n - 1), NEW other, other = less[k]
       PROVE  \E j \in 1..(at_record' - 1) : WaitsAt(other, j)'
  <2>1. other = rename_pairs[from(k)] /\ from(k) \in DOMAIN rename_pairs
    BY <1>23, <1>25
  <2>2. other[1] # Head_(Rec).ref
    BY <1>2, <1>4, <1>23, <2>1 DEF Waiting
  <2>3. PICK j \in 1..(at_record - 1) : WaitsAt(other, j)
    BY <1>2, <2>1 DEF Waiting
  <2>4. j \in DOMAIN found /\ j # at_record /\ j # i
    <3>1. j \in DOMAIN found /\ j # at_record
      BY <1>here
    <3>2. other[1] = Head_(found[j]).ref /\ pair[1] = Head_(found[i]).ref
      BY <1>6, <2>3 DEF WaitsAt
    <3> QED BY <1>8, <2>2, <3>1, <3>2
  <2>5. found[j] # old /\ found[j] # Rec
    BY <1>1, <1>2, <1>7, <1>9, <2>4, FoundOrder DEF Rec
  <2>6. Count(events', found[j]) = Count(events, found[j])
    BY <1>18, <2>4, <2>5
  <2>7. j \in 1..(at_record' - 1) /\ WaitsAt(other, j)'
    BY <1>1, <1>2, <2>2, <2>3, <2>6, WaitsOn
  <2> QED BY <2>7
<1>26. Waiting'
  <2>1. ASSUME NEW k \in DOMAIN rename_pairs'
        PROVE  (\E j \in 1..(at_record - 1) : WaitsAt(rename_pairs[k], j))'
    <3>1. PICK other : other = rename_pairs'[k]
      OBVIOUS
    <3>2. PICK j \in 1..(at_record' - 1) : WaitsAt(other, j)'
      BY <1>21, <1>22, <1>25, <3>1
    <3> QED BY <3>1, <3>2 DEF WaitsAt
  <2>2. ASSUME NEW k \in DOMAIN rename_pairs', NEW l \in DOMAIN rename_pairs',
               rename_pairs'[k][1] = rename_pairs'[l][1]
        PROVE  k = l
    <3>1. rename_pairs[from(k)][1] = rename_pairs[from(l)][1]
      BY <1>21, <1>22, <1>23, <2>2
    <3>2. from(k) = from(l)
      BY <1>2, <1>21, <1>22, <1>23, <3>1 DEF Waiting
    <3> QED BY <1>21, <1>22, <1>24, <3>2
  <2> QED BY <2>1, <2>2 DEF Waiting
<1>27. ASSUME NEW k \in DOMAIN events' PROVE PairedRight(events'[k])
  <2> DEFINE m == Len(events)
  <2>1. m \in Nat /\ DOMAIN events = 1..m
    BY <1>3, LenProperties
  <2>2. Len(events') = m + 2 /\ \A j \in 1..(m + 2) : events'[j] = IF j <= m THEN events[j] ELSE rest[j - m]
    <3>1. /\ Len(events \o rest) = Len(events) + Len(rest)
          /\ \A j \in 1..(Len(events) + Len(rest)) :
                (events \o rest)[j] = IF j <= Len(events) THEN events[j] ELSE rest[j - Len(events)]
      <4>1. events \in Seq(Told) /\ rest \in Seq(Told)
        BY <1>3, <1>13
      <4> QED BY <4>1, ConcatProperties, Zenon
    <3> QED BY <1>12, <1>13, <3>1
  <2>3. DOMAIN events' = 1..(m + 2)
    BY <1>14, <2>2, LenProperties
  <2> HIDE DEF m
  <2>4. CASE k <= m
    <3>1. k \in 1..m /\ events'[k] = events[k]
      BY <2>1, <2>2, <2>3, <2>4
    <3> QED BY <2>1, <3>1 DEF UsnInv
  <2>5. CASE ~(k <= m)
    <3>1. k - m \in {1, 2}
      BY <2>1, <2>3, <2>5
    <3>2. events'[k] = rest[k - m]
      BY <2>2, <2>3, <2>5
    <3> QED BY <1>11, <1>13, <3>1, <3>2
  <2> QED BY <2>4, <2>5
<1>28. \A k \in DOMAIN events' : PairedRight(events[k])'
  <2> SUFFICES ASSUME NEW k \in DOMAIN events' PROVE PairedRight(events[k])'
    OBVIOUS
  <2>1. PICK e : e = events'[k]
    OBVIOUS
  <2>2. PairedRight(e)'
    BY <1>1, <1>27, <2>1, PairedStays
  <2> QED BY <2>1, <2>2 DEF PairedRight
<1>29. SearchInv'
  BY <1>1, <1>2, SearchRests
<1>30. AllFound'
  BY <1>1, <1>2 DEF AllFound, Fits, Chained, Between, MaxIterations, RecordAt, Head_
<1>31. MapTypes'
  <2>1. at_record' \in 1..Len(found') + 1
    BY <1>here
  <2> QED BY <1>1, <1>14, <1>21, <1>22, <2>1 DEF MapTypes, Refs
<1> QED BY <1>1, <1>20, <1>26, <1>28, <1>29, <1>30, <1>31 DEF UsnInv

\* What still waits is told a second time, each once.
LEMMA MapLeftKeeps ==
  ASSUME UsnInv, MapLeft
  PROVE  UsnInv'
<1> DEFINE rest == [i \in DOMAIN rename_pairs |-> Event(rename_pairs[i][2], None)]
<1>1. /\ ustep = "map" /\ at_record \notin DOMAIN found /\ ustep' = "done"
      /\ events' = events \o rest
      /\ UNCHANGED <<journal, upos, iterations, found, at_record, rename_pairs>>
  BY DEF MapLeft
<1>2. SearchInv /\ MapTypes /\ Waiting /\ Counted /\ AllFound
  BY <1>1 DEF UsnInv
<1>3. /\ rename_pairs \in Seq(Refs \X Nat) /\ events \in Seq(Told) /\ journal \in Journals
      /\ at_record \in Nat /\ DOMAIN found = 1..Len(found) /\ Len(found) \in Nat
      /\ DOMAIN rename_pairs = 1..Len(rename_pairs) /\ Len(rename_pairs) \in Nat
  BY <1>2, FoundOrder, LenProperties DEF MapTypes
<1>4. \A j \in DOMAIN found : j < at_record
  BY <1>1, <1>2, <1>3 DEF MapTypes
<1>5. ASSUME NEW k \in DOMAIN rename_pairs
      PROVE  \E i \in DOMAIN found : WaitsAt(rename_pairs[k], i)
  <2>1. PICK i \in 1..(at_record - 1) : WaitsAt(rename_pairs[k], i)
    BY <1>2 DEF Waiting
  <2>2. i \in DOMAIN found
    BY <1>2, <1>3 DEF MapTypes
  <2> QED BY <2>1, <2>2
<1>6. ASSUME NEW k \in DOMAIN rename_pairs
      PROVE  /\ rest[k] \in Told /\ rest[k].record = rename_pairs[k][2] /\ rest[k].previous = None
  <2>1. rename_pairs[k][2] \in Nat /\ None \in Int
    <3>1. rename_pairs[k] \in Refs \X Nat
      BY <1>3, ElementOfSeq
    <3> QED BY <3>1 DEF None
  <2> QED BY <1>3, <2>1, EventIs
<1> HIDE DEF rest
<1>7. rest \in Seq(Told) /\ DOMAIN rest = DOMAIN rename_pairs /\ Len(rest) = Len(rename_pairs)
  <2>1. rest = [k \in 1..Len(rename_pairs) |-> rest[k]] /\ DOMAIN rest = DOMAIN rename_pairs
    BY <1>3 DEF rest
  <2>2. rest \in [1..Len(rename_pairs) -> Told]
    BY <1>3, <1>6, <2>1
  <2>3. rest \in Seq(Told)
    <3>1. \A n \in Nat : \A f \in [1..n -> Told] : f \in Seq(Told)
      OBVIOUS
    <3> QED BY <1>3, <2>2, <3>1
  <2> QED BY <1>3, <2>1, <2>3, LenProperties
<1>8. ASSUME NEW k \in DOMAIN rest, NEW l \in DOMAIN rest, rest[k].record = rest[l].record
      PROVE  k = l
  <2>1. PICK i \in DOMAIN found : WaitsAt(rename_pairs[k], i)
    BY <1>5, <1>7
  <2>2. PICK j \in DOMAIN found : WaitsAt(rename_pairs[l], j)
    BY <1>5, <1>7
  <2>3. found[i] = found[j]
    BY <1>6, <1>7, <1>8, <2>1, <2>2 DEF WaitsAt
  <2>4. rename_pairs[k][1] = rename_pairs[l][1]
    BY <2>1, <2>2, <2>3 DEF WaitsAt
  <2> QED BY <1>2, <1>7, <2>4 DEF Waiting
<1>9. \A p : /\ events' \in Seq(Told)
             /\ Count(events', p) = Count(events, p)
                   + (IF \E k \in DOMAIN rest : rest[k].record = p THEN 1 ELSE 0)
  <2> SUFFICES ASSUME NEW p
               PROVE  /\ events' \in Seq(Told)
                      /\ Count(events', p) = Count(events, p)
                            + (IF \E k \in DOMAIN rest : rest[k].record = p THEN 1 ELSE 0)
    OBVIOUS
  <2>1. \A k, l \in DOMAIN rest : rest[k].record = p /\ rest[l].record = p => k = l
    BY <1>8
  <2> QED BY <1>1, <1>3, <1>7, <2>1, CountConcat
<1>10. ASSUME NEW j \in DOMAIN found
       PROVE  Count(events', found[j]) \in IF Old(found[j]) THEN 1..2 ELSE {1}
  <2>1. Count(events, found[j]) \in IF Old(found[j]) THEN 1..2 ELSE {1}
    <3>1. Times(found[j]) = Count(events, found[j])
      BY DEF Times, Count
    <3>2. ~(j >= at_record)
      BY <1>3, <1>4
    <3> QED BY <1>2, <3>1, <3>2 DEF Counted
  <2>2. CASE \E k \in DOMAIN rest : rest[k].record = found[j]
    <3>1. PICK k \in DOMAIN rename_pairs : rest[k].record = found[j]
      BY <1>7, <2>2
    <3>2. PICK i \in DOMAIN found : WaitsAt(rename_pairs[k], i)
      BY <1>5
    <3>3. found[i] = found[j]
      BY <1>6, <3>1, <3>2 DEF WaitsAt
    <3>4. Old(found[j]) /\ Count(events, found[j]) = 1
      BY <3>2, <3>3 DEF WaitsAt, Times, Count
    <3>5. Count(events', found[j]) = Count(events, found[j]) + 1
      BY <1>9, <2>2
    <3>6. Count(events', found[j]) = 2
      BY <3>4, <3>5
    <3> QED BY <3>4, <3>6
  <2>3. CASE ~\E k \in DOMAIN rest : rest[k].record = found[j]
    <3>1. Count(events', found[j]) = Count(events, found[j]) + 0
      BY <1>9, <2>3
    <3>2. Count(events, found[j]) \in Int
      BY <2>1
    <3> QED BY <2>1, <3>1, <3>2
  <2> QED BY <2>2, <2>3
<1>11. EveryRecordTold'
  <2>1. \A p : Times(p)' = Count(events', p)
    BY DEF Times, Count
  <2>2. ASSUME NEW j \in DOMAIN found'
        PROVE  (Times(found[j]) \in (IF Old(found[j]) THEN 1..2 ELSE {1}))'
    <3>1. Count(events', found'[j]) \in IF Old(found[j]) THEN 1..2 ELSE {1}
      BY <1>1, <1>10, <2>2
    <3>2. Old(found[j])' = Old(found[j])
      BY <1>1 DEF Old, Head_
    <3> QED BY <3>1, <3>2 DEF Times, Count
  <2> QED BY <2>2 DEF EveryRecordTold
<1>12. ASSUME NEW k \in DOMAIN events' PROVE PairedRight(events'[k])
  <2> DEFINE m == Len(events)
             n == Len(rest)
  <2>1. m \in Nat /\ DOMAIN events = 1..m /\ n \in Nat /\ DOMAIN rest = 1..n
    BY <1>3, <1>7, LenProperties
  <2>2. Len(events') = m + n /\ \A j \in 1..(m + n) : events'[j] = IF j <= m THEN events[j] ELSE rest[j - m]
    <3>1. events \in Seq(Told) /\ rest \in Seq(Told)
      BY <1>3, <1>7
    <3>2. /\ Len(events \o rest) = Len(events) + Len(rest)
          /\ \A j \in 1..(Len(events) + Len(rest)) :
                (events \o rest)[j] = IF j <= Len(events) THEN events[j] ELSE rest[j - Len(events)]
      BY <3>1, ConcatProperties, Zenon
    <3> QED BY <1>1, <3>2
  <2>3. DOMAIN events' = 1..(m + n)
    BY <1>9, <2>2, LenProperties
  <2> HIDE DEF m, n
  <2>4. CASE k <= m
    <3>1. k \in 1..m /\ events'[k] = events[k]
      BY <2>1, <2>2, <2>3, <2>4
    <3> QED BY <2>1, <3>1 DEF UsnInv
  <2>5. CASE ~(k <= m)
    <3>1. k - m \in DOMAIN rest /\ events'[k] = rest[k - m]
      BY <2>1, <2>2, <2>3, <2>5
    <3>2. events'[k].previous = None
      BY <1>6, <1>7, <3>1
    <3> QED BY <3>2 DEF PairedRight
  <2> QED BY <2>4, <2>5
<1>13. \A k \in DOMAIN events' : PairedRight(events[k])'
  <2> SUFFICES ASSUME NEW k \in DOMAIN events' PROVE PairedRight(events[k])'
    OBVIOUS
  <2>1. PICK e : e = events'[k]
    OBVIOUS
  <2>2. PairedRight(e)'
    BY <1>1, <1>12, <2>1, PairedStays
  <2> QED BY <2>1, <2>2 DEF PairedRight
<1>14. SearchInv'
  BY <1>1, <1>2, SearchRests
<1>15. AllFound'
  BY <1>1, <1>2 DEF AllFound, Fits, Chained, Between, MaxIterations, RecordAt, Head_
<1>16. MapTypes'
  BY <1>1, <1>2, <1>9 DEF MapTypes, Refs
<1> QED BY <1>1, <1>11, <1>13, <1>14, <1>15, <1>16 DEF UsnInv

\* Nothing else changes what the invariant is about.
LEMMA UsnStutters ==
  ASSUME UsnInv, UNCHANGED usnVars
  PROVE  UsnInv'
<1>1. UNCHANGED <<journal, ustep, upos, iterations, found, at_record, rename_pairs, events>>
  BY DEF usnVars
<1>2. SearchInv'
  BY <1>1, SearchRests DEF UsnInv
<1>3. MapTypes'
  BY <1>1 DEF UsnInv, MapTypes, Refs
<1>4. AllFound' = AllFound
  BY <1>1 DEF AllFound, Fits, Chained, Between, MaxIterations, RecordAt, Head_
<1>5. Waiting' = Waiting /\ Counted' = Counted
  BY <1>1 DEF Waiting, WaitsAt, Counted, Times, Old, New, Head_
<1>6. EveryRecordTold' = EveryRecordTold
  BY <1>1 DEF EveryRecordTold, Times, Old, Head_
<1>7. \A i \in DOMAIN events' : PairedRight(events[i])'
  BY <1>1 DEF UsnInv, PairedRight, Old, New, Head_
<1> QED BY <1>1, <1>2, <1>3, <1>4, <1>5, <1>6, <1>7 DEF UsnInv

\* The search starts with nothing found.
LEMMA UsnStarts == UsnInit => UsnInv
<1> SUFFICES ASSUME UsnInit PROVE UsnInv
  OBVIOUS
<1>1. /\ journal \in Journals /\ ustep = "scan" /\ upos = 0 /\ iterations = 0 /\ found = <<>>
      /\ at_record = 1 /\ rename_pairs = <<>> /\ events = <<>>
  BY DEF UsnInit, UsnOff
<1>2. SearchInv
  BY <1>1, SearchStarts
<1>3. MapTypes
  BY <1>1, EmptySeq DEF MapTypes
<1>4. DOMAIN events = {}
  BY <1>1
<1> QED BY <1>1, <1>2, <1>3, <1>4 DEF UsnInv

\* Every step of the search and of the mapping keeps the invariant.
LEMMA UsnSteps == UsnInv /\ [UsnNext]_usnVars => UsnInv'
BY SearchStepKeeps, ScanOverKeeps, MapOldKeeps, MapNewKeeps, MapOtherKeeps, MapLeftKeeps, UsnStutters
   DEF UsnNext

\* The invariant says what UsnRight asks.
LEMMA UsnInvRight == UsnInv => UsnRight
<1> SUFFICES ASSUME UsnInv PROVE UsnRight
  OBVIOUS
<1>1. SearchInv
  BY DEF UsnInv
<1>2. RecordsApart
  <2>1. \A i \in 1..(Len(found) - 1) : i \in DOMAIN found /\ i + 1 \in DOMAIN found /\ i < i + 1
    BY <1>1, FoundOrder
  <2> QED BY <1>1, <2>1 DEF RecordsApart, SearchInv, EndOf
<1>3. GapsAreCrossed
  BY DEF GapsAreCrossed, UsnInv, AllFound, Fits
<1>4. EveryRecordTold
  BY DEF UsnInv, EveryRecordTold
<1>5. RenamesPaired
  BY DEF UsnInv, RenamesPaired, PairedRight
<1> QED BY <1>2, <1>3, <1>4, <1>5 DEF UsnRight, JournalIsRead, EventsRight

\* The search of a change journal finds its records apart, and all of them when its gaps fit
\* the bound of the loop; every record has its events and an old name is paired with the new
\* name of its file that follows it.
THEOREM UsnTold == UsnSpec => []UsnRight
<1>1. UsnSpec => []UsnInv
  BY UsnStarts, UsnSteps, PTL DEF UsnSpec
<1> QED BY <1>1, UsnInvRight, PTL

-----------------------------------------------------------------------------
(* Part 5: what a run list is parsed and resolved to.                       *)

Byte8 == 0..255

\* A field, from its last byte on: what is behind counts 256 times.
Horner(h, bytes) ==
  /\ h \in [1..(Len(bytes) + 1) -> Nat] /\ h[Len(bytes) + 1] = 0
  /\ \A i \in 1..Len(bytes) : h[i] = bytes[i] + 256 * h[i + 1]

\* A field of a run list is that number.
LEMMA LittleEndianUnfolds ==
  ASSUME NEW bytes \in Seq(Byte8)
  PROVE  \E h : Horner(h, bytes) /\ LittleEndian(bytes) = h[1]
<1> DEFINE l == Len(bytes)
           n == l + 1
           Equation(f) == f = [i \in 1..n |-> IF i > l THEN 0 ELSE bytes[i] + 256 * f[i + 1]]
           stop == [o \in 0..n |-> o = 0 \/ o = n]
           next == [o \in 0..n |-> o + 1]
           add == [p \in (0..n) \X Nat |-> IF stop[p[1]] THEN 0 ELSE bytes[p[1]] + 256 * p[2]]
<1>1. l \in Nat /\ n \in Nat /\ n = l + 1 /\ \A i \in 1..l : bytes[i] \in Nat
  <2>1. l \in Nat /\ \A i \in 1..l : bytes[i] \in Byte8
    BY LenProperties, ElementOfSeq
  <2>2. \A b \in Byte8 : b \in Nat
    BY DEF Byte8
  <2>3. n = l + 1
    OBVIOUS
  <2> HIDE DEF l, n
  <2> QED BY <2>1, <2>2, <2>3
<1> HIDE DEF n, l
<1>2. \A o \in 0..n : (~stop[o] <=> o \in 1..l) /\ next[o] = o + 1 /\ stop[o] \in BOOLEAN
  <2>1. \A o \in 0..n : ~(o = 0 \/ o = n) <=> o \in 1..l
    BY <1>1
  <2>2. \A o \in 0..n : stop[o] = (o = 0 \/ o = n) /\ next[o] = o + 1
    OBVIOUS
  <2> QED BY <2>1, <2>2
<1>3. Forward(n, stop, next)
  <2>1. \A o \in 0..n : o + 1 \in Int /\ (o \in 1..l => o + 1 \in (o + 1)..n)
    BY <1>1
  <2>2. stop \in [0..n -> BOOLEAN] /\ next \in [0..n -> Int]
    BY <2>1
  <2> HIDE DEF stop, next
  <2> QED BY <1>2, <2>1, <2>2 DEF Forward
<1>4. \A o \in 0..n, v \in Nat : add[<<o, v>>] = IF stop[o] THEN 0 ELSE bytes[o] + 256 * v
  OBVIOUS
<1>5. add \in [(0..n) \X Nat -> Nat]
  <2> SUFFICES ASSUME NEW p \in (0..n) \X Nat PROVE (IF stop[p[1]] THEN 0 ELSE bytes[p[1]] + 256 * p[2]) \in Nat
    OBVIOUS
  <2>1. p[1] \in 0..n /\ p[2] \in Nat
    OBVIOUS
  <2> HIDE DEF stop
  <2> QED BY <1>1, <1>2, <2>1
<1> HIDE DEF stop, next, add
<1>6. PICK g : IsForward(g, n, Nat, 0, add, stop, next)
  <2>1. 0 \in Nat
    OBVIOUS
  <2> QED BY <1>1, <1>3, <1>5, <2>1, ForwardRecursion
<1>7. g \in [0..n -> Nat] /\ \A o \in 0..n : g[o] = IF stop[o] THEN 0 ELSE add[<<o, g[next[o]]>>]
  BY <1>6 DEF IsForward
<1>8. \A i \in 1..n : g[i] = IF i > l THEN 0 ELSE bytes[i] + 256 * g[i + 1]
  <2> SUFFICES ASSUME NEW i \in 1..n PROVE g[i] = IF i > l THEN 0 ELSE bytes[i] + 256 * g[i + 1]
    OBVIOUS
  <2>1. i \in 0..n /\ (i > l <=> stop[i]) /\ (i <= l => i + 1 \in 0..n)
    BY <1>1, <1>2
  <2>2. CASE i > l
    BY <1>7, <2>1, <2>2
  <2>3. CASE ~(i > l)
    <3>1. g[i] = add[<<i, g[next[i]]>>] /\ next[i] = i + 1
      BY <1>1, <1>2, <1>7, <2>1, <2>3
    <3>2. g[i + 1] \in Nat /\ i + 1 \in 0..n
      BY <1>1, <1>7, <2>1, <2>3
    <3>3. add[<<i, g[i + 1]>>] = bytes[i] + 256 * g[i + 1]
      BY <1>4, <2>1, <2>3, <3>2
    <3> QED BY <2>3, <3>1, <3>3
  <2> QED BY <2>2, <2>3
<1>9. Equation([i \in 1..n |-> g[i]])
  <2> DEFINE f == [i \in 1..n |-> g[i]]
  <2>1. \A i \in 1..n : f[i] = g[i] /\ (i <= l => i + 1 \in 1..n)
    BY <1>1
  <2>2. DOMAIN f = 1..n
    OBVIOUS
  <2>3. \A i \in 1..n : f[i] = IF i > l THEN 0 ELSE bytes[i] + 256 * f[i + 1]
    <3> SUFFICES ASSUME NEW i \in 1..n PROVE f[i] = IF i > l THEN 0 ELSE bytes[i] + 256 * f[i + 1]
      OBVIOUS
    <3> HIDE DEF f
    <3> QED BY <1>1, <1>8, <2>1
  <2> QED BY <2>2, <2>3
<1>10. PICK f : Equation(f) /\ LittleEndian(bytes) = f[1]
  <2> HIDE DEF Equation
  <2>1. Equation(CHOOSE f : Equation(f))
    BY <1>9
  <2>2. LittleEndian(bytes) = (CHOOSE f : Equation(f))[1]
    BY DEF LittleEndian, Equation, n, l
  <2> QED BY <2>1, <2>2
<1>11. \A i \in 1..n : f[i] = IF i > l THEN 0 ELSE bytes[i] + 256 * f[i + 1]
  BY <1>10
<1>12. DOMAIN f = 1..n /\ f = [i \in 1..n |-> f[i]]
  BY <1>10
<1> HIDE DEF Equation
<1> DEFINE P == {i \in 0..l : f[n - i] \in Nat}
<1>13. 0 \in P
  <2>1. n \in 1..n /\ n > l /\ n - 0 = n /\ 0 \in 0..l
    BY <1>1
  <2>2. f[n] = 0
    BY <1>11, <2>1
  <2> QED BY <2>1, <2>2
<1>14. ASSUME NEW i \in 1..l, i - 1 \in P PROVE i \in P
  <2>1. n - i \in 1..l /\ n - i \in 1..n /\ n - (i - 1) = (n - i) + 1 /\ i \in 0..l /\ ~(n - i > l)
    BY <1>1
  <2>2. f[(n - i) + 1] \in Nat /\ bytes[n - i] \in Nat
    BY <1>1, <1>14, <2>1
  <2>3. f[n - i] = bytes[n - i] + 256 * f[(n - i) + 1]
    BY <1>11, <2>1
  <2>4. bytes[n - i] + 256 * f[(n - i) + 1] \in Nat
    BY <2>2
  <2> QED BY <2>1, <2>3, <2>4
<1>15. \A i \in 0..l : i \in P
  <2> HIDE DEF P
  <2> QED BY <1>1, <1>13, <1>14, UpTo
<1>16. \A i \in 1..n : f[i] \in Nat
  <2>1. \A i \in 1..n : n - i \in 0..l /\ n - (n - i) = i
    BY <1>1
  <2>2. \A i \in 1..n : f[n - (n - i)] \in Nat
    BY <1>15, <2>1
  <2> QED BY <2>1, <2>2
<1>17. f \in [1..n -> Nat]
  BY <1>12, <1>16
<1>18. n \in 1..n /\ n > l /\ \A i \in 1..l : i \in 1..n /\ ~(i > l)
  BY <1>1
<1>19. f[n] = 0 /\ \A i \in 1..l : f[i] = bytes[i] + 256 * f[i + 1]
  BY <1>11, <1>18
<1>20. Horner(f, bytes)
  BY <1>17, <1>19 DEF Horner, n, l
<1> QED BY <1>10, <1>20

\* One byte more holds 256 times as many numbers.
LEMMA NumbersGrow ==
  /\ Numbers \in [Nat -> Nat \ {0}] /\ Numbers[0] = 1
  /\ \A n \in Nat \ {0} : Numbers[n] = 256 * Numbers[n - 1]
<1> DEFINE V == Nat \ {0}
           next == [v \in V |-> 256 * v]
           Equation(f) == f = [n \in Nat |-> IF n = 0 THEN 1 ELSE 256 * f[n - 1]]
<1>1. next \in [V -> V] /\ 1 \in V /\ \A v \in V : next[v] = 256 * v
  <2>1. \A v \in V : 256 * v \in V
    OBVIOUS
  <2> QED BY <2>1
<1> HIDE DEF next, V
<1>2. PICK g : Endless(g, V, 1, next)
  BY <1>1, EndlessRecursion
<1>3. g \in [Nat -> V] /\ g[0] = 1 /\ \A n \in Nat \ {0} : g[n] = next[g[n - 1]]
  BY <1>2 DEF Endless
<1>4. \A n \in Nat \ {0} : n - 1 \in Nat
  OBVIOUS
<1>5. \A n \in Nat \ {0} : g[n] = 256 * g[n - 1]
  <2>1. \A n \in Nat \ {0} : g[n - 1] \in V
    BY <1>3, <1>4
  <2> QED BY <1>1, <1>3, <2>1
<1>6. Equation(g)
  <2>1. \A n \in Nat : g[n] = IF n = 0 THEN 1 ELSE 256 * g[n - 1]
    BY <1>3, <1>5
  <2>2. g = [n \in Nat |-> g[n]]
    BY <1>3
  <2> QED BY <2>1, <2>2
<1>7. PICK f : Equation(f) /\ Numbers = f
  <2> HIDE DEF Equation
  <2>1. Equation(CHOOSE f : Equation(f))
    BY <1>6
  <2>2. Numbers = CHOOSE f : Equation(f)
    BY DEF Numbers, Equation
  <2> QED BY <2>1, <2>2
<1>8. (\A n \in Nat : f[n] = IF n = 0 THEN 1 ELSE 256 * f[n - 1]) /\ DOMAIN f = Nat /\ f = [n \in Nat |-> f[n]]
  BY <1>7
<1> HIDE DEF Equation
<1>9. f[0] = 1 /\ \A n \in Nat \ {0} : f[n] = 256 * f[n - 1]
  BY <1>8
<1>10. \A n \in Nat : f[n] = g[n]
  <2> SUFFICES ASSUME NEW n \in Nat PROVE f[n] = g[n]
    OBVIOUS
  <2> DEFINE P == {i \in 0..n : f[i] = g[i]}
  <2>1. 0 \in P
    BY <1>3, <1>9
  <2>2. ASSUME NEW i \in 1..n, i - 1 \in P PROVE i \in P
    <3>1. i \in Nat \ {0} /\ i \in 0..n
      OBVIOUS
    <3>2. f[i - 1] = g[i - 1]
      BY <2>2
    <3> QED BY <1>5, <1>9, <3>1, <3>2
  <2> HIDE DEF P
  <2>3. n \in P
    <3>1. n \in 0..n
      OBVIOUS
    <3> QED BY <2>1, <2>2, <3>1, UpTo
  <2> QED BY <2>3 DEF P
<1>11. f \in [Nat -> V]
  BY <1>3, <1>8, <1>10
<1> QED BY <1>7, <1>9, <1>11 DEF V

\* It is no less than 0.
LEMMA LittleEndianType ==
  ASSUME NEW bytes \in Seq(Byte8)
  PROVE  LittleEndian(bytes) \in Nat
<1>1. PICK h : Horner(h, bytes) /\ LittleEndian(bytes) = h[1]
  BY LittleEndianUnfolds
<1>2. Len(bytes) \in Nat /\ 1 \in 1..(Len(bytes) + 1)
  BY LenProperties
<1> QED BY <1>1, <1>2 DEF Horner

ParsedRun == {r \in [count : Nat, offset : Int, sparse : BOOLEAN] : r.sparse => r.offset = 0}

\* An entry that fits has a count, and an offset with a sign.
LEMMA EntryType ==
  ASSUME NEW bytes \in Seq(Byte8), NEW p \in 1..Len(bytes), EntryEnd(bytes, p) <= Len(bytes) + 1
  PROVE  /\ EntryAt(bytes, p) \in ParsedRun
         /\ bytes[p] # 0 => EntryEnd(bytes, p) \in (p + 1)..(Len(bytes) + 1)
<1>1. bytes[p] \in 0..255 /\ Len(bytes) \in Nat /\ DOMAIN bytes = 1..Len(bytes)
  <2>1. bytes[p] \in Byte8
    BY ElementOfSeq
  <2> QED BY <2>1, LenProperties DEF Byte8
<1>2. CountWidth(bytes[p]) \in 0..15 /\ OffsetWidth(bytes[p]) \in 0..15
  <2>1. \A h \in 0..255 : h % 16 \in 0..15 /\ h \div 16 \in 0..15
    OBVIOUS
  <2> QED BY <1>1, <2>1 DEF CountWidth, OffsetWidth
<1>3. EntryEnd(bytes, p) = p + 1 + CountWidth(bytes[p]) + OffsetWidth(bytes[p])
  BY DEF EntryEnd
<1>0. bytes[p] # 0 => CountWidth(bytes[p]) + OffsetWidth(bytes[p]) > 0
  <2>1. \A h \in 0..255 : h # 0 => (h % 16) + (h \div 16) > 0
    OBVIOUS
  <2> QED BY <1>1, <2>1 DEF CountWidth, OffsetWidth
<1>4. ASSUME NEW a \in 1..Len(bytes) + 1, NEW b \in Nat, b <= Len(bytes)
      PROVE  SubSeq(bytes, a, b) \in Seq(Byte8)
  <2>1. a \in Int /\ b \in Int /\ \A i \in a..b : bytes[i] \in Byte8
    BY <1>1, <1>4, ElementOfSeq
  <2> QED BY <2>1, <1>1, <1>4, SubSeqProperties
<1> DEFINE offset_at == p + 1 + CountWidth(bytes[p])
<1>10. ASSUME NEW l \in Nat, NEW q \in 1..l, NEW a \in 0..15, NEW b \in 0..15, q + 1 + a + b <= l + 1
      PROVE  /\ q + 1 + a \in 1..l + 1 /\ q + 1 \in 1..l + 1
             /\ q + 1 + a + b - 1 \in Nat /\ q + 1 + a + b - 1 <= l
             /\ a + b > 0 => q + 1 + a + b \in (q + 1)..(l + 1)
  BY <1>10
<1>5. offset_at \in 1..Len(bytes) + 1 /\ p + 1 \in 1..Len(bytes) + 1
  BY <1>1, <1>2, <1>3, <1>10
<1>6. LittleEndian(SubSeq(bytes, p + 1, offset_at - 1)) \in Nat
  <2>1. offset_at - 1 \in Nat /\ offset_at - 1 <= Len(bytes)
    BY <1>1, <1>5
  <2> QED BY <1>4, <1>5, <2>1, LittleEndianType
<1>7. Signed(SubSeq(bytes, offset_at, EntryEnd(bytes, p) - 1)) \in Int
  <2> DEFINE field == SubSeq(bytes, offset_at, EntryEnd(bytes, p) - 1)
  <2>1. field \in Seq(Byte8)
    <3>1. EntryEnd(bytes, p) - 1 \in Nat /\ EntryEnd(bytes, p) - 1 <= Len(bytes)
      <4>1. EntryEnd(bytes, p) <= Len(bytes) + 1
        OBVIOUS
      <4> HIDE DEF field
      <4> DEFINE a == CountWidth(bytes[p])
                 b == OffsetWidth(bytes[p])
      <4>2. a \in 0..15 /\ b \in 0..15 /\ EntryEnd(bytes, p) = p + 1 + a + b
        BY <1>2, <1>3
      <4> HIDE DEF a, b
      <4>3. p + 1 + a + b - 1 \in Nat /\ p + 1 + a + b - 1 <= Len(bytes)
        BY <1>1, <1>10, <4>1, <4>2
      <4> QED BY <4>2, <4>3
    <3> QED BY <1>4, <1>5, <3>1
  <2> HIDE DEF field
  <2>2. LittleEndian(field) \in Nat /\ Len(field) \in Nat
    BY <2>1, LittleEndianType, LenProperties
  <2>3. Numbers[Len(field)] \in Int
    BY <2>2, NumbersGrow
  <2>4. Signed(field) \in Int
    BY <2>2, <2>3 DEF Signed
  <2> QED BY <2>4 DEF field
<1>8. EntryAt(bytes, p) \in ParsedRun
  <2> HIDE DEF offset_at
  <2>1. EntryAt(bytes, p) =
          [count  |-> LittleEndian(SubSeq(bytes, p + 1, offset_at - 1)),
           offset |-> IF OffsetWidth(bytes[p]) = 0 THEN 0
                      ELSE Signed(SubSeq(bytes, offset_at, EntryEnd(bytes, p) - 1)),
           sparse |-> OffsetWidth(bytes[p]) = 0]
    BY DEF EntryAt, offset_at
  <2>2. (OffsetWidth(bytes[p]) = 0) \in BOOLEAN
    BY <1>2
  <2> DEFINE c == LittleEndian(SubSeq(bytes, p + 1, offset_at - 1))
             o == IF OffsetWidth(bytes[p]) = 0 THEN 0 ELSE Signed(SubSeq(bytes, offset_at, EntryEnd(bytes, p) - 1))
             b == OffsetWidth(bytes[p]) = 0
  <2>3. c \in Nat /\ o \in Int /\ b \in BOOLEAN /\ (b => o = 0)
    BY <1>6, <1>7, <2>2
  <2> HIDE DEF c, o, b
  <2>4. [count |-> c, offset |-> o, sparse |-> b] \in ParsedRun
    BY <2>3 DEF ParsedRun
  <2> QED BY <2>1, <2>4 DEF c, o, b
<1>9. ASSUME bytes[p] # 0 PROVE EntryEnd(bytes, p) \in (p + 1)..(Len(bytes) + 1)
  BY <1>0, <1>1, <1>2, <1>3, <1>9, <1>10
<1> QED BY <1>8, <1>9

\* What a run list is parsed to from each place on: it ends at a header of zero, or where an
\* entry does not fit.
ParsesTo(h, bytes) ==
  \A p \in 1..(Len(bytes) + 1) :
    /\ h[p] \in Seq(ParsedRun)
    /\ h[p] = IF p > Len(bytes) \/ bytes[p] = 0 THEN <<>>
              ELSE IF EntryEnd(bytes, p) > Len(bytes) + 1 THEN <<>>
              ELSE <<EntryAt(bytes, p)>> \o h[EntryEnd(bytes, p)]

\* Parsing unfolds to that.
LEMMA RunlistUnfolds ==
  ASSUME NEW bytes \in Seq(Byte8)
  PROVE  \E h : ParsesTo(h, bytes) /\ ParseRunlist(bytes) = h[1]
<1> DEFINE l == Len(bytes)
           n == l + 1
           V == Seq(ParsedRun)
           over(p) == p > l \/ bytes[p] = 0
           cut(p) == EntryEnd(bytes, p) > n
           Equation(f) == f = [p \in 1..n |->
                                 IF over(p) THEN <<>>
                                 ELSE IF cut(p) THEN <<>>
                                 ELSE <<EntryAt(bytes, p)>> \o f[EntryEnd(bytes, p)]]
           stop == [o \in 0..n |-> o = 0 \/ over(o) \/ cut(o)]
           next == [o \in 0..n |-> IF stop[o] THEN 0 ELSE EntryEnd(bytes, o)]
           add == [p \in (0..n) \X V |-> IF stop[p[1]] THEN <<>> ELSE <<EntryAt(bytes, p[1])>> \o p[2]]
<1>1. l \in Nat /\ n \in Nat /\ n = l + 1
  BY LenProperties
<1> HIDE DEF n, l
<1>2. ASSUME NEW o \in 0..n, ~stop[o]
      PROVE  o \in 1..l /\ EntryAt(bytes, o) \in ParsedRun /\ EntryEnd(bytes, o) \in (o + 1)..n
             /\ ~over(o) /\ ~cut(o)
  <2>1. o # 0 /\ ~over(o) /\ ~cut(o)
    BY <1>2
  <2>2. o \in 1..l /\ bytes[o] # 0
    BY <1>1, <2>1
  <2>3. EntryEnd(bytes, o) <= n
    <3>1. bytes[o] \in 0..255
      <4>1. bytes[o] \in Byte8
        BY <2>2, ElementOfSeq DEF l
      <4> QED BY <4>1 DEF Byte8
    <3>2. CountWidth(bytes[o]) \in Int /\ OffsetWidth(bytes[o]) \in Int
      <4>1. \A h \in 0..255 : h % 16 \in Int /\ h \div 16 \in Int
        OBVIOUS
      <4> QED BY <3>1, <4>1 DEF CountWidth, OffsetWidth
    <3>3. EntryEnd(bytes, o) \in Int
      BY <2>2, <3>2 DEF EntryEnd
    <3> QED BY <1>1, <2>1, <3>3
  <2>4. EntryAt(bytes, o) \in ParsedRun /\ EntryEnd(bytes, o) \in (o + 1)..n
    <3>1. o \in 1..Len(bytes) /\ EntryEnd(bytes, o) <= Len(bytes) + 1
      BY <1>1, <2>2, <2>3 DEF l
    <3>2. EntryAt(bytes, o) \in ParsedRun /\ EntryEnd(bytes, o) \in (o + 1)..(Len(bytes) + 1)
      BY <2>2, <3>1, EntryType
    <3> QED BY <3>2 DEF n, l
  <2> QED BY <2>1, <2>2, <2>4
<1>3. Forward(n, stop, next)
  <2>1. stop \in [0..n -> BOOLEAN]
    OBVIOUS
  <2>2. \A o \in 0..n : ~stop[o] => next[o] \in (o + 1)..n
    BY <1>2
  <2>3. next \in [0..n -> Int]
    <3>1. \A o \in 0..n : next[o] \in Int
      <4>1. \A o \in 0..n : stop[o] => next[o] = 0
        OBVIOUS
      <4> HIDE DEF next, stop
      <4> QED BY <1>1, <2>2, <4>1
    <3> QED BY <3>1
  <2> HIDE DEF next, stop
  <2> QED BY <2>1, <2>2, <2>3 DEF Forward
<1>4. add \in [(0..n) \X V -> V]
  <2> SUFFICES ASSUME NEW o \in 0..n, NEW v \in V, ~stop[o] PROVE <<EntryAt(bytes, o)>> \o v \in V
    <3>1. <<>> \in V
      BY EmptySeq
    <3> HIDE DEF stop, V
    <3> QED BY <3>1
  <2>1. <<EntryAt(bytes, o)>> \in V
    <3>1. EntryAt(bytes, o) \in ParsedRun
      BY <1>2
    <3> QED BY <3>1
  <2> QED BY <2>1, ConcatProperties
<1>5. PICK g : IsForward(g, n, V, <<>>, add, stop, next)
  <2>1. <<>> \in V
    BY EmptySeq
  <2> HIDE DEF add, stop, next, V
  <2> QED BY <1>1, <1>3, <1>4, <2>1, ForwardRecursion
<1>6. g \in [0..n -> V] /\ \A o \in 0..n : g[o] = IF stop[o] THEN <<>> ELSE add[<<o, g[next[o]]>>]
  BY <1>5 DEF IsForward
<1> DEFINE f == [p \in 1..n |-> g[p]]
<1>7. ASSUME NEW p \in 1..n
      PROVE  f[p] = IF over(p) THEN <<>>
                    ELSE IF cut(p) THEN <<>>
                    ELSE <<EntryAt(bytes, p)>> \o f[EntryEnd(bytes, p)]
  <2>1. p \in 0..n /\ p # 0
    BY <1>1
  <2>2. CASE over(p) \/ cut(p)
    <3>1. stop[p]
      BY <2>1, <2>2
    <3>2. g[p] = <<>> /\ f[p] = g[p]
      BY <1>6, <2>1, <3>1
    <3> HIDE DEF over, cut, f
    <3> QED BY <2>2, <3>2
  <2>3. CASE ~over(p) /\ ~cut(p)
    <3>1. ~stop[p]
      BY <2>1, <2>3
    <3>2. next[p] = EntryEnd(bytes, p) /\ EntryEnd(bytes, p) \in (p + 1)..n
      BY <1>2, <2>1, <3>1
    <3>3. EntryEnd(bytes, p) \in 1..n /\ EntryEnd(bytes, p) \in 0..n
      BY <1>1, <3>2
    <3>4. g[p] = add[<<p, g[EntryEnd(bytes, p)]>>] /\ g[EntryEnd(bytes, p)] \in V
      BY <1>6, <2>1, <3>1, <3>2, <3>3
    <3>5. add[<<p, g[EntryEnd(bytes, p)]>>] = <<EntryAt(bytes, p)>> \o g[EntryEnd(bytes, p)]
      BY <2>1, <3>1, <3>4
    <3>6. f[p] = g[p] /\ f[EntryEnd(bytes, p)] = g[EntryEnd(bytes, p)]
      BY <3>3
    <3> HIDE DEF over, cut, f, add
    <3> QED BY <2>3, <3>4, <3>5, <3>6
  <2> QED BY <2>2, <2>3
<1>8. Equation(f)
  <2>1. DOMAIN f = 1..n
    OBVIOUS
  <2> HIDE DEF over, cut
  <2> QED BY <1>7
<1>9. PICK h : Equation(h) /\ ParseRunlist(bytes) = h[1]
  <2> HIDE DEF Equation
  <2>1. Equation(CHOOSE h : Equation(h))
    BY <1>8
  <2>2. ParseRunlist(bytes) = (CHOOSE h : Equation(h))[1]
    BY DEF ParseRunlist, Equation, over, cut, n, l
  <2> QED BY <2>1, <2>2
<1>10. \A p \in 1..n : h[p] = IF over(p) THEN <<>>
                              ELSE IF cut(p) THEN <<>>
                              ELSE <<EntryAt(bytes, p)>> \o h[EntryEnd(bytes, p)]
  BY <1>9
<1> DEFINE P == {i \in 0..n : \A p \in 1..n : p > n - i => h[p] \in V}
<1>11. 0 \in P
  BY <1>1
<1>12. ASSUME NEW i \in 1..n, i - 1 \in P PROVE i \in P
  <2>1. ASSUME NEW p \in 1..n, p > n - i PROVE h[p] \in V
    <3>1. CASE over(p) \/ cut(p)
      <4>1. h[p] = <<>>
        <5> HIDE DEF over, cut
        <5> QED BY <1>10, <3>1
      <4> QED BY <4>1, EmptySeq
    <3>2. CASE ~over(p) /\ ~cut(p)
      <4>1. p \in 0..n /\ ~stop[p]
        <5>1. p \in 0..n /\ p # 0
          BY <1>1
        <5> HIDE DEF over, cut
        <5> QED BY <3>2, <5>1
      <4>2. EntryAt(bytes, p) \in ParsedRun /\ EntryEnd(bytes, p) \in (p + 1)..n
        BY <1>2, <4>1
      <4>3. EntryEnd(bytes, p) \in 1..n /\ EntryEnd(bytes, p) > n - (i - 1)
        BY <1>1, <2>1, <4>2
      <4>4. h[EntryEnd(bytes, p)] \in V
        BY <1>12, <4>3
      <4>5. h[p] = <<EntryAt(bytes, p)>> \o h[EntryEnd(bytes, p)]
        <5> HIDE DEF over, cut
        <5> QED BY <1>10, <3>2
      <4>6. <<EntryAt(bytes, p)>> \in V
        BY <4>2
      <4>7. <<EntryAt(bytes, p)>> \o h[EntryEnd(bytes, p)] \in V
        BY <4>4, <4>6, ConcatProperties
      <4> QED BY <4>5, <4>7
    <3> QED BY <3>1, <3>2
  <2>2. i \in 0..n
    BY <1>1
  <2> QED BY <2>1, <2>2
<1>13. n \in P
  <2> HIDE DEF P
  <2>1. n \in 0..n
    BY <1>1
  <2> QED BY <1>1, <1>11, <1>12, <2>1, UpTo
<1>14. \A p \in 1..n : p > n - n
  BY <1>1
<1>15. \A p \in 1..n : h[p] \in V
  BY <1>13, <1>14
<1> HIDE DEF Equation
<1>16. ParsesTo(h, bytes)
  BY <1>10, <1>15 DEF ParsesTo, n, l
<1> QED BY <1>9, <1>16

\* It is parsed to entries.
LEMMA ParseType ==
  ASSUME NEW bytes \in Seq(Byte8)
  PROVE  ParseRunlist(bytes) \in Seq(ParsedRun)
<1>1. PICK h : ParsesTo(h, bytes) /\ ParseRunlist(bytes) = h[1]
  BY RunlistUnfolds
<1>2. 1 \in 1..(Len(bytes) + 1)
  BY LenProperties
<1> QED BY <1>1, <1>2 DEF ParsesTo

DataRun == [vcn : Nat, lcn : Int, count : Nat, sparse : BOOLEAN]
Resolving == [runs : Seq(DataRun), vcn : Nat, lcn : Int]
NoRuns == [runs |-> <<>>, vcn |-> 0, lcn |-> 0]

\* One entry more.
LEMMA ResolveType ==
  ASSUME NEW acc \in Resolving, NEW run \in ParsedRun
  PROVE  LET on == ResolveRun(acc, run)
             lcn == IF run.sparse THEN acc.lcn ELSE acc.lcn + run.offset
             new == [vcn |-> acc.vcn, lcn |-> IF run.sparse THEN -1 ELSE lcn,
                     count |-> run.count, sparse |-> run.sparse]
         IN  /\ on \in Resolving /\ new \in DataRun
             /\ on.runs = Append(acc.runs, new) /\ on.vcn = acc.vcn + run.count /\ on.lcn = lcn
<1> DEFINE lcn == IF run.sparse THEN acc.lcn ELSE acc.lcn + run.offset
           new == [vcn |-> acc.vcn, lcn |-> IF run.sparse THEN -1 ELSE lcn,
                   count |-> run.count, sparse |-> run.sparse]
<1>1. /\ acc.runs \in Seq(DataRun) /\ acc.vcn \in Nat /\ acc.lcn \in Int
      /\ run.count \in Nat /\ run.offset \in Int /\ run.sparse \in BOOLEAN
  BY DEF Resolving, ParsedRun
<1>2. lcn \in Int
  BY <1>1
<1> HIDE DEF lcn
<1>3. new \in DataRun
  BY <1>1, <1>2 DEF DataRun
<1> HIDE DEF new
<1>4. Append(acc.runs, new) \in Seq(DataRun)
  BY <1>1, <1>3, AppendProperties
<1>5. acc.vcn + run.count \in Nat
  BY <1>1
<1>6. ResolveRun(acc, run) = [runs |-> Append(acc.runs, new), vcn |-> acc.vcn + run.count, lcn |-> lcn]
  BY DEF ResolveRun, new, lcn
<1>7. ResolveRun(acc, run) \in Resolving
  BY <1>2, <1>4, <1>5, <1>6 DEF Resolving
<1> QED BY <1>3, <1>6, <1>7 DEF new, lcn

\* resolve_runlist, entry by entry.
Resolves(h, runs) ==
  /\ h \in [0..Len(runs) -> Resolving] /\ h[0] = NoRuns
  /\ \A i \in 1..Len(runs) : h[i] = ResolveRun(h[i - 1], runs[i])

\* The fold of resolve_runlist is that recursion.
LEMMA ResolveUnfolds ==
  ASSUME NEW runs \in Seq(ParsedRun)
  PROVE  \E h : Resolves(h, runs) /\ ResolveRunlist(runs) = h[Len(runs)].runs
<1> DEFINE n == Len(runs)
           V == Resolving
           next == [p \in (1..n) \X V |-> ResolveRun(p[2], runs[p[1]])]
           Equation(g) == g = [s \in SUBSET (1..n) |->
                                 IF s = {} THEN NoRuns ELSE ResolveRun(g[s \ {Max(s)}], runs[Max(s)])]
<1>1. n \in Nat /\ DOMAIN runs = 1..n /\ \A i \in 1..n : runs[i] \in ParsedRun
  BY LenProperties, ElementOfSeq
<1>2. NoRuns \in V
  <2>1. <<>> \in Seq(DataRun)
    BY EmptySeq
  <2> QED BY <2>1 DEF NoRuns, Resolving
<1>3. \A i \in 1..n, v \in V : ResolveRun(v, runs[i]) \in V
  BY <1>1, ResolveType
<1> HIDE DEF n, V
<1>4. next \in [(1..n) \X V -> V] /\ \A i \in 1..n, v \in V : next[<<i, v>>] = ResolveRun(v, runs[i])
  BY <1>3
<1> HIDE DEF next
<1>5. PICK g0 : Folds(g0, n, V, NoRuns, next)
  BY <1>1, <1>2, <1>4, FoldRecursion
<1>6. /\ g0 \in [SUBSET (1..n) -> V]
      /\ \A s \in SUBSET (1..n) : g0[s] = IF s = {} THEN NoRuns ELSE next[<<Max(s), g0[s \ {Max(s)}]>>]
  BY <1>5 DEF Folds
<1>7. Equation(g0)
  <2>1. ASSUME NEW s \in SUBSET (1..n), s # {} PROVE g0[s] = ResolveRun(g0[s \ {Max(s)}], runs[Max(s)])
    <3>1. Max(s) \in 1..n /\ g0[s \ {Max(s)}] \in V
      BY <1>1, <1>6, <2>1, MaxRight
    <3> QED BY <1>4, <1>6, <2>1, <3>1
  <2> QED BY <1>6, <2>1
<1>8. PICK g : Equation(g) /\ ResolveRunlist(runs) = g[1..n].runs
  <2> HIDE DEF Equation
  <2>1. Equation(CHOOSE g : Equation(g))
    BY <1>7
  <2>2. ResolveRunlist(runs) = (CHOOSE g : Equation(g))[1..n].runs
    BY <1>1 DEF ResolveRunlist, FoldLeft, MapThenFoldSet, Equation, NoRuns
  <2> QED BY <2>1, <2>2
<1>9. \A s \in SUBSET (1..n) : g[s] = IF s = {} THEN NoRuns ELSE ResolveRun(g[s \ {Max(s)}], runs[Max(s)])
  BY <1>8
<1> HIDE DEF Equation
<1> DEFINE h == [i \in 0..n |-> g0[1..i]]
<1>10. h \in [0..n -> V] /\ h[0] = NoRuns /\ \A i \in 1..n : h[i] = next[<<i, h[i - 1]>>]
  <2>1. Recurs(h, n, V, NoRuns, next)
    BY <1>1, <1>5, FoldOrder
  <2> HIDE DEF h
  <2> QED BY <2>1 DEF Recurs
<1> HIDE DEF h
<1>11. \A i \in 1..n : h[i] = ResolveRun(h[i - 1], runs[i])
  <2>1. \A i \in 1..n : i - 1 \in 0..n
    BY <1>1
  <2> QED BY <1>4, <1>10, <2>1
<1> DEFINE P == {i \in 0..n : g[1..i] = h[i]}
<1>12. 0 \in P
  <2>1. 1..0 = {} /\ 0 \in 0..n /\ {} \in SUBSET (1..n)
    BY <1>1
  <2>2. g[1..0] = NoRuns
    BY <1>9, <2>1
  <2> QED BY <1>10, <2>1, <2>2
<1>13. ASSUME NEW i \in 1..n, i - 1 \in P PROVE i \in P
  <2>1. 1..i \in SUBSET (1..n) /\ 1..i # {} /\ Max(1..i) = i /\ (1..i) \ {i} = 1..(i - 1) /\ i \in 0..n
    BY <1>1, MaxUpTo
  <2>2. g[1..i] = ResolveRun(g[1..(i - 1)], runs[i])
    BY <1>9, <2>1
  <2>3. g[1..(i - 1)] = h[i - 1]
    BY <1>13
  <2> QED BY <1>11, <2>1, <2>2, <2>3
<1> HIDE DEF P
<1>14. n \in P
  <2>1. n \in 0..n
    BY <1>1
  <2> QED BY <1>1, <1>12, <1>13, <2>1, UpTo
<1>15. ResolveRunlist(runs) = h[n].runs
  BY <1>8, <1>14 DEF P
<1> QED BY <1>10, <1>11, <1>15 DEF Resolves, n, V

\* The sums of the offsets of the entries.
OffsetsTo(o, runs) ==
  /\ o \in [0..Len(runs) -> Int] /\ o[0] = 0
  /\ \A i \in 1..Len(runs) : o[i] = o[i - 1] + runs[i].offset

\* A run is in the image at the sum of the offsets up to it, a hole is nowhere.
FromOffsets(runs, list) ==
  \E o : OffsetsTo(o, runs) /\ \A i \in 1..Len(runs) : list[i].lcn = IF list[i].sparse THEN -1 ELSE o[i]

\* Every entry becomes a run, behind those before it in the file.
ResolvedFrom(runs, list) ==
  /\ list \in Seq(DataRun) /\ Len(list) = Len(runs)
  /\ \A i \in 1..Len(runs) :
        /\ list[i].count = runs[i].count /\ list[i].sparse = runs[i].sparse
        /\ list[i].vcn = IF i = 1 THEN 0 ELSE list[i - 1].vcn + list[i - 1].count
  /\ FromOffsets(runs, list)

\* What resolve_runlist makes of the entries.
LEMMA ResolveRight ==
  ASSUME NEW runs \in Seq(ParsedRun)
  PROVE  ResolvedFrom(runs, ResolveRunlist(runs))
<1> DEFINE n == Len(runs)
<1>1. n \in Nat /\ \A i \in 1..n : runs[i] \in ParsedRun
  BY LenProperties, ElementOfSeq
<1>2. PICK h : Resolves(h, runs) /\ ResolveRunlist(runs) = h[n].runs
  BY ResolveUnfolds
<1>3. h \in [0..n -> Resolving] /\ h[0] = NoRuns /\ \A i \in 1..n : h[i] = ResolveRun(h[i - 1], runs[i])
  BY <1>2 DEF Resolves
<1> HIDE DEF n
<1> DEFINE Good(i) ==
             /\ Len(h[i].runs) = i
             /\ h[i].vcn = IF i = 0 THEN 0 ELSE h[i].runs[i].vcn + h[i].runs[i].count
             /\ \A j \in 1..i :
                  /\ h[i].runs[j].count = runs[j].count /\ h[i].runs[j].sparse = runs[j].sparse
                  /\ h[i].runs[j].lcn = IF runs[j].sparse THEN -1 ELSE h[j].lcn
                  /\ h[i].runs[j].vcn = IF j = 1 THEN 0 ELSE h[i].runs[j - 1].vcn + h[i].runs[j - 1].count
           P == {i \in 0..n : Good(i)}
<1>4. 0 \in P
  BY <1>1, <1>3 DEF NoRuns
<1>5. ASSUME NEW i \in 1..n, i - 1 \in P PROVE i \in P
  <2> DEFINE acc == h[i - 1]
             lcn == IF runs[i].sparse THEN acc.lcn ELSE acc.lcn + runs[i].offset
             new == [vcn |-> acc.vcn, lcn |-> IF runs[i].sparse THEN -1 ELSE lcn,
                     count |-> runs[i].count, sparse |-> runs[i].sparse]
  <2>1. i \in 0..n /\ i - 1 \in 0..n /\ runs[i] \in ParsedRun
    BY <1>1
  <2>2. acc \in Resolving /\ Good(i - 1)
    BY <1>3, <1>5, <2>1
  <2>3. /\ h[i].runs = Append(acc.runs, new) /\ h[i].vcn = acc.vcn + runs[i].count /\ h[i].lcn = lcn
        /\ new \in DataRun
    <3>1. /\ ResolveRun(acc, runs[i]).runs = Append(acc.runs, new) /\ new \in DataRun
          /\ ResolveRun(acc, runs[i]).vcn = acc.vcn + runs[i].count /\ ResolveRun(acc, runs[i]).lcn = lcn
      BY <2>1, <2>2, ResolveType
    <3>2. h[i] = ResolveRun(acc, runs[i])
      BY <1>3
    <3> QED BY <3>1, <3>2
  <2>4. new.vcn = acc.vcn /\ new.count = runs[i].count /\ new.sparse = runs[i].sparse
        /\ new.lcn = IF runs[i].sparse THEN -1 ELSE h[i].lcn
    <3>1. new.lcn = IF runs[i].sparse THEN -1 ELSE lcn
      OBVIOUS
    <3> QED BY <2>3, <3>1
  <2>5. acc.runs \in Seq(DataRun) /\ Len(acc.runs) = i - 1
    BY <2>2 DEF Resolving
  <2> HIDE DEF new
  <2>6. /\ Len(h[i].runs) = i /\ h[i].runs[i] = new
        /\ \A j \in 1..(i - 1) : h[i].runs[j] = acc.runs[j]
    BY <1>1, <2>3, <2>5, AppendProperties
  <2>7. h[i].vcn = h[i].runs[i].vcn + h[i].runs[i].count
    BY <2>3, <2>4, <2>6
  <2>8. ASSUME NEW j \in 1..i
        PROVE  /\ h[i].runs[j].count = runs[j].count /\ h[i].runs[j].sparse = runs[j].sparse
               /\ h[i].runs[j].lcn = IF runs[j].sparse THEN -1 ELSE h[j].lcn
               /\ h[i].runs[j].vcn = IF j = 1 THEN 0 ELSE h[i].runs[j - 1].vcn + h[i].runs[j - 1].count
    <3>1. CASE j = i
      <4>1. h[i].runs[i] = new /\ (i # 1 => h[i].runs[i - 1] = acc.runs[i - 1])
        BY <2>1, <2>6
      <4>2. acc.vcn = IF i - 1 = 0 THEN 0 ELSE acc.runs[i - 1].vcn + acc.runs[i - 1].count
        BY <2>2
      <4> QED BY <2>4, <3>1, <4>1, <4>2
    <3>2. CASE j # i
      <4>1. j \in 1..(i - 1) /\ (j # 1 => j - 1 \in 1..(i - 1))
        BY <1>1, <3>2
      <4>2. h[i].runs[j] = acc.runs[j] /\ (j # 1 => h[i].runs[j - 1] = acc.runs[j - 1])
        BY <2>6, <4>1
      <4>3. /\ acc.runs[j].count = runs[j].count /\ acc.runs[j].sparse = runs[j].sparse
            /\ acc.runs[j].lcn = IF runs[j].sparse THEN -1 ELSE h[j].lcn
            /\ acc.runs[j].vcn = IF j = 1 THEN 0 ELSE acc.runs[j - 1].vcn + acc.runs[j - 1].count
        BY <2>2, <4>1
      <4> QED BY <4>2, <4>3
    <3> QED BY <3>1, <3>2
  <2>9. Good(i)
    BY <2>6, <2>7, <2>8
  <2> QED BY <2>1, <2>9
<1>6. n \in P
  <2> HIDE DEF P
  <2>1. n \in 0..n
    BY <1>1
  <2> QED BY <1>1, <1>4, <1>5, <2>1, UpTo
<1>7. h[n].runs \in Seq(DataRun)
  <2>1. n \in 0..n
    BY <1>1
  <2> QED BY <1>3, <2>1 DEF Resolving
<1> DEFINE o == [i \in 0..n |-> h[i].lcn]
<1>8. OffsetsTo(o, runs)
  <2>1. \A i \in 0..n : h[i].lcn \in Int
    BY <1>3 DEF Resolving
  <2>2. o \in [0..n -> Int] /\ o[0] = 0
    BY <1>1, <1>3, <2>1 DEF NoRuns
  <2>3. ASSUME NEW i \in 1..n PROVE o[i] = o[i - 1] + runs[i].offset
    <3>1. i \in 0..n /\ i - 1 \in 0..n /\ o[i] = h[i].lcn /\ o[i - 1] = h[i - 1].lcn
      BY <1>1
    <3>2. h[i - 1] \in Resolving /\ runs[i] \in ParsedRun
      BY <1>1, <1>3, <3>1
    <3>3. ResolveRun(h[i - 1], runs[i]).lcn = IF runs[i].sparse THEN h[i - 1].lcn ELSE h[i - 1].lcn + runs[i].offset
      BY <3>2, ResolveType
    <3>4. runs[i].sparse => runs[i].offset = 0
      BY <3>2 DEF ParsedRun
    <3>5. h[i - 1].lcn \in Int
      BY <2>1, <3>1
    <3>6. h[i - 1].lcn + 0 = h[i - 1].lcn
      BY <3>5
    <3>7. h[i].lcn = h[i - 1].lcn + runs[i].offset
      BY <1>3, <3>3, <3>4, <3>6
    <3> HIDE DEF o
    <3> QED BY <3>1, <3>7
  <2> HIDE DEF o
  <2> QED BY <2>2, <2>3 DEF OffsetsTo, n
<1>9. FromOffsets(runs, h[n].runs)
  <2>1. \A i \in 1..n : i \in 0..n /\ o[i] = h[i].lcn
    BY <1>1
  <2>2. \A i \in 1..n : h[n].runs[i].lcn = IF h[n].runs[i].sparse THEN -1 ELSE o[i]
    BY <1>6, <2>1
  <2> HIDE DEF o
  <2> QED BY <1>8, <2>2 DEF FromOffsets, n
<1> QED BY <1>2, <1>6, <1>7, <1>9 DEF ResolvedFrom, n

\* What a run gives of the image.
LEMMA AvailableType ==
  ASSUME attr \in Attributes, NEW run \in DataRun
  PROVE  /\ RunBytes(run) \in Nat /\ Available(run) \in Nat /\ Available(run) <= RunBytes(run)
         /\ run.lcn * RunClusterSize \in Int /\ (run.lcn >= 0 => run.lcn * RunClusterSize >= 0)
<1>1. RunClusterSize \in Nat /\ attr.image \in Nat
  BY RunAssumption
<1>2. run.count \in Nat /\ run.lcn \in Int
  BY DEF DataRun
<1>3. run.count * RunClusterSize \in Nat /\ run.lcn * RunClusterSize \in Int
      /\ (run.lcn >= 0 => run.lcn * RunClusterSize >= 0)
  BY <1>1, <1>2
<1> DEFINE b == run.count * RunClusterSize
           o == run.lcn * RunClusterSize
<1>4. Available(run) = IF run.sparse THEN b ELSE IF run.lcn < 0 THEN 0
                       ELSE Lesser(b, Greater(0, attr.image - o))
  BY DEF Available, RunBytes
<1>5. b \in Nat /\ o \in Int
  BY <1>3
<1> HIDE DEF b, o
<1>6. Available(run) \in Nat /\ Available(run) <= b
  <2>1. Greater(0, attr.image - o) \in Nat
    BY <1>1, <1>5 DEF Greater
  <2>2. \A g \in Nat : Lesser(b, g) \in Nat /\ Lesser(b, g) <= b
    BY <1>5 DEF Lesser
  <2> QED BY <1>4, <1>5, <2>1, <2>2
<1> QED BY <1>3, <1>6 DEF RunBytes, b, o

HaveSums(h) == SumsTo(h, Len(resolved), [i \in 1..Len(resolved) |-> Available(resolved[i])])
SizeSums(h) == SumsTo(h, Len(resolved), [i \in 1..Len(resolved) |-> RunBytes(resolved[i])])

\* The two totals of the estimate are sums.
LEMMA Totals ==
  ASSUME attr \in Attributes, resolved \in Seq(DataRun)
  PROVE  /\ \E h : HaveSums(h) /\ Total(Available) = h[Len(resolved)]
         /\ \E h : SizeSums(h) /\ Total(RunBytes) = h[Len(resolved)]
<1> DEFINE n == Len(resolved)
<1>1. n \in Nat /\ DOMAIN resolved = 1..n /\ \A i \in 1..n : resolved[i] \in DataRun
  BY LenProperties, ElementOfSeq
<1>2. \A i \in 1..n : Available(resolved[i]) \in Nat /\ RunBytes(resolved[i]) \in Nat
  BY <1>1, AvailableType
<1> HIDE DEF n
<1>3. \E h : SumsTo(h, n, [i \in 1..n |-> Available(resolved[i])]) /\ Total(Available) = h[n]
  <2> DEFINE f == [i \in 1..n |-> Available(resolved[i])]
             Equation(g) == g = [s \in SUBSET (1..n) |->
                                   IF s = {} THEN 0 ELSE g[s \ {Max(s)}] + Available(resolved[Max(s)])]
  <2>1. f \in [1..n -> Nat]
    BY <1>2
  <2>2. ASSUME NEW g PROVE Equation(g) <=> AddsUp(g, n, f)
    <3>1. \A s \in SUBSET (1..n) : s # {} => f[Max(s)] = Available(resolved[Max(s)])
      <4>1. \A s \in SUBSET (1..n) : s # {} => Max(s) \in 1..n
        BY <1>1, MaxRight
      <4> QED BY <4>1
    <3>2. [s \in SUBSET (1..n) |-> IF s = {} THEN 0 ELSE g[s \ {Max(s)}] + Available(resolved[Max(s)])]
            = [s \in SUBSET (1..n) |-> IF s = {} THEN 0 ELSE g[s \ {Max(s)}] + f[Max(s)]]
      <4> HIDE DEF f
      <4> QED BY <3>1
    <3> HIDE DEF f
    <3> QED BY <3>2 DEF AddsUp
  <2> HIDE DEF f
  <2>3. PICK h : SumsTo(h, n, f) /\ \A g : AddsUp(g, n, f) => g[1..n] = h[n]
    BY <1>1, <2>1, Sums
  <2>4. Total(Available) = h[n]
    <3> HIDE DEF Equation
    <3>1. Equation(CHOOSE g : Equation(g))
      BY <1>1, <2>1, <2>2, Sums
    <3>2. Total(Available) = (CHOOSE g : Equation(g))[1..n]
      BY <1>1 DEF Total, FoldLeft, MapThenFoldSet, Equation
    <3> QED BY <2>2, <2>3, <3>1, <3>2
  <2> QED BY <2>3, <2>4 DEF f
<1>4. \E h : SumsTo(h, n, [i \in 1..n |-> RunBytes(resolved[i])]) /\ Total(RunBytes) = h[n]
  <2> DEFINE f == [i \in 1..n |-> RunBytes(resolved[i])]
             Equation(g) == g = [s \in SUBSET (1..n) |->
                                   IF s = {} THEN 0 ELSE g[s \ {Max(s)}] + RunBytes(resolved[Max(s)])]
  <2>1. f \in [1..n -> Nat]
    BY <1>2
  <2>2. ASSUME NEW g PROVE Equation(g) <=> AddsUp(g, n, f)
    <3>1. \A s \in SUBSET (1..n) : s # {} => f[Max(s)] = RunBytes(resolved[Max(s)])
      <4>1. \A s \in SUBSET (1..n) : s # {} => Max(s) \in 1..n
        BY <1>1, MaxRight
      <4> QED BY <4>1
    <3>2. [s \in SUBSET (1..n) |-> IF s = {} THEN 0 ELSE g[s \ {Max(s)}] + RunBytes(resolved[Max(s)])]
            = [s \in SUBSET (1..n) |-> IF s = {} THEN 0 ELSE g[s \ {Max(s)}] + f[Max(s)]]
      <4> HIDE DEF f
      <4> QED BY <3>1
    <3> HIDE DEF f
    <3> QED BY <3>2 DEF AddsUp
  <2> HIDE DEF f
  <2>3. PICK h : SumsTo(h, n, f) /\ \A g : AddsUp(g, n, f) => g[1..n] = h[n]
    BY <1>1, <2>1, Sums
  <2>4. Total(RunBytes) = h[n]
    <3> HIDE DEF Equation
    <3>1. Equation(CHOOSE g : Equation(g))
      BY <1>1, <2>1, <2>2, Sums
    <3>2. Total(RunBytes) = (CHOOSE g : Equation(g))[1..n]
      BY <1>1 DEF Total, FoldLeft, MapThenFoldSet, Equation
    <3> QED BY <2>2, <2>3, <3>1, <3>2
  <2> QED BY <2>3, <2>4 DEF f
<1> QED BY <1>3, <1>4 DEF HaveSums, SizeSums, n

Elem == Nat \union {Hole}

\* The types of what reading a file keeps; a chunk is taken inside a run that is no hole,
\* and what it took of the run is not yet counted.
RunTypes ==
  /\ attr \in Attributes
  /\ rstep \in {"parse", "read", "done", "error"}
  /\ data_runs \in Seq(ParsedRun) /\ resolved \in Seq(DataRun) /\ Len(resolved) = Len(data_runs)
  /\ at_run \in 1..Len(resolved) + 1 /\ pos \in Nat /\ remaining \in 0..Limit
  /\ data \in Seq(Elem) /\ Len(data) <= Limit
  /\ rstep = "parse" => resolved = <<>> /\ at_run = 1 /\ pos = 0 /\ data = <<>>
  /\ rstep = "read" => Len(data) + remaining <= Limit + pos
  /\ pos > 0 => attr.reader = "chunks" /\ at_run \in DOMAIN resolved /\ ~Run.sparse /\ pos <= Wanted

-----------------------------------------------------------------------------
(* Part 6: reading the runs, and what is said before.                       *)

\* The bytes of the image at a place in it.
LEMMA ImageType ==
  ASSUME attr \in Attributes, NEW o \in Nat, NEW n \in Nat
  PROVE  /\ ImageBytes(o, n) \in Seq(Elem)
         /\ Len(ImageBytes(o, n)) = Lesser(n, Greater(0, attr.image - o))
         /\ \A k \in 1..Len(ImageBytes(o, n)) : ImageBytes(o, n)[k] = o + k - 1
<1> DEFINE m == Greater(0, Lesser(o + n, attr.image) - o)
<1>1. attr.image \in Nat
  BY RunAssumption
<1>2. m \in Nat /\ m = Lesser(n, Greater(0, attr.image - o))
  <2> DEFINE g == attr.image
  <2>1. g \in Nat
    BY <1>1
  <2> HIDE DEF g
  <2>2. Greater(0, Lesser(o + n, g) - o) \in Nat
        /\ Greater(0, Lesser(o + n, g) - o) = Lesser(n, Greater(0, g - o))
    BY <2>1 DEF Greater, Lesser
  <2> QED BY <2>2 DEF g
<1> HIDE DEF m
<1>3. ImageBytes(o, n) = [i \in 1..m |-> o + i - 1]
  BY DEF ImageBytes, m
<1>4. \A i \in 1..m : o + i - 1 \in Elem
  BY <1>2 DEF Elem
<1> QED BY <1>2, <1>3, <1>4

\* The run that is being read.
LEMMA RunFacts ==
  ASSUME RunTypes, Reading
  PROVE  /\ Run \in DataRun /\ Limit \in Nat /\ at_run \in 1..Len(resolved) /\ rstep = "read"
         /\ RunBytes(Run) \in Nat /\ Available(Run) \in Nat /\ Available(Run) <= RunBytes(Run)
         /\ Wanted \in Nat /\ Wanted <= remaining /\ Wanted <= RunBytes(Run)
         /\ remaining \in Nat /\ Len(data) \in Nat /\ data \in Seq(Elem)
<1>1. attr \in Attributes /\ rstep = "read" /\ remaining \in Nat /\ remaining <= Limit
      /\ at_run \in DOMAIN resolved /\ resolved \in Seq(DataRun) /\ data \in Seq(Elem)
  BY DEF RunTypes, Reading
<1>2. Limit \in Nat
  BY <1>1, RunAssumption DEF Limit
<1>3. at_run \in 1..Len(resolved) /\ resolved[at_run] \in DataRun
  <2>1. at_run \in 1..Len(resolved)
    BY <1>1, LenProperties
  <2> QED BY <1>1, <2>1, ElementOfSeq
<1>4. RunBytes(Run) \in Nat /\ Available(Run) \in Nat /\ Available(Run) <= RunBytes(Run) /\ Run \in DataRun
  BY <1>1, <1>3, AvailableType DEF Run
<1>5. Wanted \in Nat /\ Wanted <= remaining /\ Wanted <= RunBytes(Run)
  BY <1>1, <1>4 DEF Wanted, Lesser
<1> QED BY <1>1, <1>2, <1>3, <1>4, <1>5, LenProperties

\* A hole is filled with what is wanted of it.
LEMMA HolesType == ASSUME NEW n \in Nat PROVE Holes(n) \in Seq(Elem) /\ Len(Holes(n)) = n
                                             /\ \A k \in 1..n : Holes(n)[k] = Hole
<1>1. Holes(n) = [i \in 1..n |-> Hole] /\ Hole \in Elem
  BY DEF Holes, Elem
<1> QED BY <1>1

\* The elements of what is read behind what was read before.
LEMMA Joined2 ==
  ASSUME NEW s \in Seq(Elem), NEW t \in Seq(Elem)
  PROVE  /\ s \o t \in Seq(Elem) /\ Len(s \o t) = Len(s) + Len(t)
         /\ \A k \in 1..Len(s) : (s \o t)[k] = s[k]
         /\ \A k \in Len(s) + 1..Len(s) + Len(t) : (s \o t)[k] = t[k - Len(s)]
<1>1. Len(s) \in Nat /\ Len(t) \in Nat
  BY LenProperties
<1>2. /\ s \o t \in Seq(Elem)
      /\ Len(s \o t) = Len(s) + Len(t)
      /\ \A i \in 1 .. Len(s) + Len(t) : (s \o t)[i] = IF i <= Len(s) THEN s[i] ELSE t[i - Len(s)]
  BY ConcatProperties
<1>3. \A k \in 1..Len(s) : k \in 1..Len(s) + Len(t) /\ k <= Len(s)
  BY <1>1
<1>4. \A k \in Len(s) + 1..Len(s) + Len(t) : k \in 1..Len(s) + Len(t) /\ ~(k <= Len(s))
  BY <1>1
<1> QED BY <1>2, <1>3, <1>4

\* Reading changes nothing of the attribute, the runs and the limit.
Rereads == UNCHANGED <<attr, data_runs, resolved>>

\* What a step that reads has to keep.
LEMMA SameRuns ==
  ASSUME RunTypes, Rereads, rstep \in {"parse", "read"}, rstep' \in {"read", "done", "error"},
         at_run' \in 1..Len(resolved) + 1, pos' \in Nat, remaining' \in 0..Limit,
         data' \in Seq(Elem), Len(data') <= Limit,
         rstep' = "read" => Len(data') + remaining' <= Limit + pos',
         pos' > 0 => /\ attr.reader = "chunks" /\ at_run' \in DOMAIN resolved
                     /\ ~resolved[at_run'].sparse /\ pos' <= Lesser(RunBytes(resolved[at_run']), remaining')
  PROVE  RunTypes'
<1>1. attr' = attr /\ data_runs' = data_runs /\ resolved' = resolved
  BY DEF Rereads
<1>2. Limit' = Limit
  BY <1>1 DEF Limit
<1>3. Run' = resolved[at_run'] /\ Wanted' = Lesser(RunBytes(resolved[at_run']), remaining')
  BY <1>1 DEF Run, Wanted, RunBytes
<1> QED BY <1>1, <1>2, <1>3 DEF RunTypes

\* The list is parsed and resolved at once.
LEMMA ResolveTypes ==
  ASSUME RunTypes, Resolve
  PROVE  RunTypes' /\ data = <<>> /\ data' = <<>> /\ at_run' = 1 /\ pos' = 0 /\ remaining' = Limit
         /\ rstep' = "read" /\ attr' = attr
<1>1. attr \in Attributes /\ rstep = "parse" /\ at_run = 1 /\ pos = 0 /\ data = <<>>
  BY DEF RunTypes, Resolve
<1>2. attr.bytes \in Seq(Byte8)
  BY <1>1, RunAssumption DEF Byte8
<1>3. ParseRunlist(attr.bytes) \in Seq(ParsedRun)
  BY <1>2, ParseType
<1>4. data_runs' = ParseRunlist(attr.bytes) /\ resolved' = ResolveRunlist(data_runs')
  BY DEF Resolve
<1>5. ResolvedFrom(data_runs', resolved')
  <2> DEFINE list == ParseRunlist(attr.bytes)
  <2>1. list \in Seq(ParsedRun)
    BY <1>3
  <2> HIDE DEF list
  <2>2. ResolvedFrom(list, ResolveRunlist(list))
    BY <2>1, ResolveRight
  <2>3. data_runs' = list /\ resolved' = ResolveRunlist(list)
    BY <1>4 DEF list
  <2> QED BY <2>2, <2>3 DEF ResolvedFrom
<1>6. data_runs' \in Seq(ParsedRun) /\ resolved' \in Seq(DataRun) /\ Len(resolved') = Len(data_runs')
  BY <1>3, <1>4, <1>5 DEF ResolvedFrom
<1>7. Limit \in Nat
  BY <1>1, RunAssumption DEF Limit
<1>8. attr' = attr /\ at_run' = 1 /\ pos' = 0 /\ data' = <<>> /\ remaining' = Limit /\ rstep' = "read"
  BY <1>1 DEF Resolve
<1>9. Limit' = Limit
  BY <1>8 DEF Limit
<1>10. at_run' \in 1..Len(resolved') + 1
  <2>1. Len(resolved') \in Nat
    BY <1>6, LenProperties
  <2> QED BY <1>8, <2>1
<1>11. data' \in Seq(Elem) /\ Len(data') = 0
  BY <1>8, EmptySeq
<1>12. RunTypes'
  <2>1. attr' \in Attributes /\ remaining' \in 0..Limit' /\ Len(data') <= Limit' /\ pos' \in Nat /\ ~(pos' > 0)
        /\ Len(data') + remaining' <= Limit' + pos'
    BY <1>1, <1>7, <1>8, <1>9, <1>11
  <2> QED BY <1>6, <1>8, <1>10, <1>11, <2>1 DEF RunTypes
<1> QED BY <1>1, <1>8, <1>12

\* What is taken of a run, of its end, or of a chunk of it.
LEMMA TakenTypes ==
  ASSUME RunTypes, Reading, pos = 0, Rereads, NEW bytes \in Seq(Elem), Len(bytes) <= remaining, Took(bytes),
         at_run' = at_run + 1, pos' = 0, rstep' = "read"
  PROVE  RunTypes'
<1>1. /\ Limit \in Nat /\ at_run \in 1..Len(resolved) /\ rstep = "read"
      /\ remaining \in Nat /\ Len(data) \in Nat /\ data \in Seq(Elem)
  BY RunFacts
<1>2. data' = data \o bytes /\ remaining' = remaining - Len(bytes)
  BY DEF Took
<1>3. data' \in Seq(Elem) /\ Len(data') = Len(data) + Len(bytes) /\ Len(bytes) \in Nat
  BY <1>1, <1>2, Joined2, LenProperties
<1>4. Len(data) + remaining <= Limit + pos /\ remaining <= Limit
  BY <1>1 DEF RunTypes
<1>5. remaining' \in 0..Limit /\ Len(data') + remaining' <= Limit + pos' /\ Len(data') <= Limit
  BY <1>1, <1>2, <1>3, <1>4
<1>6. at_run' \in 1..Len(resolved) + 1 /\ pos' \in Nat /\ ~(pos' > 0)
  <2>1. Len(resolved) \in Nat
    BY LenProperties DEF RunTypes
  <2> QED BY <1>1, <2>1
<1> QED BY <1>1, <1>3, <1>5, <1>6, SameRuns

\* Only _read_chunked stops inside a run.
LEMMA NoChunk == ASSUME RunTypes, Reading, Run.sparse \/ attr.reader = "all" PROVE pos = 0
<1>1. pos > 0 => attr.reader = "chunks" /\ ~Run.sparse
  BY DEF RunTypes
<1>2. pos \in Nat
  BY DEF RunTypes
<1> QED BY <1>1, <1>2

\* The three ways to be done with a run of the whole file keep the types.
LEMMA ReadingTypes ==
  ASSUME RunTypes, FillHole \/ ReadRun \/ SkipBefore
  PROVE  RunTypes'
<1>1. Reading /\ pos = 0 /\ Rereads /\ at_run' = at_run + 1 /\ pos' = 0 /\ rstep' = "read"
  <2>1. Reading /\ pos = 0 /\ Rereads /\ at_run' = at_run + 1 /\ pos' = pos /\ rstep' = rstep
    BY NoChunk DEF FillHole, ReadRun, SkipBefore, Rereads
  <2> QED BY <2>1, RunFacts
<1>2. /\ Run \in DataRun /\ Wanted \in Nat /\ Wanted <= remaining /\ remaining \in Nat /\ data \in Seq(Elem)
  BY <1>1, RunFacts
<1>3. CASE FillHole
  <2>1. Holes(Wanted) \in Seq(Elem) /\ Len(Holes(Wanted)) <= remaining
    BY <1>2, HolesType
  <2> QED BY <1>1, <1>3, <2>1, TakenTypes DEF FillHole
<1>4. CASE ReadRun
  <2> DEFINE o == Run.lcn * RunClusterSize
  <2>1. o \in Nat
    <3>1. attr \in Attributes /\ Run.lcn >= 0
      BY <1>4 DEF RunTypes, ReadRun
    <3>2. o \in Int /\ o >= 0
      BY <1>2, <3>1, AvailableType
    <3> QED BY <3>2
  <2> HIDE DEF o
  <2>2. attr \in Attributes /\ attr.image \in Nat
    BY RunAssumption DEF RunTypes
  <2>3. ImageBytes(o, Wanted) \in Seq(Elem) /\ Len(ImageBytes(o, Wanted)) = Lesser(Wanted, Greater(0, attr.image - o))
    BY <1>2, <2>1, <2>2, ImageType
  <2>4. Lesser(Wanted, Greater(0, attr.image - o)) <= Wanted
    BY <1>2, <2>1, <2>2 DEF Lesser, Greater
  <2>5. Len(ImageBytes(o, Wanted)) <= remaining
    BY <1>2, <2>3, <2>4, LenProperties
  <2>6. Took(ImageBytes(o, Wanted))
    BY <1>4 DEF ReadRun, o
  <2> QED BY <1>1, <2>3, <2>5, <2>6, TakenTypes
<1>5. CASE SkipBefore
  <2>1. <<>> \in Seq(Elem) /\ Len(<<>>) = 0 /\ data \o <<>> = data
    <3>1. <<>> \in Seq(Elem) /\ Len(<<>>) = 0
      BY EmptySeq
    <3>2. data \o <<>> = data
      BY <1>2, ConcatEmptySeq
    <3> QED BY <3>1, <3>2
  <2>2. Took(<<>>) /\ Len(<<>>) <= remaining
    <3>1. remaining' = remaining /\ data' = data
      BY <1>5 DEF SkipBefore
    <3> QED BY <1>2, <2>1, <3>1 DEF Took
  <2> QED BY <1>1, <2>1, <2>2, TakenTypes
<1> QED BY <1>3, <1>4, <1>5

\* A chunk, and the end of the chunks of a run, keep them too.
LEMMA ChunkTypes ==
  ASSUME RunTypes, ReadChunk \/ ChunksOver
  PROVE  RunTypes'
<1>1. Reading /\ Rereads /\ rstep' = rstep /\ attr.reader = "chunks" /\ ~Run.sparse
  BY DEF ReadChunk, ChunksOver, Rereads
<1>2. /\ Run \in DataRun /\ Limit \in Nat /\ at_run \in 1..Len(resolved) /\ rstep = "read"
      /\ Wanted \in Nat /\ Wanted <= remaining /\ remaining \in Nat /\ Len(data) \in Nat /\ data \in Seq(Elem)
  BY <1>1, RunFacts
<1>3. /\ attr \in Attributes /\ pos \in Nat /\ remaining <= Limit
      /\ Len(data) + remaining <= Limit + pos /\ (pos > 0 => pos <= Wanted)
      /\ at_run \in DOMAIN resolved
  BY <1>1, <1>2 DEF RunTypes, Reading
<1>4. CASE ReadChunk
  <2> DEFINE o == Run.lcn * RunClusterSize + pos
             n == Lesser(attr.chunk_size, Wanted - pos)
  <2>1. o \in Nat
    <3>1. Run.lcn * RunClusterSize \in Int /\ Run.lcn * RunClusterSize >= 0
      BY <1>2, <1>3, <1>4, AvailableType DEF ReadChunk
    <3> QED BY <1>3, <3>1
  <2>2. n \in Nat /\ n <= Wanted - pos
    <3>1. attr.chunk_size \in Nat /\ pos < Wanted
      BY <1>3, <1>4, RunAssumption DEF ReadChunk
    <3> QED BY <1>2, <1>3, <3>1 DEF Lesser
  <2>3. attr.image \in Nat
    BY <1>3, RunAssumption
  <2> HIDE DEF o, n
  <2>4. ImageBytes(o, n) \in Seq(Elem) /\ Len(ImageBytes(o, n)) = Lesser(n, Greater(0, attr.image - o))
    BY <1>3, <2>1, <2>2, ImageType
  <2>5. Lesser(n, Greater(0, attr.image - o)) \in Nat /\ Lesser(n, Greater(0, attr.image - o)) <= n
    BY <2>1, <2>2, <2>3 DEF Lesser, Greater
  <2> DEFINE m == Len(ImageBytes(o, n))
  <2>6. m \in Nat /\ m <= Wanted - pos
    BY <1>2, <1>3, <2>2, <2>4, <2>5
  <2>7. data' = data \o ImageBytes(o, n) /\ pos' = pos + m /\ at_run' = at_run /\ remaining' = remaining
    BY <1>4 DEF ReadChunk, Chunk, o, n
  <2>8. data' \in Seq(Elem) /\ Len(data') = Len(data) + m
    BY <1>2, <2>4, <2>7, Joined2
  <2> HIDE DEF m
  <2>9. pos' \in Nat /\ pos' <= Wanted /\ Len(data') <= Limit /\ Len(data') + remaining' <= Limit + pos'
    BY <1>2, <1>3, <2>6, <2>7, <2>8
  <2>10. at_run' \in 1..Len(resolved) + 1 /\ remaining' \in 0..Limit
    <3>1. Len(resolved) \in Nat
      BY LenProperties DEF RunTypes
    <3> QED BY <1>2, <1>3, <2>7, <3>1
  <2>11. at_run' \in DOMAIN resolved /\ ~resolved[at_run'].sparse
         /\ Lesser(RunBytes(resolved[at_run']), remaining') = Wanted
    BY <1>1, <1>3, <2>7 DEF Run, Wanted
  <2> QED BY <1>1, <1>2, <2>8, <2>9, <2>10, <2>11, SameRuns
<1>5. CASE ChunksOver
  <2>1. data' = data /\ pos' = 0 /\ at_run' = at_run + 1 /\ remaining' = remaining - Wanted /\ pos >= Wanted
    BY <1>5 DEF ChunksOver
  <2>2. pos' \in Nat /\ Len(data') <= Limit /\ Len(data') + remaining' <= Limit + pos' /\ remaining' \in 0..Limit
    BY <1>2, <1>3, <2>1
  <2>3. at_run' \in 1..Len(resolved) + 1
    <3>1. Len(resolved) \in Nat
      BY LenProperties DEF RunTypes
    <3> QED BY <1>2, <2>1, <3>1
  <2>4. ~(pos' > 0)
    BY <2>1
  <2>5. data' \in Seq(Elem)
    BY <1>2, <2>1
  <2> QED BY <1>1, <1>2, <2>2, <2>3, <2>4, <2>5, SameRuns
<1> QED BY <1>4, <1>5

\* So does the end of reading.
LEMMA EndTypes ==
  ASSUME RunTypes, SeekFails \/ RunEnd
  PROVE  RunTypes' /\ rstep' \in {"done", "error"}
<1>1. /\ attr \in Attributes /\ at_run \in 1..Len(resolved) + 1 /\ pos \in Nat /\ remaining \in 0..Limit
      /\ data \in Seq(Elem) /\ Len(data) <= Limit
      /\ pos > 0 => attr.reader = "chunks" /\ at_run \in DOMAIN resolved /\ ~Run.sparse /\ pos <= Wanted
  BY DEF RunTypes
<1>2. Limit \in Nat /\ attr.real_size \in Nat /\ Len(data) \in Nat
  BY <1>1, RunAssumption, LenProperties DEF Limit
<1>3. /\ Rereads /\ rstep = "read" /\ rstep' \in {"done", "error"}
      /\ UNCHANGED <<at_run, pos, remaining>>
  BY DEF SeekFails, RunEnd, Reading, Rereads
<1>4. data' \in Seq(Elem) /\ Len(data') <= Limit
  <2>1. CASE SeekFails
    <3>1. data' = <<>> /\ <<>> \in Seq(Elem) /\ Len(<<>>) = 0
      BY <2>1, EmptySeq DEF SeekFails
    <3> QED BY <1>2, <3>1
  <2>2. CASE RunEnd /\ attr.reader = "all"
    <3> DEFINE m == Lesser(Len(data), attr.real_size)
    <3>1. m \in Nat /\ m <= Len(data)
      BY <1>2 DEF Lesser
    <3> HIDE DEF m
    <3>2. data' = SubSeq(data, 1, m)
      BY <2>2 DEF RunEnd, m
    <3>3. \A i \in 1..m : data[i] \in Elem
      <4>1. \A i \in 1..m : i \in 1..Len(data)
        BY <1>2, <3>1
      <4> QED BY <1>1, <4>1, ElementOfSeq
    <3>4. SubSeq(data, 1, m) \in Seq(Elem) /\ Len(SubSeq(data, 1, m)) = m
      BY <1>1, <1>2, <3>1, <3>3, SubSeqProperties
    <3> QED BY <1>1, <1>2, <3>1, <3>2, <3>4
  <2>3. CASE RunEnd /\ attr.reader # "all"
    <3>1. data' = data
      BY <2>3 DEF RunEnd
    <3> QED BY <1>1, <3>1
  <2> QED BY <2>1, <2>2, <2>3
<1>5. pos' > 0 => /\ attr.reader = "chunks" /\ at_run' \in DOMAIN resolved
                  /\ ~resolved[at_run'].sparse /\ pos' <= Lesser(RunBytes(resolved[at_run']), remaining')
  BY <1>1, <1>3 DEF Run, Wanted
<1>6. at_run' \in 1..Len(resolved) + 1 /\ pos' \in Nat /\ remaining' \in 0..Limit
  BY <1>1, <1>3
<1>7. rstep' # "read" /\ rstep' \in {"read", "done", "error"}
  BY <1>3
<1> QED BY <1>3, <1>4, <1>5, <1>6, <1>7, SameRuns

InRun(i, b) ==
  /\ ~resolved[i].sparse
  /\ resolved[i].lcn * RunClusterSize <= b
  /\ b < resolved[i].lcn * RunClusterSize + RunBytes(resolved[i])

\* The whole file is read run by run: what remains is what the runs so far did not have.
Counts ==
  \A h : HaveSums(h) =>
    /\ rstep = "read" => /\ Len(data) + remaining = Limit
                         /\ remaining = Greater(0, Limit - h[at_run - 1])
    /\ rstep = "done" => Len(data) = Lesser(Lesser(Limit, h[Len(resolved)]), attr.real_size)

\* Every byte is of a hole or of a run that was read.
BytesOfRuns == \A p \in DOMAIN data : data[p] # Hole => \E i \in 1..(at_run - 1) : InRun(i, data[p])

\* If no two runs overlap no byte of the image was read twice.
BytesOnce == ~Overlaps => \A p, q \in DOMAIN data : (p # q /\ data[p] # Hole) => data[p] # data[q]

\* A seek that fails is to a run that is before the image, which is an error of the list.
FailsKnown == rstep = "error" => HasErrors

RunInv == RunTypes /\ FailsKnown /\ (attr.reader = "all" => Counts /\ BytesOfRuns /\ BytesOnce)

\* Before the list is parsed nothing is read.
LEMMA RunStarts == RunInit => RunInv
<1> SUFFICES ASSUME RunInit PROVE RunInv
  OBVIOUS
<1>1. /\ attr \in Attributes /\ rstep = "parse" /\ data_runs = <<>> /\ resolved = <<>>
      /\ at_run = 1 /\ pos = 0 /\ remaining = 0 /\ data = <<>>
  BY DEF RunInit
<1>2. Limit \in Nat
  BY <1>1, RunAssumption DEF Limit
<1>3. Len(resolved) = 0 /\ Len(data) = 0 /\ DOMAIN data = {}
      /\ data \in Seq(Elem) /\ resolved \in Seq(DataRun) /\ data_runs \in Seq(ParsedRun)
  BY <1>1, EmptySeq
<1>4. RunTypes
  <2>1. at_run \in 1..Len(resolved) + 1 /\ remaining \in 0..Limit /\ Len(data) <= Limit /\ pos \in Nat /\ ~(pos > 0)
    BY <1>1, <1>2, <1>3
  <2> QED BY <1>1, <1>3, <2>1 DEF RunTypes
<1>5. FailsKnown /\ Counts /\ BytesOfRuns /\ BytesOnce
  BY <1>1, <1>3 DEF FailsKnown, Counts, BytesOfRuns, BytesOnce
<1> QED BY <1>4, <1>5 DEF RunInv

\* What reading does not change.
LEMMA SameLists ==
  ASSUME Rereads
  PROVE  /\ Limit' = Limit /\ Overlaps' = Overlaps /\ attr' = attr /\ resolved' = resolved
         /\ \A h : HaveSums(h)' <=> HaveSums(h)
         /\ \A i, b : InRun(i, b)' <=> InRun(i, b)
<1>1. attr' = attr /\ resolved' = resolved
  BY DEF Rereads
<1>2. Limit' = Limit
  BY <1>1 DEF Limit
<1>3. Overlaps' = Overlaps
  BY <1>1 DEF Overlaps, Allocated
<1>4. \A h : HaveSums(h)' <=> HaveSums(h)
  BY <1>1 DEF HaveSums, Available, RunBytes
<1>5. \A i, b : InRun(i, b)' <=> InRun(i, b)
  BY <1>1 DEF InRun, RunBytes
<1> QED BY <1>1, <1>2, <1>3, <1>4, <1>5

\* Runs that do not overlap share no byte.
LEMMA RunsApart ==
  ASSUME RunTypes, ~Overlaps, NEW i \in 1..Len(resolved), NEW j \in 1..Len(resolved), i < j,
         NEW b \in Nat, InRun(i, b), InRun(j, b)
  PROVE  FALSE
<1>1. resolved[i] \in DataRun /\ resolved[j] \in DataRun /\ DOMAIN resolved = 1..Len(resolved)
  BY ElementOfSeq, LenProperties DEF RunTypes
<1> DEFINE l1 == resolved[i].lcn
           n1 == resolved[i].count
           l2 == resolved[j].lcn
           n2 == resolved[j].count
           c == RunClusterSize
<1>2. /\ l1 \in Int /\ n1 \in Nat /\ l2 \in Int /\ n2 \in Nat /\ c \in Nat \ {0}
      /\ ~resolved[i].sparse /\ ~resolved[j].sparse
  BY <1>1, RunAssumption DEF DataRun, InRun
<1>3. /\ l1 * c <= b /\ b < l1 * c + n1 * c
      /\ l2 * c <= b /\ b < l2 * c + n2 * c
  BY DEF InRun, RunBytes
<1>4. n1 > 0 /\ n2 > 0 => ~(l2 <= l1 + n1 - 1 /\ l2 + n2 - 1 >= l1)
  <2>1. n1 > 0 /\ n2 > 0 => i \in Allocated /\ j \in Allocated
    BY <1>1, <1>2 DEF Allocated
  <2> QED BY <2>1 DEF Overlaps
<1> HIDE DEF l1, n1, l2, n2, c
<1>5. n1 * c \in Nat /\ n2 * c \in Nat /\ l1 * c \in Int /\ l2 * c \in Int
  BY <1>2
<1>6. n1 > 0 /\ n2 > 0
  <2>1. n1 = 0 => n1 * c = 0
    BY <1>2
  <2>2. n2 = 0 => n2 * c = 0
    BY <1>2
  <2> QED BY <1>2, <1>3, <1>5, <2>1, <2>2
<1>7. l1 + n1 <= l2 \/ l2 + n2 <= l1
  BY <1>2, <1>4, <1>6
<1>8. ASSUME NEW x \in Int, NEW y \in Int, x <= y PROVE x * c <= y * c
  <2>1. PICK d \in Nat : y = x + d
    <3>1. y - x \in Nat /\ y = x + (y - x)
      BY <1>8
    <3> QED BY <3>1
  <2>2. y * c = x * c + d * c /\ d * c \in Nat /\ x * c \in Int
    BY <1>2, <2>1
  <2> QED BY <2>2
<1>9. CASE l1 + n1 <= l2
  <2>1. (l1 + n1) * c <= l2 * c /\ (l1 + n1) * c = l1 * c + n1 * c
    BY <1>2, <1>8, <1>9
  <2> QED BY <1>3, <1>5, <2>1
<1>10. CASE l2 + n2 <= l1
  <2>1. (l2 + n2) * c <= l1 * c /\ (l2 + n2) * c = l2 * c + n2 * c
    BY <1>2, <1>8, <1>10
  <2> QED BY <1>3, <1>5, <2>1
<1> QED BY <1>7, <1>9, <1>10

\* What is taken of a run is counted, is of that run and is new.
LEMMA TakenRight ==
  ASSUME RunTypes, Reading, Counts, BytesOfRuns, BytesOnce, Rereads,
         NEW bytes \in Seq(Elem), Len(bytes) = Lesser(Available(Run), remaining), Took(bytes),
         at_run' = at_run + 1, rstep' = "read",
         \A k \in 1..Len(bytes) : bytes[k] # Hole => InRun(at_run, bytes[k]),
         \A k, l \in 1..Len(bytes) : (k # l /\ bytes[k] # Hole) => bytes[k] # bytes[l]
  PROVE  Counts' /\ BytesOfRuns' /\ BytesOnce'
<1>1. /\ Limit \in Nat /\ at_run \in 1..Len(resolved) /\ rstep = "read" /\ Available(Run) \in Nat
      /\ remaining \in Nat /\ Len(data) \in Nat /\ data \in Seq(Elem) /\ Len(resolved) \in Nat
  BY RunFacts, LenProperties DEF RunTypes
<1>2. /\ Limit' = Limit /\ Overlaps' = Overlaps
      /\ \A h : HaveSums(h)' <=> HaveSums(h)
      /\ \A i, b : InRun(i, b)' <=> InRun(i, b)
  BY SameLists
<1>3. data' = data \o bytes /\ remaining' = remaining - Len(bytes)
  BY DEF Took
<1> DEFINE m == Len(data)
           t == Len(bytes)
<1>4. m \in Nat /\ t \in Nat
  BY <1>1, LenProperties
<1>5. /\ Len(data') = m + t /\ DOMAIN data' = 1..(m + t) /\ DOMAIN data = 1..m
      /\ \A k \in 1..m : data'[k] = data[k]
      /\ \A k \in m + 1..m + t : data'[k] = bytes[k - m]
  <2>1. /\ data \o bytes \in Seq(Elem) /\ Len(data \o bytes) = Len(data) + Len(bytes)
        /\ \A k \in 1..Len(data) : (data \o bytes)[k] = data[k]
        /\ \A k \in Len(data) + 1..Len(data) + Len(bytes) : (data \o bytes)[k] = bytes[k - Len(data)]
    BY <1>1, Joined2
  <2>2. DOMAIN (data \o bytes) = 1..Len(data \o bytes) /\ DOMAIN data = 1..Len(data)
    BY <1>1, <2>1, LenProperties
  <2> QED BY <1>3, <2>1, <2>2
<1>6. Counts'
  <2>1. ASSUME NEW h, HaveSums(h)
        PROVE  Len(data') + remaining' = Limit /\ remaining' = Greater(0, Limit - h[at_run])
    <3>1. m + remaining = Limit /\ remaining = Greater(0, Limit - h[at_run - 1])
      BY <1>1, <2>1 DEF Counts
    <3>2. h[at_run] = h[at_run - 1] + Available(Run) /\ h[at_run - 1] \in Nat
      <4>1. at_run - 1 \in 0..Len(resolved)
        BY <1>1
      <4> QED BY <1>1, <2>1, <4>1 DEF HaveSums, SumsTo, Run
    <3>3. t = Lesser(Available(Run), remaining)
      OBVIOUS
    <3>4. remaining - t = Greater(0, Limit - h[at_run])
      <4>1. PICK x : x = h[at_run - 1]
        OBVIOUS
      <4>2. PICK a : a = Available(Run)
        OBVIOUS
      <4>3. PICK L : L = Limit
        OBVIOUS
      <4>4. x \in Nat /\ a \in Nat /\ L \in Nat /\ remaining \in Nat /\ remaining = Greater(0, L - x)
        BY <1>1, <3>1, <3>2, <4>1, <4>2, <4>3
      <4>5. remaining - Lesser(a, remaining) = Greater(0, L - (x + a))
        BY <4>4 DEF Lesser, Greater
      <4>6. t = Lesser(a, remaining) /\ L - (x + a) = Limit - h[at_run]
        BY <3>2, <3>3, <4>1, <4>2, <4>3
      <4> QED BY <4>5, <4>6
    <3> HIDE DEF m, t
    <3>5. Len(data') + remaining' = Limit
      <4>1. Len(data') = m + t /\ remaining' = remaining - t /\ m + remaining = Limit
        BY <1>3, <1>5, <3>1 DEF t
      <4> QED BY <1>1, <1>4, <4>1
    <3> QED BY <1>3, <3>4, <3>5 DEF t
  <2>2. at_run' - 1 = at_run /\ rstep' # "done"
    BY <1>1
  <2> QED BY <1>2, <2>1, <2>2 DEF Counts
<1>7. \A p \in 1..m : data[p] # Hole => \E i \in 1..(at_run - 1) : InRun(i, data[p])
  BY <1>5 DEF BytesOfRuns
<1>8. \A p \in m + 1..m + t : p - m \in 1..t
  BY <1>4
<1>9. \A p \in DOMAIN data' : p \in 1..m \/ p \in m + 1..m + t
  BY <1>4, <1>5
<1>10. at_run' - 1 = at_run /\ \A i \in 1..(at_run - 1) : i \in 1..at_run
  BY <1>1
<1>11. at_run \in 1..at_run
  BY <1>1
<1>12. BytesOfRuns'
  <2>1. ASSUME NEW p \in DOMAIN data', data'[p] # Hole PROVE \E i \in 1..at_run : InRun(i, data'[p])
    <3>1. CASE p \in 1..m
      BY <1>5, <1>7, <1>10, <2>1, <3>1
    <3>2. CASE p \in m + 1..m + t
      BY <1>5, <1>8, <1>11, <2>1, <3>2
    <3> QED BY <1>9, <3>1, <3>2
  <2> QED BY <1>2, <1>10, <2>1 DEF BytesOfRuns
<1>13. ASSUME ~Overlaps, NEW p \in 1..m, NEW q \in m + 1..m + t, data'[p] # Hole PROVE data'[p] # data'[q]
  <2>1. SUFFICES ASSUME data'[p] = data'[q] PROVE FALSE
    OBVIOUS
  <2>2. PICK i \in 1..(at_run - 1) : InRun(i, data'[p])
    BY <1>5, <1>7, <1>13
  <2>3. InRun(at_run, data'[p])
    BY <1>5, <1>8, <1>13, <2>1
  <2>4. data'[p] \in Nat
    <3>1. data[p] \in Elem
      BY <1>1, ElementOfSeq
    <3> QED BY <1>5, <1>13, <3>1 DEF Elem
  <2>5. i \in 1..Len(resolved) /\ i < at_run
    BY <1>1
  <2> QED BY <1>1, <1>13, <2>2, <2>3, <2>4, <2>5, RunsApart
<1>14. BytesOnce'
  <2>1. ASSUME ~Overlaps, NEW p \in DOMAIN data', NEW q \in DOMAIN data', p # q, data'[p] # Hole
        PROVE  data'[p] # data'[q]
    <3>1. CASE p \in 1..m /\ q \in 1..m
      BY <1>5, <2>1, <3>1 DEF BytesOnce
    <3>2. CASE p \in 1..m /\ q \in m + 1..m + t
      BY <1>13, <2>1, <3>2
    <3>3. CASE p \in m + 1..m + t /\ q \in 1..m
      BY <1>13, <2>1, <3>3
    <3>4. CASE p \in m + 1..m + t /\ q \in m + 1..m + t
      <4>1. p - m \in 1..t /\ q - m \in 1..t /\ p - m # q - m
        BY <1>4, <2>1, <3>4
      <4> QED BY <1>5, <2>1, <3>4, <4>1
    <3> QED BY <1>9, <3>1, <3>2, <3>3, <3>4
  <2> QED BY <1>2, <2>1 DEF BytesOnce
<1> QED BY <1>6, <1>12, <1>14

\* A run of the whole file is taken as far as the image has it.
LEMMA ReadingRight ==
  ASSUME RunTypes, Counts, BytesOfRuns, BytesOnce, FillHole \/ ReadRun \/ SkipBefore
  PROVE  Counts' /\ BytesOfRuns' /\ BytesOnce'
<1>1. Reading /\ Rereads /\ at_run' = at_run + 1 /\ rstep' = "read"
  <2>1. Reading /\ Rereads /\ at_run' = at_run + 1 /\ rstep' = rstep
    BY DEF FillHole, ReadRun, SkipBefore, Rereads
  <2> QED BY <2>1, RunFacts
<1>2. /\ Run \in DataRun /\ Wanted \in Nat /\ remaining \in Nat /\ data \in Seq(Elem)
      /\ RunBytes(Run) \in Nat /\ at_run \in 1..Len(resolved)
  BY <1>1, RunFacts
<1>3. attr \in Attributes /\ attr.image \in Nat
  BY RunAssumption DEF RunTypes
<1>4. CASE FillHole
  <2>1. Holes(Wanted) \in Seq(Elem) /\ Len(Holes(Wanted)) = Wanted /\ \A k \in 1..Wanted : Holes(Wanted)[k] = Hole
    BY <1>2, HolesType
  <2>2. Wanted = Lesser(Available(Run), remaining)
    BY <1>4 DEF FillHole, Available, Wanted
  <2>3. Took(Holes(Wanted))
    BY <1>4 DEF FillHole
  <2> QED BY <1>1, <2>1, <2>2, <2>3, TakenRight
<1>5. CASE ReadRun
  <2> DEFINE o == Run.lcn * RunClusterSize
             bytes == ImageBytes(o, Wanted)
  <2>1. o \in Nat /\ ~Run.sparse /\ ~(Run.lcn < 0)
    <3>1. Run.lcn >= 0 /\ ~Run.sparse
      BY <1>5 DEF ReadRun
    <3>2. o \in Int /\ o >= 0 /\ Run.lcn \in Int
      BY <1>2, <1>3, <3>1, AvailableType DEF DataRun
    <3> QED BY <3>1, <3>2
  <2>2. Available(Run) = Lesser(RunBytes(Run), Greater(0, attr.image - o))
    BY <2>1 DEF Available
  <2>3. Took(bytes)
    BY <1>5 DEF ReadRun
  <2>4. \A b \in Nat : o <= b /\ b < o + RunBytes(Run) => InRun(at_run, b)
    BY <2>1 DEF InRun, Run
  <2> HIDE DEF o
  <2>5. /\ bytes \in Seq(Elem) /\ Len(bytes) = Lesser(Wanted, Greater(0, attr.image - o))
        /\ \A k \in 1..Len(bytes) : bytes[k] = o + k - 1
    BY <1>2, <1>3, <2>1, ImageType
  <2> HIDE DEF bytes
  <2>6. PICK g : g = Greater(0, attr.image - o) /\ g \in Nat
    <3>1. Greater(0, attr.image - o) \in Nat
      BY <1>3, <2>1 DEF Greater
    <3> QED BY <3>1
  <2>7. PICK w : w = RunBytes(Run) /\ w \in Nat
    BY <1>2
  <2>8. Wanted = Lesser(w, remaining) /\ Available(Run) = Lesser(w, g) /\ Len(bytes) = Lesser(Wanted, g)
    BY <2>2, <2>5, <2>6, <2>7 DEF Wanted
  <2>9. Len(bytes) = Lesser(Available(Run), remaining) /\ Len(bytes) <= w
    <3>1. \A x, y, z \in Nat : Lesser(Lesser(x, y), z) = Lesser(Lesser(x, z), y) /\ Lesser(Lesser(x, y), z) <= x
      BY DEF Lesser
    <3> QED BY <1>2, <2>6, <2>7, <2>8, <3>1
  <2>10. ASSUME NEW k \in 1..Len(bytes) PROVE bytes[k] \in Nat /\ InRun(at_run, bytes[k])
    <3>1. Len(bytes) \in Nat
      BY <2>5, LenProperties
    <3>2. o + k - 1 \in Nat /\ o <= o + k - 1 /\ o + k - 1 < o + w
      BY <2>1, <2>7, <2>9, <3>1
    <3> QED BY <2>4, <2>5, <2>7, <3>2
  <2>11. ASSUME NEW k \in 1..Len(bytes), NEW l \in 1..Len(bytes), k # l PROVE bytes[k] # bytes[l]
    <3>1. bytes[k] = o + k - 1 /\ bytes[l] = o + l - 1
      BY <2>5
    <3> QED BY <2>1, <2>11, <3>1
  <2> QED BY <1>1, <2>3, <2>5, <2>9, <2>10, <2>11, TakenRight
<1>6. CASE SkipBefore
  <2>1. <<>> \in Seq(Elem) /\ Len(<<>>) = 0 /\ data \o <<>> = data
    <3>1. <<>> \in Seq(Elem) /\ Len(<<>>) = 0
      BY EmptySeq
    <3>2. data \o <<>> = data
      BY <1>2, ConcatEmptySeq
    <3> QED BY <3>1, <3>2
  <2>2. Available(Run) = 0
    BY <1>6 DEF SkipBefore, Available
  <2>3. Len(<<>>) = Lesser(Available(Run), remaining)
    BY <1>2, <2>1, <2>2 DEF Lesser
  <2>4. Took(<<>>)
    <3>1. remaining' = remaining /\ data' = data
      BY <1>6 DEF SkipBefore
    <3> QED BY <1>2, <2>1, <3>1 DEF Took
  <2>5. ~(\E k \in 1..Len(<<>>) : TRUE)
    BY <2>1
  <2> QED BY <1>1, <2>1, <2>3, <2>4, <2>5, TakenRight
<1> QED BY <1>4, <1>5, <1>6

\* The whole file is what was read, cut to its size; after an error there is none.
LEMMA EndRight ==
  ASSUME RunTypes, attr.reader = "all", Counts, BytesOfRuns, BytesOnce, SeekFails \/ RunEnd
  PROVE  Counts' /\ BytesOfRuns' /\ BytesOnce'
<1>1. /\ Rereads /\ rstep = "read" /\ UNCHANGED <<at_run, pos, remaining>>
  BY DEF SeekFails, RunEnd, Reading, Rereads
<1>2. /\ Limit' = Limit /\ Overlaps' = Overlaps /\ attr' = attr /\ resolved' = resolved
      /\ \A h : HaveSums(h)' <=> HaveSums(h)
      /\ \A i, b : InRun(i, b)' <=> InRun(i, b)
  BY <1>1, SameLists
<1>3. /\ attr \in Attributes /\ Len(resolved) \in Nat /\ at_run \in 1..Len(resolved) + 1 /\ Len(data) \in Nat
      /\ data \in Seq(Elem) /\ remaining \in 0..Limit /\ attr.real_size \in Nat /\ Limit \in Nat
      /\ DOMAIN data = 1..Len(data) /\ DOMAIN resolved = 1..Len(resolved)
  BY LenProperties, RunAssumption DEF RunTypes, Limit
<1>4. CASE SeekFails
  <2>1. data' = <<>> /\ rstep' = "error"
    BY <1>4 DEF SeekFails
  <2>2. DOMAIN data' = {} /\ ~(rstep' \in {"read", "done"})
    BY <2>1
  <2> QED BY <2>2 DEF Counts, BytesOfRuns, BytesOnce
<1>5. CASE RunEnd
  <2> DEFINE m == Lesser(Len(data), attr.real_size)
  <2>1. m \in Nat /\ m <= Len(data)
    BY <1>3 DEF Lesser
  <2>2. data' = SubSeq(data, 1, m) /\ rstep' = "done" /\ (remaining <= 0 \/ at_run \notin DOMAIN resolved)
    BY <1>5 DEF RunEnd
  <2>3. m = Lesser(Len(data), attr.real_size)
    OBVIOUS
  <2> HIDE DEF m
  <2>4. \A i \in 1..m : i \in 1..Len(data) /\ data[i] \in Elem
    <3>1. \A i \in 1..m : i \in 1..Len(data)
      BY <1>3, <2>1
    <3> QED BY <1>3, <3>1, ElementOfSeq
  <2>5. Len(data') = m /\ DOMAIN data' = 1..m /\ \A i \in 1..m : data'[i] = data[i]
    <3>1. SubSeq(data, 1, m) \in Seq(Elem) /\ Len(SubSeq(data, 1, m)) = m
          /\ \A i \in 1..m : SubSeq(data, 1, m)[i] = data[i]
      BY <1>3, <2>1, <2>4, SubSeqProperties
    <3> QED BY <2>2, <3>1, LenProperties
  <2>6. BytesOfRuns'
    <3>1. \A p \in DOMAIN data' : p \in DOMAIN data /\ data'[p] = data[p]
      BY <1>3, <2>4, <2>5
    <3> QED BY <1>1, <1>2, <3>1 DEF BytesOfRuns
  <2>7. BytesOnce'
    <3>1. \A p \in DOMAIN data' : p \in DOMAIN data /\ data'[p] = data[p]
      BY <1>3, <2>4, <2>5
    <3> QED BY <1>2, <3>1 DEF BytesOnce
  <2>8. ASSUME NEW h, HaveSums(h) PROVE Len(data) = Lesser(Limit, h[Len(resolved)])
    <3> DEFINE n == Len(resolved)
               f == [i \in 1..n |-> Available(resolved[i])]
    <3>1. Len(data) + remaining = Limit /\ remaining = Greater(0, Limit - h[at_run - 1])
      BY <1>1, <2>8 DEF Counts
    <3>2. f \in [1..n -> Nat] /\ SumsTo(h, n, f)
      <4>1. \A i \in 1..n : Available(resolved[i]) \in Nat
        <5>1. \A i \in 1..n : resolved[i] \in DataRun
          BY ElementOfSeq DEF RunTypes
        <5> QED BY <1>3, <5>1, AvailableType
      <4> QED BY <2>8, <4>1 DEF HaveSums
    <3> HIDE DEF f
    <3>3. n \in 0..n /\ at_run - 1 \in 0..n /\ n \in Nat
      BY <1>3
    <3>4. h[at_run - 1] <= h[n]
      BY <3>2, <3>3, SumsGrow
    <3>5. h[at_run - 1] \in Nat /\ h[n] \in Nat
      BY <3>2, <3>3 DEF SumsTo
    <3>6. remaining = 0 \/ at_run - 1 = n
      BY <1>3, <2>2
    <3> HIDE DEF n
    <3>7. PICK x : x = h[at_run - 1]
      OBVIOUS
    <3>8. PICK y : y = h[n]
      OBVIOUS
    <3>9. PICK L : L = Limit
      OBVIOUS
    <3>10. PICK d : d = Len(data)
      OBVIOUS
    <3>11. /\ x \in Nat /\ y \in Nat /\ L \in Nat /\ d \in Nat /\ remaining \in Nat
           /\ d + remaining = L /\ remaining = Greater(0, L - x) /\ x <= y
           /\ remaining = 0 \/ x = y
      BY <1>3, <3>1, <3>4, <3>5, <3>6, <3>7, <3>8, <3>9, <3>10
    <3>12. d = Lesser(L, y)
      BY <3>11 DEF Lesser, Greater
    <3> QED BY <3>8, <3>9, <3>10, <3>12 DEF n
  <2>9. Counts'
    <3>1. ASSUME NEW h, HaveSums(h)
          PROVE  Len(data') = Lesser(Lesser(Limit, h[Len(resolved)]), attr.real_size)
      <4>1. Len(data) = Lesser(Limit, h[Len(resolved)])
        BY <2>8, <3>1
      <4> QED BY <2>3, <2>5, <4>1
    <3> QED BY <1>2, <2>2, <3>1 DEF Counts
  <2> QED BY <2>6, <2>7, <2>9
<1> QED BY <1>4, <1>5

\* The run whose seek fails makes the list an error.
LEMMA FailsRight ==
  ASSUME RunTypes, SeekFails
  PROVE  HasErrors'
<1>1. Reading /\ Rereads /\ ~Run.sparse /\ Run.lcn * RunClusterSize + pos < 0
  BY DEF SeekFails, Rereads
<1>2. Run \in DataRun /\ at_run \in DOMAIN resolved /\ attr \in Attributes /\ pos \in Nat
  BY <1>1, RunFacts DEF RunTypes, Reading
<1>3. Run.lcn \in Int /\ Run.count \in Nat /\ Run.lcn * RunClusterSize \in Int
      /\ (Run.lcn >= 0 => Run.lcn * RunClusterSize >= 0)
  BY <1>2, AvailableType DEF DataRun
<1>4. Run.lcn < 0
  BY <1>1, <1>2, <1>3
<1>5. HasErrors
  <2>1. CASE Run.count = 0
    BY <1>2, <2>1 DEF HasErrors, Run
  <2>2. CASE Run.count # 0
    <3>1. at_run \in Allocated
      BY <1>1, <1>2, <1>3, <2>2 DEF Allocated, Run
    <3> QED BY <1>4, <3>1 DEF HasErrors, Run
  <2> QED BY <2>1, <2>2
<1>6. HasErrors' = HasErrors
  BY <1>1 DEF HasErrors, Overlaps, Allocated, LastVcn, Rereads
<1> QED BY <1>5, <1>6

\* Parsing starts with nothing read.
LEMMA ResolveKeeps == RunInv /\ Resolve => RunInv'
<1> SUFFICES ASSUME RunInv, Resolve PROVE RunInv'
  OBVIOUS
<1>1. /\ RunTypes' /\ data' = <<>> /\ at_run' = 1 /\ remaining' = Limit /\ rstep' = "read" /\ attr' = attr
  BY ResolveTypes DEF RunInv
<1>2. Limit' = Limit
  BY <1>1 DEF Limit
<1>3. DOMAIN data' = {} /\ Len(data') = 0
  BY <1>1
<1>4. Limit \in Nat
  BY RunAssumption DEF RunInv, RunTypes, Limit
<1>5. ASSUME NEW h PROVE HaveSums(h)' => h[0] = 0
  BY DEF HaveSums, SumsTo
<1>6. Counts'
  <2>1. Len(data') + remaining' = Limit' /\ at_run' - 1 = 0 /\ Limit' - 0 = remaining' /\ Limit' \in Nat
    BY <1>1, <1>2, <1>3, <1>4
  <2>2. remaining' = Greater(0, Limit' - 0)
    <3>1. \A L \in Nat : L = Greater(0, L - 0)
      BY DEF Greater
    <3> QED BY <2>1, <3>1
  <2> QED BY <1>1, <1>5, <2>1, <2>2 DEF Counts
<1>7. FailsKnown' /\ BytesOfRuns' /\ BytesOnce'
  BY <1>1, <1>3 DEF FailsKnown, BytesOfRuns, BytesOnce
<1> QED BY <1>1, <1>6, <1>7 DEF RunInv

\* Every step of reading keeps the invariant.
LEMMA RunSteps == RunInv /\ [RunNext]_runVars => RunInv'
<1> SUFFICES ASSUME RunInv, [RunNext]_runVars PROVE RunInv'
  OBVIOUS
<1>1. RunTypes /\ FailsKnown /\ (attr.reader = "all" => Counts /\ BytesOfRuns /\ BytesOnce)
  BY DEF RunInv
<1>2. CASE Resolve
  BY <1>2, ResolveKeeps
<1>3. CASE FillHole \/ ReadRun \/ SkipBefore
  <2>1. attr' = attr /\ rstep' # "error"
    BY <1>3 DEF FillHole, ReadRun, SkipBefore, Reading
  <2> QED BY <1>1, <1>3, <2>1, ReadingTypes, ReadingRight DEF RunInv, FailsKnown
<1>4. CASE ReadChunk \/ ChunksOver
  <2>1. attr' = attr /\ rstep' # "error" /\ attr.reader # "all"
    BY <1>4 DEF ReadChunk, ChunksOver, Reading
  <2> QED BY <1>1, <1>4, <2>1, ChunkTypes DEF RunInv, FailsKnown
<1>5. CASE SeekFails \/ RunEnd
  <2>1. attr' = attr
    BY <1>5 DEF SeekFails, RunEnd
  <2>2. FailsKnown'
    <3>1. RunEnd => rstep' # "error"
      BY DEF RunEnd
    <3> QED BY <1>1, <1>5, <3>1, FailsRight DEF FailsKnown
  <2> QED BY <1>1, <1>5, <2>1, <2>2, EndTypes, EndRight DEF RunInv
<1>6. CASE UNCHANGED runVars
  <2>1. UNCHANGED <<attr, rstep, data_runs, resolved, at_run, pos, remaining, data>>
    BY <1>6 DEF runVars
  <2>2. Rereads
    BY <2>1 DEF Rereads
  <2>3. RunTypes'
    BY <1>1, <2>1 DEF RunTypes, Limit, Run, Wanted, RunBytes
  <2>4. FailsKnown' = FailsKnown
    BY <2>1 DEF FailsKnown, HasErrors, Overlaps, Allocated, LastVcn
  <2>5. Counts' <=> Counts
    BY <2>1, <2>2, SameLists DEF Counts
  <2>6. BytesOfRuns' <=> BytesOfRuns
    BY <2>1, <2>2, SameLists DEF BytesOfRuns
  <2>7. BytesOnce' <=> BytesOnce
    BY <2>1, <2>2, SameLists DEF BytesOnce
  <2> QED BY <1>1, <2>1, <2>3, <2>4, <2>5, <2>6, <2>7 DEF RunInv
<1> QED BY <1>2, <1>3, <1>4, <1>5, <1>6 DEF RunNext

\* What the estimate adds up.
LEMMA EstimateSums ==
  ASSUME RunTypes
  PROVE  \E A, B \in Nat :
           /\ A <= B /\ Total(Available) = A /\ Total(RunBytes) = B
           /\ \E h : HaveSums(h) /\ h[Len(resolved)] = A
<1> DEFINE n == Len(resolved)
           f == [i \in 1..n |-> Available(resolved[i])]
           e == [i \in 1..n |-> RunBytes(resolved[i])]
<1>1. n \in Nat /\ attr \in Attributes /\ resolved \in Seq(DataRun) /\ \A i \in 1..n : resolved[i] \in DataRun
  BY LenProperties, ElementOfSeq DEF RunTypes
<1>2. PICK h : HaveSums(h) /\ Total(Available) = h[n]
  BY <1>1, Totals
<1>3. PICK k : SizeSums(k) /\ Total(RunBytes) = k[n]
  BY <1>1, Totals
<1>4. \A i \in 1..n : Available(resolved[i]) \in Nat /\ RunBytes(resolved[i]) \in Nat
                      /\ Available(resolved[i]) <= RunBytes(resolved[i])
  BY <1>1, AvailableType
<1>5. f \in [1..n -> Nat] /\ e \in [1..n -> Nat] /\ \A i \in 1..n : f[i] <= e[i]
  BY <1>4
<1>6. SumsTo(h, n, f) /\ SumsTo(k, n, e)
  BY <1>2, <1>3 DEF HaveSums, SizeSums
<1> HIDE DEF f, e
<1>7. h[n] <= k[n] /\ h[n] \in Nat /\ k[n] \in Nat
  BY <1>1, <1>5, <1>6, SumsLess
<1> QED BY <1>2, <1>3, <1>7

\* The estimate and the classification agree with what is read.
LEMMA InvClassifies ==
  ASSUME RunInv
  PROVE  EstimateIsExact /\ RecoverableIsWhole
<1>1. RunTypes /\ FailsKnown /\ (attr.reader = "all" => Counts /\ BytesOfRuns /\ BytesOnce)
  BY DEF RunInv
<1>2. PICK A \in Nat, B \in Nat :
        /\ A <= B /\ Total(Available) = A /\ Total(RunBytes) = B
        /\ \E h : HaveSums(h) /\ h[Len(resolved)] = A
  BY <1>1, EstimateSums
<1>3. PICK R : R = attr.real_size /\ R \in Nat
  BY <1>1, RunAssumption DEF RunTypes
<1>4. Recoverable = Lesser(A, Lesser(R, B)) /\ Lost = B - A
  BY <1>2, <1>3 DEF Recoverable, Lost
<1>5. Finished => Len(data) = Lesser(Lesser(R, A), R)
  <2>1. Finished => Limit = R /\ rstep = "done" /\ attr.reader = "all"
    <3>1. attr.max_bytes = 0 => ~(attr.max_bytes > 0)
      OBVIOUS
    <3> QED BY <1>3, <3>1 DEF Finished, Limit
  <2> QED BY <1>1, <1>2, <1>3, <2>1 DEF Counts
<1>6. Lesser(Lesser(R, A), R) = Lesser(A, Lesser(R, B)) /\ Lesser(A, Lesser(R, B)) \in Nat
  BY <1>2, <1>3 DEF Lesser
<1>7. EstimateIsExact
  BY <1>4, <1>5, <1>6 DEF EstimateIsExact
<1>8. RecoverableIsWhole
  <2>1. SUFFICES ASSUME rstep \in {"done", "error"}, Classification = "recoverable"
                 PROVE  /\ rstep = "done"
                        /\ Finished =>
                             /\ Len(data) = Lesser(attr.real_size, Total(RunBytes))
                             /\ \A p, q \in DOMAIN data : (p # q /\ data[p] # Hole) => data[p] # data[q]
    BY DEF RecoverableIsWhole
  <2>2. ~HasErrors /\ ~(Lost > 0 /\ Recoverable > 0) /\ Recoverable # 0
    BY <2>1 DEF Classification
  <2>3. Recoverable \in Nat /\ Lost = B - A
    BY <1>4, <1>6
  <2>4. A = B
    BY <1>2, <2>2, <2>3
  <2>5. Finished => Len(data) = Lesser(attr.real_size, Total(RunBytes))
    <3>1. Lesser(Lesser(R, A), R) = Lesser(R, A)
      BY <1>2, <1>3 DEF Lesser
    <3> QED BY <1>2, <1>3, <1>5, <2>4, <3>1
  <2>6. ~Overlaps
    BY <2>2 DEF HasErrors
  <2>7. Finished => \A p, q \in DOMAIN data : (p # q /\ data[p] # Hole) => data[p] # data[q]
    BY <1>1, <2>6 DEF BytesOnce, Finished
  <2>8. rstep = "done"
    BY <1>1, <2>1, <2>2 DEF FailsKnown
  <2> QED BY <2>5, <2>7, <2>8
<1> QED BY <1>7, <1>8

\* Two ranges of clusters share one just where their ends say so.
LEMMA InvDetects ==
  ASSUME RunInv
  PROVE  DetectorsAgree
<1>1. \A i \in DOMAIN resolved : resolved[i] \in DataRun
  <2>1. resolved \in Seq(DataRun)
    BY DEF RunInv, RunTypes
  <2> QED BY <2>1
<1>2. ASSUME NEW x \in Int, NEW m \in Nat, NEW y \in Int, NEW n \in Nat, m > 0, n > 0
      PROVE  (x..(x + m - 1)) \cap (y..(y + n - 1)) # {} <=> (y <= x + m - 1 /\ y + n - 1 >= x)
  <2>1. ASSUME y <= x + m - 1, y + n - 1 >= x PROVE (x..(x + m - 1)) \cap (y..(y + n - 1)) # {}
    <3>1. CASE x <= y
      <4>1. y \in x..(x + m - 1) /\ y \in y..(y + n - 1)
        BY <1>2, <2>1, <3>1
      <4> QED BY <4>1
    <3>2. CASE ~(x <= y)
      <4>1. x \in x..(x + m - 1) /\ x \in y..(y + n - 1)
        BY <1>2, <2>1, <3>2
      <4> QED BY <4>1
    <3> QED BY <3>1, <3>2
  <2>2. ASSUME NEW z \in Int, z \in x..(x + m - 1), z \in y..(y + n - 1)
        PROVE  y <= x + m - 1 /\ y + n - 1 >= x
    BY <2>2
  <2>3. \A z \in (x..(x + m - 1)) \cap (y..(y + n - 1)) : z \in Int
    OBVIOUS
  <2> QED BY <2>1, <2>2, <2>3
<1>3. ASSUME NEW i \in Allocated, NEW j \in Allocated
      PROVE  Clusters(resolved[i]) \cap Clusters(resolved[j]) # {}
               <=> /\ resolved[j].lcn <= resolved[i].lcn + resolved[i].count - 1
                   /\ resolved[j].lcn + resolved[j].count - 1 >= resolved[i].lcn
  <2>1. /\ resolved[i].lcn \in Int /\ resolved[i].count \in Nat /\ resolved[i].count > 0
        /\ resolved[j].lcn \in Int /\ resolved[j].count \in Nat /\ resolved[j].count > 0
    BY <1>1 DEF Allocated, DataRun
  <2> QED BY <1>2, <2>1 DEF Clusters
<1>4. ASSUME \A i \in Allocated : resolved[i].lcn >= 0 PROVE {k \in Allocated : resolved[k].lcn >= 0} = Allocated
  BY <1>4
<1>5. (\A i \in Allocated : resolved[i].lcn >= 0) => (Circular <=> Overlaps)
  <2>1. SUFFICES ASSUME \A i \in Allocated : resolved[i].lcn >= 0 PROVE Circular <=> Overlaps
    OBVIOUS
  <2>2. Circular <=> \E i, j \in Allocated : i < j /\ Clusters(resolved[i]) \cap Clusters(resolved[j]) # {}
    BY <1>4, <2>1 DEF Circular
  <2> HIDE DEF Allocated
  <2> QED BY <1>3, <2>2 DEF Overlaps
<1> QED BY <1>5 DEF DetectorsAgree

\* What is said of a file before it is read agrees with reading it.
THEOREM RunsClassified == RunSpec => []ClassifiedRight
<1>1. RunSpec => []RunInv
  BY RunStarts, RunSteps, PTL DEF RunSpec
<1>2. RunInv => ClassifiedRight
  BY InvClassifies, InvDetects DEF ClassifiedRight
<1> QED BY <1>1, <1>2, PTL

-----------------------------------------------------------------------------
(* Part 7: the bytes of a run list.                                         *)

\* What a field of some width holds is read back from it.
LEMMA FieldRight ==
  ASSUME NEW w \in Nat, NEW v \in Int, NEW u \in 0..(Numbers[w] - 1),
         u = IF v < 0 THEN v + Numbers[w] ELSE v
  PROVE  Field(v, w) \in Seq(Byte8) /\ Len(Field(v, w)) = w /\ LittleEndian(Field(v, w)) = u
<1> DEFINE f == Field(v, w)
<1>1. /\ \A n \in Nat : Numbers[n] \in Nat \ {0}
      /\ \A n \in Nat \ {0} : Numbers[n] = 256 * Numbers[n - 1]
      /\ Numbers[0] = 1
  BY NumbersGrow
<1>2. u \in Nat /\ u < Numbers[w]
  BY <1>1
<1>3. f = [i \in 1..w |-> (u \div Numbers[i - 1]) % 256]
  BY DEF Field
<1>4. \A i \in 1..w : u \div Numbers[i - 1] \in Nat /\ (u \div Numbers[i - 1]) % 256 \in 0..255
  <2> SUFFICES ASSUME NEW i \in 1..w PROVE u \div Numbers[i - 1] \in Nat /\ (u \div Numbers[i - 1]) % 256 \in 0..255
    OBVIOUS
  <2>1. i - 1 \in Nat
    OBVIOUS
  <2>2. PICK m \in Nat \ {0} : m = Numbers[i - 1]
    BY <1>1, <2>1
  <2>3. u \div m \in Nat
    BY <1>2
  <2>4. (u \div m) % 256 \in 0..255
    BY <2>3
  <2> QED BY <2>2, <2>3, <2>4
<1>5. f \in Seq(Byte8) /\ Len(f) = w /\ \A i \in 1..w : f[i] = (u \div Numbers[i - 1]) % 256
  <2>1. \A i \in 1..w : (u \div Numbers[i - 1]) % 256 \in Byte8
    BY <1>4 DEF Byte8
  <2> HIDE DEF f
  <2> QED BY <1>3, <2>1
<1> HIDE DEF f
<1>6. PICK h : Horner(h, f) /\ LittleEndian(f) = h[1]
  BY <1>5, LittleEndianUnfolds
<1>7. h[w + 1] = 0 /\ \A i \in 1..w : h[i] = f[i] + 256 * h[i + 1]
  BY <1>5, <1>6 DEF Horner
<1> DEFINE P == {i \in 0..w : h[w - i + 1] = u \div Numbers[w - i]}
<1>8. 0 \in P
  <2>1. w - 0 + 1 = w + 1 /\ w - 0 = w /\ 0 \in 0..w
    OBVIOUS
  <2>2. PICK m \in Nat \ {0} : m = Numbers[w] /\ u < m
    BY <1>1, <1>2
  <2>3. u \div m = 0
    BY <1>2, <2>2
  <2> QED BY <1>7, <2>1, <2>2, <2>3
<1>9. ASSUME NEW i \in 1..w, i - 1 \in P PROVE i \in P
  <2>1. PICK j \in 1..w : j = w - i + 1
    OBVIOUS
  <2>2. w - (i - 1) + 1 = j + 1 /\ w - (i - 1) = j /\ w - i = j - 1 /\ i \in 0..w /\ j - 1 \in Nat /\ j \in Nat \ {0}
    BY <2>1
  <2>3. h[j + 1] = u \div Numbers[j]
    BY <1>9, <2>2
  <2>4. PICK m \in Nat \ {0} : m = Numbers[j - 1]
    BY <1>1, <2>2
  <2>5. Numbers[j] = 256 * m
    BY <1>1, <2>2, <2>4
  <2>6. u \div (256 * m) = (u \div m) \div 256
    BY <1>2
  <2>7. PICK q \in Nat : q = u \div m
    BY <1>2
  <2>8. h[j] = (q % 256) + 256 * (q \div 256)
    BY <1>5, <1>7, <2>3, <2>4, <2>5, <2>6, <2>7
  <2>9. (q % 256) + 256 * (q \div 256) = q
    OBVIOUS
  <2> QED BY <2>1, <2>2, <2>4, <2>7, <2>8, <2>9
<1> HIDE DEF P
<1>10. w \in P
  <2>1. w \in 0..w
    OBVIOUS
  <2> QED BY <1>8, <1>9, <2>1, UpTo
<1>11. h[1] = u \div 1
  <2>1. w - w + 1 = 1 /\ w - w = 0
    OBVIOUS
  <2> QED BY <1>1, <1>10, <2>1 DEF P
<1>12. u \div 1 = u
  BY <1>2
<1> QED BY <1>5, <1>6, <1>11, <1>12 DEF f

\* And so is a number with a sign.
LEMMA SignedRight ==
  ASSUME NEW w \in Nat \ {0}, NEW v \in Int, v \in -(Numbers[w] \div 2)..(Numbers[w] \div 2 - 1)
  PROVE  Field(v, w) \in Seq(Byte8) /\ Len(Field(v, w)) = w /\ Signed(Field(v, w)) = v
<1> DEFINE f == Field(v, w)
           u == IF v < 0 THEN v + Numbers[w] ELSE v
<1>1. PICK m \in Nat \ {0} : Numbers[w] = 256 * m
  <2>1. w - 1 \in Nat
    OBVIOUS
  <2> QED BY <2>1, NumbersGrow
<1>2. Numbers[w] \div 2 = 128 * m
  BY <1>1
<1>3. u \in 0..(Numbers[w] - 1)
  BY <1>1, <1>2
<1>4. f \in Seq(Byte8) /\ Len(f) = w /\ LittleEndian(f) = u
  <2>1. w \in Nat /\ u = IF v < 0 THEN v + Numbers[w] ELSE v
    OBVIOUS
  <2> HIDE DEF u
  <2> QED BY <1>3, <2>1, FieldRight
<1> HIDE DEF f
<1>5. Signed(f) = IF u >= Numbers[w] \div 2 THEN u - Numbers[w] ELSE u
  BY <1>4 DEF Signed
<1>6. Signed(f) = v
  BY <1>1, <1>2, <1>5
<1> QED BY <1>4, <1>6 DEF f

\* A run whose fields have room, and the bytes of its entry.
HasRoom(run, w) ==
  /\ run \in ParsedRun /\ run.count < Numbers[w]
  /\ run.offset \in -(Numbers[w] \div 2)..(Numbers[w] \div 2 - 1)
EntrySize(run, w) == IF run.sparse THEN w + 1 ELSE w + 1 + w

\* An entry begins with a header that tells both widths.
LEMMA EncodeRight ==
  ASSUME NEW w \in 1..8, NEW run, HasRoom(run, w)
  PROVE  /\ Encode(run, w) \in Seq(Byte8) /\ Len(Encode(run, w)) = EntrySize(run, w)
         /\ Encode(run, w)[1] # 0 /\ CountWidth(Encode(run, w)[1]) = w
         /\ OffsetWidth(Encode(run, w)[1]) = IF run.sparse THEN 0 ELSE w
         /\ \A i \in 1..w : Encode(run, w)[i + 1] = Field(run.count, w)[i]
         /\ ~run.sparse => \A i \in 1..w : Encode(run, w)[w + 1 + i] = Field(run.offset, w)[i]
<1>1. run.count \in Nat /\ run.count < Numbers[w] /\ run.offset \in Int /\ run.sparse \in BOOLEAN
  BY DEF HasRoom, ParsedRun
<1>2. PICK c \in Seq(Byte8) : c = Field(run.count, w) /\ Len(c) = w
  <2>1. Numbers[w] \in Nat \ {0} /\ w \in Nat
    BY NumbersGrow
  <2>2. run.count \in 0..(Numbers[w] - 1) /\ run.count = IF run.count < 0 THEN run.count + Numbers[w] ELSE run.count
    BY <1>1, <2>1
  <2> QED BY <1>1, <2>1, <2>2, FieldRight
<1>3. PICK o \in Seq(Byte8) : o = Field(run.offset, w) /\ Len(o) = w
  BY <1>1, SignedRight DEF HasRoom
<1>4. CASE run.sparse
  <2>1. Encode(run, w) = <<w>> \o c
    BY <1>2, <1>4 DEF Encode
  <2>2. <<w>> \in Seq(Byte8) /\ Len(<<w>>) = 1 /\ <<w>>[1] = w
    <3>1. w \in Byte8
      BY DEF Byte8
    <3> QED BY <3>1
  <2>3. PICK d \in Seq(Byte8) : d = <<w>> /\ Len(d) = 1 /\ d[1] = w
    BY <2>2
  <2>4. /\ d \o c \in Seq(Byte8) /\ Len(d \o c) = 1 + w /\ (d \o c)[1] = w
        /\ \A i \in 1..w : (d \o c)[1 + i] = c[i]
    <3>1. /\ d \o c \in Seq(Byte8) /\ Len(d \o c) = Len(d) + Len(c)
          /\ \A i \in 1..Len(d) : (d \o c)[i] = d[i]
          /\ \A i \in 1..Len(c) : (d \o c)[Len(d) + i] = c[i]
      BY BothParts
    <3>2. 1 \in 1..Len(d)
      BY <2>3
    <3> QED BY <1>2, <2>3, <3>1, <3>2
  <2>6. \A i \in 1..w : 1 + i = i + 1
    OBVIOUS
  <2>5. w # 0 /\ CountWidth(w) = w /\ OffsetWidth(w) = 0 /\ 1 + w = w + 1
    BY DEF CountWidth, OffsetWidth
  <2> QED BY <1>2, <1>4, <2>1, <2>3, <2>4, <2>5, <2>6 DEF EntrySize
<1>5. CASE ~run.sparse
  <2> DEFINE b == 16 * w + w
  <2>1. Encode(run, w) = <<b>> \o c \o o
    BY <1>2, <1>3, <1>5 DEF Encode
  <2>2. b \in Byte8 /\ b # 0 /\ CountWidth(b) = w /\ OffsetWidth(b) = w
    BY DEF Byte8, CountWidth, OffsetWidth
  <2> HIDE DEF b
  <2>3. <<b>> \in Seq(Byte8) /\ Len(<<b>>) = 1 /\ <<b>>[1] = b
    BY <2>2
  <2>4. PICK a \in Seq(Byte8) : a = <<b>> /\ Len(a) = 1 /\ a[1] = b
    BY <2>3
  <2>5. PICK d \in Seq(Byte8) : d = a \o c /\ Len(d) = 1 + w /\ d[1] = b /\ \A i \in 1..w : d[i + 1] = c[i]
    <3>1. /\ a \o c \in Seq(Byte8) /\ Len(a \o c) = Len(a) + Len(c)
          /\ \A i \in 1..Len(a) : (a \o c)[i] = a[i]
          /\ \A i \in 1..Len(c) : (a \o c)[Len(a) + i] = c[i]
      BY BothParts
    <3>2. 1 \in 1..Len(a) /\ \A i \in 1..w : 1 + i = i + 1
      BY <2>4
    <3>3. a \o c \in Seq(Byte8) /\ Len(a \o c) = 1 + w /\ (a \o c)[1] = b
      BY <1>2, <2>4, <3>1, <3>2
    <3>4. \A i \in 1..w : (a \o c)[i + 1] = c[i]
      <4>1. \A i \in 1..w : (a \o c)[1 + i] = c[i]
        BY <1>2, <2>4, <3>1
      <4> QED BY <3>2, <4>1
    <3> QED BY <3>3, <3>4
  <2>6. /\ d \o o \in Seq(Byte8) /\ Len(d \o o) = 1 + w + w
        /\ \A i \in 1..(1 + w) : (d \o o)[i] = d[i]
        /\ \A i \in 1..w : (d \o o)[1 + w + i] = o[i]
    <3>1. /\ d \o o \in Seq(Byte8) /\ Len(d \o o) = Len(d) + Len(o)
          /\ \A i \in 1..Len(d) : (d \o o)[i] = d[i]
          /\ \A i \in 1..Len(o) : (d \o o)[Len(d) + i] = o[i]
      BY BothParts
    <3> QED BY <1>3, <2>5, <3>1
  <2>7. (d \o o)[1] = b /\ (\A i \in 1..w : (d \o o)[i + 1] = c[i]) /\ \A i \in 1..w : (d \o o)[w + 1 + i] = o[i]
    <3>1. 1 \in 1..(1 + w) /\ \A i \in 1..w : i + 1 \in 1..(1 + w) /\ w + 1 + i = 1 + w + i
      OBVIOUS
    <3> QED BY <2>5, <2>6, <3>1
  <2>8. 1 + w + w = w + 1 + w
    OBVIOUS
  <2>9. Encode(run, w) = d \o o
    BY <2>1, <2>4, <2>5
  <2> QED BY <1>2, <1>3, <1>5, <2>2, <2>6, <2>7, <2>8, <2>9 DEF EntrySize
<1> QED BY <1>1, <1>4, <1>5

\* A field found in the bytes is that part of them.
LEMMA SliceIsField ==
  ASSUME NEW bytes \in Seq(Byte8), NEW w \in Nat \ {0}, NEW a \in Nat \ {0}, NEW z \in Nat, z = a + w - 1,
         z <= Len(bytes), NEW f \in Seq(Byte8), Len(f) = w, \A i \in 1..w : bytes[a + i - 1] = f[i]
  PROVE  SubSeq(bytes, a, z) = f
<1>1. Len(bytes) \in Nat
  BY LenProperties
<1>2. \A i \in a..z : i \in 1..Len(bytes)
  BY <1>1
<1>3. /\ SubSeq(bytes, a, z) \in Seq(Byte8)
      /\ Len(SubSeq(bytes, a, z)) = IF a <= z THEN z - a + 1 ELSE 0
      /\ \A i \in 1..(z - a + 1) : SubSeq(bytes, a, z)[i] = bytes[a + i - 1]
  <2>1. \A i \in a..z : bytes[i] \in Byte8
    BY <1>2, ElementOfSeq
  <2> QED BY <2>1, SubSeqProperties
<1>4. a <= z /\ z - a + 1 = w
  OBVIOUS
<1>5. Len(SubSeq(bytes, a, z)) = w /\ \A i \in 1..w : SubSeq(bytes, a, z)[i] = f[i]
  BY <1>3, <1>4
<1> QED BY <1>3, <1>5, SeqEqual

\* An entry is read: its header says what it takes, and where it is whole it is its run.
ReadsBack(bytes, p, run, w) ==
  /\ bytes[p] # 0 /\ EntryEnd(bytes, p) = p + EntrySize(run, w)
  /\ (/\ p + EntrySize(run, w) <= Len(bytes) + 1
      /\ \A k \in 1..EntrySize(run, w) : bytes[p + k - 1] = Encode(run, w)[k]) =>
        EntryAt(bytes, p) = run

\* An entry is parsed back to its run; what it takes is said by the header alone.
LEMMA EntryBack ==
  ASSUME NEW w \in 1..8, NEW run, HasRoom(run, w), NEW bytes \in Seq(Byte8), NEW p \in 1..Len(bytes),
         bytes[p] = Encode(run, w)[1]
  PROVE  ReadsBack(bytes, p, run, w)
<1> DEFINE e == Encode(run, w)
<1>1. /\ e \in Seq(Byte8) /\ Len(e) = EntrySize(run, w) /\ e[1] # 0 /\ CountWidth(e[1]) = w
      /\ OffsetWidth(e[1]) = IF run.sparse THEN 0 ELSE w
      /\ \A i \in 1..w : e[i + 1] = Field(run.count, w)[i]
      /\ ~run.sparse => \A i \in 1..w : e[w + 1 + i] = Field(run.offset, w)[i]
  BY EncodeRight
<1>2. /\ run \in ParsedRun /\ run.sparse \in BOOLEAN /\ run.count \in Nat /\ run.count < Numbers[w] /\ run.offset \in Int
      /\ run.sparse => run.offset = 0
  BY DEF HasRoom, ParsedRun
<1> HIDE DEF e
<1>3. bytes[p] = e[1] /\ p \in Nat \ {0} /\ Len(bytes) \in Nat /\ p <= Len(bytes)
  <2>1. Len(bytes) \in Nat
    BY LenProperties
  <2> QED BY <2>1 DEF e
<1>4. EntryEnd(bytes, p) = p + EntrySize(run, w)
  BY <1>1, <1>2, <1>3 DEF EntryEnd, EntrySize
<1>5. ASSUME p + EntrySize(run, w) <= Len(bytes) + 1, \A k \in 1..EntrySize(run, w) : bytes[p + k - 1] = e[k]
      PROVE  EntryAt(bytes, p) = run
  <2> DEFINE b == p + 1 + w
  <2>1. /\ p + 1 \in Nat \ {0} /\ b \in Nat \ {0} /\ b - 1 \in Nat /\ b - 1 = (p + 1) + w - 1 /\ b - 1 <= Len(bytes)
        /\ w \in Nat \ {0}
    <3>1. EntrySize(run, w) \in Nat /\ EntrySize(run, w) >= w + 1
      BY <1>2 DEF EntrySize
    <3>2. PICK s \in Nat : s >= w + 1 /\ p + s <= Len(bytes) + 1
      BY <1>5, <3>1
    <3>3. \A x, y, z, l \in Nat : (y >= z + 1 /\ x + y <= l + 1) => x + z <= l
      OBVIOUS
    <3>4. p + w <= Len(bytes)
      BY <1>3, <3>2, <3>3, p \in Nat, w \in Nat
    <3> QED BY <1>3, <3>4
  <2>2. SubSeq(bytes, p + 1, b - 1) = Field(run.count, w) /\ LittleEndian(Field(run.count, w)) = run.count
    <3>1. /\ Field(run.count, w) \in Seq(Byte8) /\ Len(Field(run.count, w)) = w
          /\ LittleEndian(Field(run.count, w)) = run.count
      <4>1. w \in Nat
        OBVIOUS
      <4>2. Numbers[w] \in Nat \ {0}
        BY <4>1, NumbersGrow
      <4>3. run.count \in 0..(Numbers[w] - 1) /\ run.count = IF run.count < 0 THEN run.count + Numbers[w] ELSE run.count
        BY <1>2, <4>2
      <4> QED BY <1>2, <4>1, <4>2, <4>3, FieldRight
    <3>2. \A i \in 1..w : bytes[(p + 1) + i - 1] = Field(run.count, w)[i]
      <4>1. \A i \in 1..w : i + 1 \in 1..EntrySize(run, w) /\ (p + 1) + i - 1 = p + (i + 1) - 1
        BY <1>2, <1>3 DEF EntrySize
      <4>2. \A i \in 1..w : bytes[p + (i + 1) - 1] = e[i + 1]
        BY <1>5, <4>1
      <4> QED BY <1>1, <4>1, <4>2
    <3>3. SubSeq(bytes, p + 1, b - 1) = Field(run.count, w)
      <4> HIDE DEF b
      <4> QED BY <2>1, <3>1, <3>2, SliceIsField
    <3> QED BY <3>1, <3>3
  <2>3. ASSUME ~run.sparse PROVE Signed(SubSeq(bytes, b, p + EntrySize(run, w) - 1)) = run.offset
    <3>1. Field(run.offset, w) \in Seq(Byte8) /\ Len(Field(run.offset, w)) = w /\ Signed(Field(run.offset, w)) = run.offset
      BY <1>2, <2>1, SignedRight DEF HasRoom
    <3>2. \A i \in 1..w : bytes[b + i - 1] = Field(run.offset, w)[i]
      <4>1. \A i \in 1..w : w + 1 + i \in 1..EntrySize(run, w) /\ b + i - 1 = p + (w + 1 + i) - 1
        <5>1. EntrySize(run, w) = w + 1 + w
          BY <2>3 DEF EntrySize
        <5>2. \A x, y \in Nat : \A i \in 1..y : y + 1 + i \in 1..(y + 1 + y) /\ (x + 1 + y) + i - 1 = x + (y + 1 + i) - 1
          OBVIOUS
        <5> QED BY <1>3, <5>1, <5>2, w \in Nat
      <4>2. \A i \in 1..w : bytes[p + (w + 1 + i) - 1] = e[w + 1 + i]
        BY <1>5, <4>1
      <4> QED BY <1>1, <2>3, <4>1, <4>2
    <3>3. PICK z \in Nat : z = p + EntrySize(run, w) - 1 /\ z = b + w - 1 /\ z <= Len(bytes)
      <4>1. EntrySize(run, w) = w + 1 + w
        BY <2>3 DEF EntrySize
      <4> QED BY <1>3, <1>5, <2>1, <4>1
    <3>4. SubSeq(bytes, b, z) = Field(run.offset, w)
      <4> HIDE DEF b
      <4> QED BY <2>1, <3>1, <3>2, <3>3, SliceIsField
    <3> QED BY <3>1, <3>3, <3>4
  <2> DEFINE r == EntryAt(bytes, p)
  <2>4. /\ CountWidth(bytes[p]) = w /\ OffsetWidth(bytes[p]) = (IF run.sparse THEN 0 ELSE w)
        /\ EntryEnd(bytes, p) = p + EntrySize(run, w) /\ EntryEnd(bytes, p) - 1 = p + EntrySize(run, w) - 1
    BY <1>1, <1>3, <1>4
  <2>5. (OffsetWidth(bytes[p]) = 0) = run.sparse
    BY <1>2, <2>1, <2>4
  <2>6. r = [count  |-> LittleEndian(SubSeq(bytes, p + 1, b - 1)),
             offset |-> IF OffsetWidth(bytes[p]) = 0 THEN 0 ELSE Signed(SubSeq(bytes, b, EntryEnd(bytes, p) - 1)),
             sparse |-> (OffsetWidth(bytes[p]) = 0)]
    <3> HIDE DEF b
    <3>1. b = p + 1 + CountWidth(bytes[p])
      BY <2>4 DEF b
    <3> QED BY <3>1 DEF EntryAt
  <2>7. LittleEndian(SubSeq(bytes, p + 1, b - 1)) = run.count
    BY <2>2
  <2>8. /\ run.sparse => r = [count |-> run.count, offset |-> 0, sparse |-> TRUE]
        /\ ~run.sparse => r = [count |-> run.count, offset |-> run.offset, sparse |-> FALSE]
    <3> HIDE DEF b, r
    <3>1. ASSUME run.sparse PROVE r = [count |-> run.count, offset |-> 0, sparse |-> TRUE]
      <4>1. (OffsetWidth(bytes[p]) = 0) = TRUE
        BY <2>5, <3>1
      <4> QED BY <2>6, <2>7, <4>1
    <3>2. ASSUME ~run.sparse PROVE r = [count |-> run.count, offset |-> run.offset, sparse |-> FALSE]
      <4>1. (OffsetWidth(bytes[p]) = 0) = FALSE
        BY <2>5, <3>2
      <4>2. Signed(SubSeq(bytes, b, EntryEnd(bytes, p) - 1)) = run.offset
        BY <2>3, <2>4, <3>2, Zenon
      <4> QED BY <2>6, <2>7, <4>1, <4>2
    <3> QED BY <3>1, <3>2
  <2>9. run = [count |-> run.count, offset |-> run.offset, sparse |-> run.sparse]
    BY <1>2 DEF ParsedRun
  <2>10. /\ run.sparse => run = [count |-> run.count, offset |-> 0, sparse |-> TRUE]
         /\ ~run.sparse => run = [count |-> run.count, offset |-> run.offset, sparse |-> FALSE]
    BY <1>2, <2>9
  <2> HIDE DEF r
  <2> QED BY <2>8, <2>10 DEF r
<1> QED BY <1>1, <1>3, <1>4, <1>5 DEF e, ReadsBack

\* Runs that have room, and where the entry of each begins in the bytes of all of them.
FitWidth(runs, w) == runs \in Seq(ParsedRun) /\ \A i \in 1..Len(runs) : HasRoom(runs[i], w)
EntryPlaces(h, runs, w) == SumsTo(h, Len(runs), [i \in 1..Len(runs) |-> EntrySize(runs[i], w)])

\* Where the entries are in the bytes of a run list.
EntriesAt(h, runs, w) ==
  \A i \in 1..Len(runs) : \A k \in 1..EntrySize(runs[i], w) :
     EncodeAll(runs, w)[h[i - 1] + k] = Encode(runs[i], w)[k]

\* The bytes of a run list are the entries of its runs, one behind the other.
LEMMA EncodeAllRight ==
  ASSUME NEW w \in 1..8, NEW runs, NEW h, FitWidth(runs, w), EntryPlaces(h, runs, w)
  PROVE  /\ EncodeAll(runs, w) \in Seq(Byte8) /\ Len(EncodeAll(runs, w)) = h[Len(runs)]
         /\ EntriesAt(h, runs, w)
<1> DEFINE n == Len(runs)
           seqs == [i \in 1..n |-> Encode(runs[i], w)]
<1>1. n \in Nat /\ DOMAIN runs = 1..n
  BY LenProperties DEF FitWidth
<1>2. \A i \in 1..n : Encode(runs[i], w) \in Seq(Byte8) /\ Len(Encode(runs[i], w)) = EntrySize(runs[i], w)
  BY EncodeRight DEF FitWidth
<1> HIDE DEF n
<1>3. seqs \in Seq(Seq(Byte8)) /\ Len(seqs) = n /\ \A i \in 1..n : seqs[i] = Encode(runs[i], w)
  BY <1>1, <1>2
<1>4. EncodeAll(runs, w) = FlattenSeq(seqs)
  BY <1>1 DEF EncodeAll
<1> HIDE DEF seqs
<1>5. SumsTo(h, Len(seqs), [i \in 1..Len(seqs) |-> Len(seqs[i])])
  <2>1. [i \in 1..Len(seqs) |-> Len(seqs[i])] = [i \in 1..n |-> EntrySize(runs[i], w)]
    BY <1>2, <1>3
  <2> QED BY <1>3, <2>1 DEF EntryPlaces, n
<1>6. FlattenSeq(seqs) \in Seq(Byte8) /\ PartPlaces(h, seqs, FlattenSeq(seqs))
  BY <1>3, <1>5, FlattenPlaces
<1>7. \A i \in 1..n : \A k \in 1..EntrySize(runs[i], w) : FlattenSeq(seqs)[h[i - 1] + k] = Encode(runs[i], w)[k]
  <2> SUFFICES ASSUME NEW i \in 1..n, NEW k \in 1..EntrySize(runs[i], w)
               PROVE  FlattenSeq(seqs)[h[i - 1] + k] = Encode(runs[i], w)[k]
    OBVIOUS
  <2>1. i \in 1..Len(seqs) /\ k \in 1..Len(seqs[i]) /\ seqs[i] = Encode(runs[i], w)
    BY <1>2, <1>3
  <2>2. FlattenSeq(seqs)[h[i - 1] + k] = seqs[i][k]
    BY <1>6, <2>1 DEF PartPlaces
  <2> QED BY <2>1, <2>2
<1> QED BY <1>3, <1>4, <1>6, <1>7 DEF PartPlaces, EntriesAt, n

\* The first runs take the bytes up to where the next one begins.
LEMMA FirstRuns ==
  ASSUME NEW w \in 1..8, NEW runs, FitWidth(runs, w), NEW h, EntryPlaces(h, runs, w), NEW m \in 0..Len(runs)
  PROVE  Len(EncodeAll(SubSeq(runs, 1, m), w)) = h[m]
<1>1. Len(runs) \in Nat /\ runs \in Seq(ParsedRun) /\ m \in Nat /\ m <= Len(runs)
  BY LenProperties DEF FitWidth
<1>2. PICK s \in Seq(ParsedRun) : s = SubSeq(runs, 1, m) /\ Len(s) = m /\ \A i \in 1..m : s[i] = runs[i]
  <2>1. \A i \in 1..m : i \in 1..Len(runs) /\ runs[i] \in ParsedRun
    BY <1>1, ElementOfSeq
  <2>2. /\ SubSeq(runs, 1, m) \in Seq(ParsedRun)
        /\ Len(SubSeq(runs, 1, m)) = IF 1 <= m THEN m - 1 + 1 ELSE 0
        /\ \A i \in 1..(m - 1 + 1) : SubSeq(runs, 1, m)[i] = runs[1 + i - 1]
    BY <1>1, <2>1, SubSeqProperties
  <2>3. m - 1 + 1 = m /\ ((IF 1 <= m THEN m ELSE 0) = m) /\ \A i \in 1..m : 1 + i - 1 = i
    BY <1>1
  <2> QED BY <2>2, <2>3
<1>3. FitWidth(s, w)
  BY <1>1, <1>2 DEF FitWidth
<1> DEFINE e == [i \in 0..m |-> h[i]]
<1>4. EntryPlaces(e, s, w)
  <2>1. h \in [0..Len(runs) -> Nat] /\ h[0] = 0 /\ \A i \in 1..Len(runs) : h[i] = h[i - 1] + EntrySize(runs[i], w)
    BY DEF EntryPlaces, SumsTo
  <2>2. e \in [0..m -> Nat] /\ e[0] = 0
    <3>1. 0 \in 0..m /\ \A i \in 0..m : i \in 0..Len(runs)
      BY <1>1
    <3> QED BY <2>1, <3>1
  <2>3. \A i \in 1..m : e[i] = h[i] /\ e[i - 1] = h[i - 1] /\ i \in 1..Len(runs)
    BY <1>1
  <2> HIDE DEF e
  <2>4. \A i \in 1..m : e[i] = e[i - 1] + EntrySize(s[i], w)
    BY <1>2, <2>1, <2>3
  <2> QED BY <1>2, <2>2, <2>4 DEF EntryPlaces, SumsTo
<1>5. Len(EncodeAll(s, w)) = e[m]
  <2> HIDE DEF e
  <2>1. Len(EncodeAll(s, w)) = e[Len(s)]
    BY <1>3, <1>4, EncodeAllRight
  <2> QED BY <1>2, <2>1
<1>6. m \in 0..m
  BY <1>1
<1> QED BY <1>2, <1>5, <1>6

\* The runs from j on, up to m.
LEMMA FromRun ==
  ASSUME NEW runs \in Seq(ParsedRun), NEW m \in 0..Len(runs)
  PROVE  /\ SubSeq(runs, m + 1, m) = <<>>
         /\ \A j \in 1..m : <<runs[j]>> \o SubSeq(runs, j + 1, m) = SubSeq(runs, j, m)
<1>1. Len(runs) \in Nat /\ m \in Nat /\ m <= Len(runs) /\ \A i \in 1..m : runs[i] \in ParsedRun
  <2>1. Len(runs) \in Nat
    BY LenProperties
  <2>2. m \in Nat /\ m <= Len(runs) /\ \A i \in 1..m : i \in 1..Len(runs)
    BY <2>1
  <2> QED BY <2>1, <2>2, ElementOfSeq
<1>2. \A a \in 1..(m + 1) : /\ SubSeq(runs, a, m) \in Seq(ParsedRun)
                            /\ Len(SubSeq(runs, a, m)) = m + 1 - a
                            /\ \A i \in 1..(m + 1 - a) : SubSeq(runs, a, m)[i] = runs[a + i - 1]
  <2> SUFFICES ASSUME NEW a \in 1..(m + 1)
               PROVE  /\ SubSeq(runs, a, m) \in Seq(ParsedRun)
                      /\ Len(SubSeq(runs, a, m)) = m + 1 - a
                      /\ \A i \in 1..(m + 1 - a) : SubSeq(runs, a, m)[i] = runs[a + i - 1]
    OBVIOUS
  <2>1. a \in Nat \ {0} /\ a <= m + 1
    BY <1>1
  <2> QED BY <1>1, <2>1, PartRight
<1>3. SubSeq(runs, m + 1, m) = <<>>
  <2>1. m + 1 \in 1..(m + 1) /\ m + 1 - (m + 1) = 0
    BY <1>1
  <2>2. SubSeq(runs, m + 1, m) \in Seq(ParsedRun) /\ Len(SubSeq(runs, m + 1, m)) = 0
    BY <1>2, <2>1
  <2> QED BY <2>2, EmptySeq
<1>4. ASSUME NEW j \in 1..m PROVE <<runs[j]>> \o SubSeq(runs, j + 1, m) = SubSeq(runs, j, m)
  <2>1. j \in 1..(m + 1) /\ j + 1 \in 1..(m + 1) /\ m + 1 - (j + 1) = m - j /\ m + 1 - j = 1 + (m - j) /\ m - j \in Nat
    BY <1>1
  <2>2. PICK s \in Seq(ParsedRun), t \in Seq(ParsedRun) : s = SubSeq(runs, j + 1, m) /\ t = SubSeq(runs, j, m)
    BY <1>2, <2>1
  <2>3. PICK o \in Seq(ParsedRun) : o = <<runs[j]>> /\ Len(o) = 1 /\ o[1] = runs[j]
    <3>1. runs[j] \in ParsedRun
      BY <1>1
    <3>2. PICK r \in ParsedRun : r = runs[j]
      BY <3>1
    <3>3. <<r>> \in Seq(ParsedRun) /\ Len(<<r>>) = 1 /\ <<r>>[1] = r
      OBVIOUS
    <3> QED BY <3>2, <3>3
  <2>4. /\ o \o s \in Seq(ParsedRun) /\ Len(o \o s) = Len(o) + Len(s)
        /\ \A i \in 1..Len(o) : (o \o s)[i] = o[i]
        /\ \A i \in 1..Len(s) : (o \o s)[Len(o) + i] = s[i]
    BY BothParts
  <2>5. /\ Len(s) = m - j /\ \A i \in 1..(m - j) : s[i] = runs[(j + 1) + i - 1]
        /\ Len(t) = 1 + (m - j) /\ \A i \in 1..(1 + (m - j)) : t[i] = runs[j + i - 1]
    BY <1>2, <2>1, <2>2
  <2>6. Len(o \o s) = Len(t)
    BY <2>3, <2>4, <2>5
  <2>7. ASSUME NEW i \in 1..Len(t) PROVE (o \o s)[i] = t[i]
    <3>1. CASE i = 1
      <4>1. 1 \in 1..Len(o) /\ j + 1 - 1 = j /\ 1 \in 1..(1 + (m - j))
        BY <1>1, <2>1, <2>3
      <4> QED BY <2>3, <2>4, <2>5, <3>1, <4>1
    <3>2. CASE i # 1
      <4>1. PICK k \in 1..(m - j) : i = 1 + k
        <5>1. i - 1 \in 1..(m - j) /\ i = 1 + (i - 1)
          BY <2>1, <2>5, <3>2
        <5> QED BY <5>1
      <4>2. (o \o s)[1 + k] = s[k]
        BY <2>3, <2>4, <2>5
      <4>3. s[k] = runs[(j + 1) + k - 1] /\ t[1 + k] = runs[j + (1 + k) - 1]
        BY <2>5, <4>1
      <4>4. (j + 1) + k - 1 = j + (1 + k) - 1
        BY <2>1
      <4> QED BY <4>1, <4>2, <4>3, <4>4
    <3> QED BY <3>1, <3>2
  <2>8. o \o s = t
    BY <2>4, <2>6, <2>7, SeqEqual
  <2> QED BY <2>2, <2>3, <2>8
<1> QED BY <1>3, <1>4

\* The bytes of some runs, whole or cut.
CutFrom(bytes, runs, w) ==
  /\ bytes \in Seq(Byte8) /\ Len(bytes) <= Len(EncodeAll(runs, w))
  /\ \A k \in 1..Len(bytes) : bytes[k] = EncodeAll(runs, w)[k]

\* A run is read from one place to another.
ReadAt(bytes, p, q, run) ==
  /\ p \in 1..Len(bytes) /\ bytes[p] # 0 /\ EntryEnd(bytes, p) = q
  /\ q <= Len(bytes) + 1 => EntryAt(bytes, p) = run

\* Where a run begins in such bytes its header is read, and where it is whole so is the run.
LEMMA RunIsRead ==
  ASSUME NEW w \in 1..8, NEW runs, FitWidth(runs, w), NEW h, EntryPlaces(h, runs, w), NEW bytes, CutFrom(bytes, runs, w),
         NEW j \in 1..Len(runs), h[j - 1] < Len(bytes)
  PROVE  ReadAt(bytes, h[j - 1] + 1, h[j] + 1, runs[j])
<1>1. /\ bytes \in Seq(Byte8) /\ Len(bytes) \in Nat /\ Len(runs) \in Nat /\ HasRoom(runs[j], w)
      /\ \A k \in 1..Len(bytes) : bytes[k] = EncodeAll(runs, w)[k]
  BY LenProperties DEF CutFrom, FitWidth
<1>2. PICK a \in Nat : a = h[j - 1]
  <2>1. h \in [0..Len(runs) -> Nat]
    BY DEF EntryPlaces, SumsTo
  <2>2. j - 1 \in 0..Len(runs)
    BY <1>1
  <2> QED BY <2>1, <2>2
<1>3. PICK size \in Nat \ {0} : size = EntrySize(runs[j], w)
  <2>1. runs[j].sparse \in BOOLEAN
    BY <1>1 DEF HasRoom, ParsedRun
  <2> QED BY <2>1 DEF EntrySize
<1>4. PICK b \in Nat : b = h[j] /\ b = a + size
  <2>1. h[j] = a + size
    BY <1>2, <1>3 DEF EntryPlaces, SumsTo
  <2> QED BY <2>1
<1>5. PICK p \in 1..Len(bytes) : p = a + 1
  <2>1. a + 1 \in 1..Len(bytes)
    BY <1>1, <1>2
  <2> QED BY <2>1
<1>6. \A k \in 1..size : EncodeAll(runs, w)[a + k] = Encode(runs[j], w)[k]
  <2>1. \A k \in 1..EntrySize(runs[j], w) : EncodeAll(runs, w)[h[j - 1] + k] = Encode(runs[j], w)[k]
    <3>1. EntriesAt(h, runs, w)
      BY EncodeAllRight
    <3> QED BY <3>1 DEF EntriesAt
  <2> QED BY <1>2, <1>3, <2>1
<1>7. bytes[p] = Encode(runs[j], w)[1]
  <2>1. 1 \in 1..size
    BY <1>3
  <2> QED BY <1>1, <1>5, <1>6, <2>1
<1>8. /\ bytes[p] # 0 /\ EntryEnd(bytes, p) = p + size
      /\ (/\ p + size <= Len(bytes) + 1
          /\ \A k \in 1..size : bytes[p + k - 1] = Encode(runs[j], w)[k]) => EntryAt(bytes, p) = runs[j]
  <2>1. ReadsBack(bytes, p, runs[j], w)
    BY <1>1, <1>7, EntryBack, Zenon
  <2> QED BY <1>3, <2>1 DEF ReadsBack
<1>9. PICK q \in Nat : q = h[j] + 1 /\ q = p + size /\ a + size + 1 = q
  <2>1. b + 1 = p + size /\ b + 1 \in Nat /\ a + size + 1 = b + 1
    BY <1>4, <1>5
  <2> QED BY <1>4, <2>1
<1>10. ASSUME q <= Len(bytes) + 1 PROVE EntryAt(bytes, p) = runs[j]
  <2>1. \A k \in 1..size : p + k - 1 = a + k /\ a + k \in 1..Len(bytes)
    <3>1. \A x, k \in Nat : (x + 1) + k - 1 = x + k
      OBVIOUS
    <3>2. \A k \in 1..size : k \in Nat /\ a + k \in 1..Len(bytes)
      BY <1>1, <1>5, <1>9, <1>10
    <3> QED BY <1>5, <3>1, <3>2
  <2>2. \A k \in 1..size : bytes[p + k - 1] = Encode(runs[j], w)[k]
    BY <1>1, <1>6, <2>1
  <2> QED BY <1>8, <1>9, <1>10, <2>2
<1>11. ReadAt(bytes, p, q, runs[j])
  BY <1>8, <1>9, <1>10 DEF ReadAt
<1>12. p = h[j - 1] + 1
  BY <1>2, <1>5
<1> QED BY <1>9, <1>11, <1>12

\* The last run that is whole in them.
WholeRun(h, runs, bytes, m) == h[m] <= Len(bytes) /\ (m < Len(runs) => h[m + 1] > Len(bytes))

\* Such bytes are parsed back to the runs that are whole in them.
LEMMA ParsesRuns ==
  ASSUME NEW w \in 1..8, NEW runs, FitWidth(runs, w), NEW h, EntryPlaces(h, runs, w), NEW bytes, CutFrom(bytes, runs, w),
         NEW m \in 0..Len(runs), WholeRun(h, runs, bytes, m)
  PROVE  ParseRunlist(bytes) = SubSeq(runs, 1, m)
<1>1. /\ bytes \in Seq(Byte8) /\ Len(bytes) \in Nat /\ Len(runs) \in Nat /\ runs \in Seq(ParsedRun)
      /\ m \in Nat /\ m <= Len(runs) /\ h[m] <= Len(bytes) /\ (m < Len(runs) => h[m + 1] > Len(bytes))
  BY LenProperties DEF CutFrom, FitWidth, WholeRun
<1>2. h \in [0..Len(runs) -> Nat] /\ h[0] = 0 /\ \A i \in 1..Len(runs) : h[i] = h[i - 1] + EntrySize(runs[i], w)
  BY DEF EntryPlaces, SumsTo
<1>3. \A i \in 1..Len(runs) : EntrySize(runs[i], w) \in Nat \ {0}
  <2>1. \A i \in 1..Len(runs) : runs[i].sparse \in BOOLEAN
    BY DEF FitWidth, HasRoom, ParsedRun
  <2> QED BY <2>1 DEF EntrySize
<1>4. Len(bytes) <= h[Len(runs)]
  BY EncodeAllRight DEF CutFrom
<1>5. PICK g : ParsesTo(g, bytes) /\ ParseRunlist(bytes) = g[1]
  BY <1>1, RunlistUnfolds
<1>6. \A p \in 1..(Len(bytes) + 1) :
        g[p] = IF p > Len(bytes) \/ bytes[p] = 0 THEN <<>>
               ELSE IF EntryEnd(bytes, p) > Len(bytes) + 1 THEN <<>>
               ELSE <<EntryAt(bytes, p)>> \o g[EntryEnd(bytes, p)]
  BY <1>5 DEF ParsesTo
<1> DEFINE P == {i \in 0..m : g[h[m - i] + 1] = SubSeq(runs, m - i + 1, m)}
<1>7. 0 \in P
  <2>1. PICK a \in Nat : a = h[m] /\ a <= Len(bytes)
    BY <1>1, <1>2
  <2>2. a + 1 \in 1..(Len(bytes) + 1)
    BY <1>1, <2>1
  <2>3. g[a + 1] = <<>>
    <3>1. CASE a = Len(bytes)
      <4>1. a + 1 > Len(bytes)
        BY <1>1, <3>1
      <4> QED BY <1>6, <2>2, <4>1
    <3>2. CASE a # Len(bytes)
      <4>1. m < Len(runs)
        BY <1>1, <1>4, <2>1, <3>2
      <4>2. m + 1 \in 1..Len(runs) /\ (m + 1) - 1 = m /\ h[m + 1] > Len(bytes) /\ a < Len(bytes)
        BY <1>1, <2>1, <3>2, <4>1
      <4>3. EntryEnd(bytes, a + 1) = h[m + 1] + 1 /\ a + 1 \in 1..Len(bytes)
        <5>1. ReadAt(bytes, h[(m + 1) - 1] + 1, h[m + 1] + 1, runs[m + 1])
          BY <2>1, <4>2, RunIsRead
        <5> QED BY <2>1, <4>2, <5>1 DEF ReadAt
      <4>4. EntryEnd(bytes, a + 1) > Len(bytes) + 1
        <5>1. m + 1 \in 0..Len(runs)
          BY <1>1, <4>2
        <5>2. PICK b \in Nat : b = h[m + 1] /\ b > Len(bytes)
          BY <1>2, <4>2, <5>1
        <5>3. b + 1 > Len(bytes) + 1
          BY <1>1, <5>2
        <5> QED BY <4>3, <5>2, <5>3
      <4> QED BY <1>6, <2>2, <4>4
    <3> QED BY <3>1, <3>2
  <2>4. SubSeq(runs, m + 1, m) = <<>>
    BY <1>1, FromRun
  <2>5. m - 0 = m /\ 0 \in 0..m
    BY <1>1
  <2> QED BY <2>1, <2>3, <2>4, <2>5
<1>8. ASSUME NEW i \in 1..m, i - 1 \in P PROVE i \in P
  <2>1. PICK j \in 1..m : j = m - i + 1
    <3>1. m - i + 1 \in 1..m
      BY <1>1
    <3> QED BY <3>1
  <2>2. m - (i - 1) = j /\ m - i = j - 1 /\ i \in 0..m /\ j \in 1..Len(runs) /\ m - (i - 1) + 1 = j + 1
    BY <1>1, <2>1
  <2>3. g[h[j] + 1] = SubSeq(runs, j + 1, m)
    BY <1>8, <2>2
  <2>4. PICK a \in Nat, b \in Nat : a = h[j - 1] /\ b = h[j] /\ a < b /\ b <= Len(bytes)
    <3>1. j - 1 \in 0..Len(runs) /\ j \in 0..Len(runs) /\ j \in 0..m
      BY <1>1, <2>2
    <3>2. h[j - 1] \in Nat /\ h[j] \in Nat /\ h[j - 1] < h[j]
      <4>1. PICK e \in Nat \ {0} : e = EntrySize(runs[j], w)
        BY <1>3, <2>2
      <4>2. PICK c \in Nat, d \in Nat : c = h[j - 1] /\ d = h[j]
        BY <1>2, <3>1
      <4>3. d = c + e
        BY <1>2, <2>2, <4>1, <4>2
      <4> QED BY <4>1, <4>2, <4>3
    <3>3. h[j] <= h[m]
      <4>1. [k \in 1..Len(runs) |-> EntrySize(runs[k], w)] \in [1..Len(runs) -> Nat]
        BY <1>3
      <4> QED BY <1>1, <3>1, <4>1, SumsGrow DEF EntryPlaces
    <3>4. h[m] \in Nat
      BY <1>1, <1>2
    <3> QED BY <1>1, <3>2, <3>3, <3>4
  <2>5. a + 1 \in 1..Len(bytes) /\ bytes[a + 1] # 0 /\ EntryEnd(bytes, a + 1) = b + 1 /\ EntryAt(bytes, a + 1) = runs[j]
    <3>1. a < Len(bytes)
      BY <1>1, <2>4
    <3>2. ReadAt(bytes, h[j - 1] + 1, h[j] + 1, runs[j])
      BY <2>2, <2>4, <3>1, RunIsRead, Zenon
    <3>3. b + 1 <= Len(bytes) + 1
      BY <1>1, <2>4
    <3> QED BY <2>4, <3>2, <3>3 DEF ReadAt
  <2>6. a + 1 \in 1..(Len(bytes) + 1) /\ ~(a + 1 > Len(bytes)) /\ ~(b + 1 > Len(bytes) + 1)
    <3>1. PICK l \in Nat : l = Len(bytes)
      BY <1>1
    <3>2. a + 1 <= l /\ b <= l
      BY <2>4, <2>5, <3>1
    <3>3. a + 1 \in 1..(l + 1) /\ ~(a + 1 > l) /\ ~(b + 1 > l + 1)
      BY <3>2
    <3> QED BY <3>1, <3>3
  <2>7. g[a + 1] = <<runs[j]>> \o g[b + 1]
    BY <1>6, <2>5, <2>6
  <2>8. <<runs[j]>> \o SubSeq(runs, j + 1, m) = SubSeq(runs, j, m)
    BY <1>1, <2>1, FromRun
  <2>9. g[h[j - 1] + 1] = SubSeq(runs, j, m)
    BY <2>3, <2>4, <2>7, <2>8
  <2> QED BY <2>1, <2>2, <2>9
<1>9. m \in P
  <2> HIDE DEF P
  <2>1. m \in 0..m
    BY <1>1
  <2> QED BY <1>1, <1>7, <1>8, <2>1, UpTo
<1>10. m - m = 0 /\ m - m + 1 = 1 /\ 0 + 1 = 1
  BY <1>1
<1>11. g[h[m - m] + 1] = SubSeq(runs, m - m + 1, m)
  BY <1>9
<1> QED BY <1>2, <1>5, <1>10, <1>11

\* The bytes of an attribute in the format are those of its runs, which have room.
LEMMA FormatFits ==
  ASSUME attr \in Attributes, InFormat
  PROVE  /\ attr.width \in 1..8 /\ FitWidth(attr.runs, attr.width)
         /\ CutFrom(attr.bytes, attr.runs, attr.width)
<1>1. /\ attr.bytes \in Seq(Byte8) /\ attr.width \in 1..8
      /\ attr.runs \in Seq([count : Nat, offset : Int, sparse : BOOLEAN])
  BY RunAssumption DEF Byte8
<1>2. PICK w \in 1..8, runs \in Seq([count : Nat, offset : Int, sparse : BOOLEAN]), bytes \in Seq(Byte8) :
        w = attr.width /\ runs = attr.runs /\ bytes = attr.bytes
  BY <1>1
<1>3. /\ bytes = SubSeq(EncodeAll(runs, w), 1, Len(bytes)) /\ Len(bytes) <= Len(EncodeAll(runs, w))
      /\ \A i \in DOMAIN runs :
            /\ runs[i].count < Numbers[w]
            /\ runs[i].offset \in -(Numbers[w] \div 2)..(Numbers[w] \div 2 - 1)
            /\ runs[i].sparse => runs[i].offset = 0
  BY <1>2 DEF InFormat
<1>4. Len(runs) \in Nat /\ DOMAIN runs = 1..Len(runs) /\ Len(bytes) \in Nat
  BY LenProperties
<1>5. \A i \in 1..Len(runs) : runs[i] \in ParsedRun /\ HasRoom(runs[i], w)
  <2>1. \A i \in 1..Len(runs) : runs[i] \in [count : Nat, offset : Int, sparse : BOOLEAN]
    BY ElementOfSeq
  <2> QED BY <1>3, <1>4, <2>1 DEF HasRoom, ParsedRun
<1>6. FitWidth(runs, w)
  <2>1. runs \in Seq(ParsedRun)
    BY <1>4, <1>5, LenProperties
  <2> QED BY <1>5, <2>1 DEF FitWidth
<1>7. PICK h : EntryPlaces(h, runs, w)
  <2>1. \A i \in 1..Len(runs) : EntrySize(runs[i], w) \in Nat
    <3> SUFFICES ASSUME NEW i \in 1..Len(runs) PROVE EntrySize(runs[i], w) \in Nat
      OBVIOUS
    <3>1. runs[i].sparse \in BOOLEAN
      BY <1>5 DEF ParsedRun
    <3> QED BY <3>1 DEF EntrySize
  <2>2. [i \in 1..Len(runs) |-> EntrySize(runs[i], w)] \in [1..Len(runs) -> Nat]
    BY <2>1
  <2> QED BY <1>4, <2>2, Sums DEF EntryPlaces
<1>8. PICK all \in Seq(Byte8) : all = EncodeAll(runs, w)
  BY <1>6, <1>7, EncodeAllRight
<1>9. \A k \in 1..Len(bytes) : bytes[k] = all[k]
  <2>1. Len(all) \in Nat /\ Len(bytes) <= Len(all)
    BY <1>3, <1>8, LenProperties
  <2>2. \A k \in 1..Len(bytes) : k \in 1..Len(all)
    BY <1>4, <2>1
  <2>3. \A k \in 1..(Len(bytes) - 1 + 1) : SubSeq(all, 1, Len(bytes))[k] = all[1 + k - 1]
    <3>1. \A k \in 1..Len(bytes) : all[k] \in Byte8
      BY <2>2, ElementOfSeq
    <3> QED BY <1>4, <3>1, SubSeqProperties
  <2>4. Len(bytes) - 1 + 1 = Len(bytes) /\ \A k \in 1..Len(bytes) : 1 + k - 1 = k
    BY <1>4
  <2>5. \A k \in 1..Len(bytes) : SubSeq(all, 1, Len(bytes))[k] = all[k]
    BY <2>3, <2>4
  <2> QED BY <1>3, <1>8, <2>5
<1>10. CutFrom(bytes, runs, w)
  BY <1>3, <1>8, <1>9 DEF CutFrom
<1> QED BY <1>2, <1>6, <1>10

\* A run list in the format is parsed back to its runs, one that is cut to those that are whole.
LEMMA FormatParses ==
  ASSUME attr \in Attributes, data_runs = ParseRunlist(attr.bytes)
  PROVE  ParsesBack
<1> SUFFICES ASSUME InFormat
             PROVE  LET kept == CHOOSE n \in 0..Len(attr.runs) :
                                  /\ Len(EncodeAll(SubSeq(attr.runs, 1, n), attr.width)) <= Len(attr.bytes)
                                  /\ n < Len(attr.runs) =>
                                      Len(EncodeAll(SubSeq(attr.runs, 1, n + 1), attr.width)) > Len(attr.bytes)
                    IN  data_runs = SubSeq(attr.runs, 1, kept)
  BY DEF ParsesBack
<1>1. PICK w \in 1..8, runs \in {attr.runs}, bytes \in {attr.bytes} :
        /\ w = attr.width /\ runs = attr.runs /\ bytes = attr.bytes
        /\ FitWidth(runs, w) /\ CutFrom(bytes, runs, w)
  BY FormatFits
<1>2. Len(runs) \in Nat /\ Len(bytes) \in Nat
  BY <1>1, LenProperties DEF FitWidth, CutFrom
<1>3. PICK h : EntryPlaces(h, runs, w)
  <2>1. \A i \in 1..Len(runs) : EntrySize(runs[i], w) \in Nat
    <3>1. \A i \in 1..Len(runs) : runs[i].sparse \in BOOLEAN
      BY <1>1 DEF FitWidth, HasRoom, ParsedRun
    <3> QED BY <3>1 DEF EntrySize
  <2>2. [i \in 1..Len(runs) |-> EntrySize(runs[i], w)] \in [1..Len(runs) -> Nat]
    BY <2>1
  <2> QED BY <1>2, <2>2, Sums DEF EntryPlaces
<1>4. h \in [0..Len(runs) -> Nat] /\ h[0] = 0
  BY <1>3 DEF EntryPlaces, SumsTo
<1>5. \A m \in 0..Len(runs) : Len(EncodeAll(SubSeq(runs, 1, m), w)) = h[m]
  BY <1>1, <1>3, FirstRuns
<1> DEFINE Kept(m) == /\ Len(EncodeAll(SubSeq(runs, 1, m), w)) <= Len(bytes)
                      /\ m < Len(runs) => Len(EncodeAll(SubSeq(runs, 1, m + 1), w)) > Len(bytes)
           kept == CHOOSE m \in 0..Len(runs) : Kept(m)
<1>6. \E m \in 0..Len(runs) : Kept(m)
  <2> DEFINE T == {m \in 0..Len(runs) : h[m] <= Len(bytes)}
  <2>1. 0 \in T
    BY <1>2, <1>4
  <2>2. T \in SUBSET Nat /\ T # {} /\ \A t \in T : t <= Len(runs)
    BY <1>2, <2>1
  <2>3. PICK x \in T : \A y \in T : x >= y
    <3> HIDE DEF T
    <3> QED BY <1>2, <2>2, GreatestNatural
  <2>4. x \in 0..Len(runs) /\ x \in Nat /\ h[x] <= Len(bytes)
    BY <1>2
  <2>5. ASSUME x < Len(runs) PROVE h[x + 1] > Len(bytes)
    <3>1. x + 1 \in 0..Len(runs) /\ ~(x >= x + 1)
      BY <1>2, <2>4, <2>5
    <3>2. x + 1 \notin T
      <4> HIDE DEF T
      <4> QED BY <2>3, <3>1
    <3>3. ~(h[x + 1] <= Len(bytes))
      BY <3>1, <3>2
    <3>4. h[x + 1] \in Nat
      BY <1>4, <3>1
    <3> QED BY <1>2, <3>3, <3>4
  <2>6. x < Len(runs) => x + 1 \in 0..Len(runs)
    BY <1>2, <2>4
  <2>7. Kept(x)
    BY <1>5, <2>4, <2>5, <2>6
  <2> HIDE DEF Kept
  <2> QED BY <2>4, <2>7
<1>7. PICK m \in 0..Len(runs) : m = kept /\ Kept(m)
  <2> HIDE DEF Kept
  <2> QED BY <1>6
<1>8. h[m] <= Len(bytes) /\ (m < Len(runs) => h[m + 1] > Len(bytes))
  <2>1. m < Len(runs) => m + 1 \in 0..Len(runs)
    BY <1>2
  <2> QED BY <1>5, <1>7, <2>1
<1>9. ParseRunlist(bytes) = SubSeq(runs, 1, m)
  <2>1. WholeRun(h, runs, bytes, m)
    BY <1>8 DEF WholeRun
  <2> QED BY <1>1, <1>3, <2>1, ParsesRuns
<1>10. data_runs = SubSeq(runs, 1, kept)
  <2> HIDE DEF kept
  <2> QED BY <1>1, <1>7, <1>9
<1> QED BY <1>1, <1>10

-----------------------------------------------------------------------------
(* Part 8: the clusters of the file.                                        *)

\* The sum that the tiling of the file is stated with.
LEMMA OffsetsAdd ==
  ASSUME data_runs \in Seq(ParsedRun), NEW o, OffsetsTo(o, data_runs), NEW m \in 0..Len(data_runs)
  PROVE  LcnOf(m) = o[m]
<1>1. Len(data_runs) \in Nat /\ m \in Nat /\ m <= Len(data_runs)
  <2>1. Len(data_runs) \in Nat
    BY LenProperties
  <2> QED BY <2>1
<1>2. PICK s \in Seq(ParsedRun) : s = SubSeq(data_runs, 1, m) /\ Len(s) = m /\ \A i \in 1..m : s[i] = data_runs[i]
  <2>1. \A i \in 1..m : i \in 1..Len(data_runs) /\ data_runs[i] \in ParsedRun
    BY <1>1, ElementOfSeq
  <2>2. /\ SubSeq(data_runs, 1, m) \in Seq(ParsedRun)
        /\ Len(SubSeq(data_runs, 1, m)) = IF 1 <= m THEN m - 1 + 1 ELSE 0
        /\ \A i \in 1..(m - 1 + 1) : SubSeq(data_runs, 1, m)[i] = data_runs[1 + i - 1]
    BY <1>1, <2>1, SubSeqProperties
  <2>3. m - 1 + 1 = m /\ ((IF 1 <= m THEN m ELSE 0) = m) /\ \A i \in 1..m : 1 + i - 1 = i
    BY <1>1
  <2> QED BY <2>2, <2>3
<1> DEFINE Equation(g) == g = [t \in SUBSET (1..m) |-> IF t = {} THEN 0 ELSE g[t \ {Max(t)}] + s[Max(t)].offset]
           next == [p \in (1..m) \X Int |-> p[2] + s[p[1]].offset]
<1>3. \A i \in 1..m : s[i].offset \in Int /\ s[i] = data_runs[i]
  <2>1. \A i \in 1..m : s[i] \in ParsedRun
    BY <1>2, ElementOfSeq
  <2> QED BY <1>2, <2>1 DEF ParsedRun
<1>4. next \in [(1..m) \X Int -> Int] /\ \A i \in 1..m, v \in Int : next[<<i, v>>] = v + s[i].offset
  BY <1>3
<1> HIDE DEF next
<1>5. PICK g0 : Folds(g0, m, Int, 0, next)
  <2>1. 0 \in Int
    OBVIOUS
  <2> QED BY <1>1, <1>4, <2>1, FoldRecursion
<1>6. Equation(g0)
  <2>1. /\ g0 \in [SUBSET (1..m) -> Int]
        /\ \A t \in SUBSET (1..m) : g0[t] = IF t = {} THEN 0 ELSE next[<<Max(t), g0[t \ {Max(t)}]>>]
    BY <1>5 DEF Folds
  <2>2. ASSUME NEW t \in SUBSET (1..m), t # {} PROVE g0[t] = g0[t \ {Max(t)}] + s[Max(t)].offset
    <3>1. Max(t) \in 1..m /\ g0[t \ {Max(t)}] \in Int
      BY <1>1, <2>1, <2>2, MaxRight
    <3> QED BY <1>4, <2>1, <2>2, <3>1
  <2> QED BY <2>1, <2>2
<1>7. PICK g : Equation(g) /\ LcnOf(m) = g[1..m]
  <2> HIDE DEF Equation
  <2>1. Equation(CHOOSE g : Equation(g))
    BY <1>6
  <2>2. DOMAIN s = 1..m
    BY <1>2
  <2>3. LcnOf(m) = FoldLeft(LAMBDA sum, r : sum + r.offset, 0, s)
    BY <1>2 DEF LcnOf
  <2>4. FoldLeft(LAMBDA sum, r : sum + r.offset, 0, s) = (CHOOSE g : Equation(g))[1..m]
    BY <2>2 DEF FoldLeft, MapThenFoldSet, Equation
  <2> QED BY <2>1, <2>3, <2>4
<1>8. \A t \in SUBSET (1..m) : g[t] = IF t = {} THEN 0 ELSE g[t \ {Max(t)}] + s[Max(t)].offset
  BY <1>7
<1> HIDE DEF Equation
<1> DEFINE P == {i \in 0..m : g[1..i] = o[i]}
<1>9. 0 \in P
  <2>1. 1..0 = {} /\ 0 \in 0..m /\ {} \in SUBSET (1..m)
    BY <1>1
  <2> QED BY <1>8, <2>1 DEF OffsetsTo
<1>10. ASSUME NEW i \in 1..m, i - 1 \in P PROVE i \in P
  <2>1. 1..i \in SUBSET (1..m) /\ 1..i # {} /\ Max(1..i) = i /\ (1..i) \ {i} = 1..(i - 1) /\ i \in 0..m
        /\ i \in 1..Len(data_runs)
    BY <1>1, MaxUpTo
  <2>2. g[1..i] = g[1..(i - 1)] + s[i].offset
    BY <1>8, <2>1
  <2>3. g[1..(i - 1)] = o[i - 1]
    BY <1>10
  <2>4. o[i] = o[i - 1] + data_runs[i].offset
    BY <2>1 DEF OffsetsTo
  <2> QED BY <1>3, <2>1, <2>2, <2>3, <2>4
<1> HIDE DEF P
<1>11. m \in P
  <2>1. m \in 0..m
    BY <1>1
  <2> QED BY <1>1, <1>9, <1>10, <2>1, UpTo
<1> QED BY <1>7, <1>11 DEF P

\* Where each run begins in the file: behind those before it.
CountsTo(h, list) ==
  /\ SumsTo(h, Len(list), [i \in 1..Len(list) |-> list[i].count])
  /\ \A i \in 1..Len(list) : list[i].vcn = h[i - 1] /\ list[i].vcn + list[i].count = h[i]

\* The runs lie behind each other.
LEMMA RunsBehind ==
  ASSUME NEW runs, NEW list, ResolvedFrom(runs, list)
  PROVE  \E h : CountsTo(h, list)
<1> DEFINE n == Len(list)
           c == [i \in 1..n |-> list[i].count]
<1>1. n \in Nat /\ n = Len(runs) /\ \A i \in 1..n : list[i] \in DataRun
  BY LenProperties, ElementOfSeq DEF ResolvedFrom
<1>2. \A i \in 1..n : list[i].vcn = IF i = 1 THEN 0 ELSE list[i - 1].vcn + list[i - 1].count
  BY <1>1 DEF ResolvedFrom
<1> HIDE DEF n
<1>3. \A i \in 1..n : list[i].count \in Nat /\ list[i].vcn \in Nat /\ c[i] = list[i].count
  BY <1>1 DEF DataRun
<1>4. c \in [1..n -> Nat]
  BY <1>3
<1> HIDE DEF c
<1>5. PICK h : SumsTo(h, n, c)
  BY <1>1, <1>4, Sums
<1>6. h \in [0..n -> Nat] /\ h[0] = 0 /\ \A i \in 1..n : h[i] = h[i - 1] + list[i].count
  BY <1>3, <1>5 DEF SumsTo
<1> DEFINE P == {i \in 0..n : i = 0 \/ (list[i].vcn = h[i - 1] /\ list[i].vcn + list[i].count = h[i])}
<1>7. 0 \in P
  BY <1>1
<1>8. ASSUME NEW i \in 1..n, i - 1 \in P PROVE i \in P
  <2>1. i \in 0..n /\ (i # 1 => i - 1 \in 1..n /\ i - 1 # 0)
    BY <1>1
  <2>2. list[i].vcn = h[i - 1]
    <3>1. CASE i = 1
      BY <1>2, <1>6, <3>1
    <3>2. CASE i # 1
      <4>1. list[i].vcn = list[i - 1].vcn + list[i - 1].count
        BY <1>2, <3>2
      <4>2. list[i - 1].vcn + list[i - 1].count = h[i - 1]
        BY <1>8, <2>1, <3>2
      <4> QED BY <4>1, <4>2
    <3> QED BY <3>1, <3>2
  <2>3. list[i].vcn + list[i].count = h[i]
    BY <1>6, <2>2
  <2> QED BY <2>1, <2>2, <2>3
<1>9. \A i \in 0..n : i \in P
  <2> HIDE DEF P
  <2> QED BY <1>1, <1>7, <1>8, UpTo
<1>10. \A i \in 1..n : list[i].vcn = h[i - 1] /\ list[i].vcn + list[i].count = h[i]
  <2>1. \A i \in 1..n : i \in 0..n /\ i # 0
    BY <1>1
  <2> QED BY <1>9, <2>1
<1>11. CountsTo(h, list)
  BY <1>5, <1>10 DEF CountsTo, n, c
<1> QED BY <1>11

\* A cluster of the file is in the one run that covers it.
LEMMA ClusterFound ==
  ASSUME resolved \in Seq(DataRun), NEW h, CountsTo(h, resolved), NEW i \in 1..Len(resolved), NEW k \in Nat,
         k < resolved[i].count
  PROVE  VcnToLcn(resolved[i].vcn + k) = IF resolved[i].sparse THEN -1 ELSE resolved[i].lcn + k
<1> DEFINE n == Len(resolved)
           v == resolved[i].vcn + k
           I == {j \in 1..n : resolved[j].vcn <= v /\ v <= LastVcn(resolved[j])}
<1>1. n \in Nat /\ i \in 1..n /\ \A j \in 1..n : resolved[j].vcn \in Nat /\ resolved[j].count \in Nat
  <2>1. n \in Nat /\ \A j \in 1..n : resolved[j] \in DataRun
    BY LenProperties, ElementOfSeq
  <2> QED BY <2>1 DEF DataRun
<1>2. \A j, l \in 0..n : j <= l => h[j] <= h[l]
  <2>1. [j \in 1..n |-> resolved[j].count] \in [1..n -> Nat]
    BY <1>1
  <2>2. ASSUME NEW l \in 0..n PROVE \A j \in 0..l : h[j] <= h[l]
    <3> HIDE DEF n
    <3>1. SumsTo(h, n, [j \in 1..n |-> resolved[j].count])
      BY DEF CountsTo, n
    <3> QED BY <1>1, <2>1, <3>1, SumsGrow
  <2>3. \A j, l \in 0..n : j <= l => j \in 0..l
    BY <1>1
  <2> QED BY <2>2, <2>3
<1>3. \A j \in 1..n : resolved[j].vcn = h[j - 1] /\ resolved[j].vcn + resolved[j].count = h[j] /\ h[j] \in Nat
  BY <1>1 DEF CountsTo, SumsTo
<1>4. v \in Nat /\ resolved[i].vcn <= v /\ v < h[i] /\ v - resolved[i].vcn = k
  <2>1. resolved[i].vcn \in Nat /\ resolved[i].count \in Nat /\ resolved[i].vcn + resolved[i].count = h[i]
    BY <1>1, <1>3
  <2> QED BY <2>1
<1> HIDE DEF v, n
<1>5. \A j \in 1..n : LastVcn(resolved[j]) = h[j] - 1
  <2> SUFFICES ASSUME NEW j \in 1..n PROVE LastVcn(resolved[j]) = h[j] - 1
    OBVIOUS
  <2>1. resolved[j].vcn \in Nat /\ resolved[j].count \in Nat /\ resolved[j].vcn + resolved[j].count = h[j]
    BY <1>1, <1>3
  <2>2. \A a, b \in Nat : a + b - 1 = (a + b) - 1
    OBVIOUS
  <2>3. resolved[j].vcn + resolved[j].count - 1 = (resolved[j].vcn + resolved[j].count) - 1
    BY <2>1, <2>2
  <2>4. (resolved[j].vcn + resolved[j].count) - 1 = h[j] - 1
    BY <2>1, Zenon
  <2> QED BY <2>3, <2>4 DEF LastVcn
<1>6. i \in I
  BY <1>1, <1>3, <1>4, <1>5
<1>7. ASSUME NEW j \in I PROVE j = i
  <2>1. j \in 1..n /\ resolved[j].vcn <= v /\ v < h[j] /\ h[j] \in Nat
    <3>1. j \in 1..n /\ resolved[j].vcn <= v /\ v <= h[j] - 1 /\ h[j] \in Nat
      BY <1>3, <1>5
    <3> QED BY <1>4, <3>1
  <2>2. CASE j < i
    <3>1. j \in 0..n /\ i - 1 \in 0..n /\ j <= i - 1
      BY <1>1, <2>1, <2>2
    <3>2. h[j] <= h[i - 1] /\ h[i - 1] = resolved[i].vcn
      BY <1>1, <1>2, <1>3, <3>1
    <3> QED BY <1>1, <1>4, <2>1, <3>2
  <2>3. CASE i < j
    <3>1. i \in 0..n /\ j - 1 \in 0..n /\ i <= j - 1
      BY <1>1, <2>1, <2>3
    <3>2. h[i] <= h[j - 1] /\ h[j - 1] = resolved[j].vcn
      BY <1>1, <1>2, <1>3, <2>1, <3>1
    <3>3. h[i] \in Nat
      BY <1>1, <1>3
    <3> QED BY <1>1, <1>4, <2>1, <3>2, <3>3
  <2> QED BY <1>1, <2>1, <2>2, <2>3
<1>8. Min(I) = i
  <2>1. I \in SUBSET (1..n) /\ I # {}
    BY <1>6
  <2> HIDE DEF I
  <2>2. Min(I) \in I
    BY <1>1, <2>1, MinRight
  <2> QED BY <1>7, <2>2
<1>9. SelectInSeq(resolved, LAMBDA r : r.vcn <= v /\ v <= LastVcn(r)) = i
  <2>1. SelectInSeq(resolved, LAMBDA r : r.vcn <= v /\ v <= LastVcn(r)) = IF I # {} THEN Min(I) ELSE 0
    BY DEF SelectInSeq, n
  <2> HIDE DEF I
  <2> QED BY <1>6, <1>8, <2>1
<1>10. i # 0
  BY <1>1
<1>11. VcnToLcn(v) = IF resolved[i].sparse THEN -1 ELSE resolved[i].lcn + (v - resolved[i].vcn)
  BY <1>9, <1>10 DEF VcnToLcn
<1> QED BY <1>4, <1>11 DEF v

\* What is being read was parsed from the attribute and resolved.
Listed == rstep = "read" => data_runs = ParseRunlist(attr.bytes) /\ ResolvedFrom(data_runs, resolved)

\* The clusters of all runs together.
LEMMA CountsAdd ==
  ASSUME resolved \in Seq(DataRun), NEW h, CountsTo(h, resolved)
  PROVE  Total(LAMBDA r : r.count) = h[Len(resolved)]
<1> DEFINE n == Len(resolved)
           f == [i \in 1..n |-> resolved[i].count]
           Equation(g) == g = [s \in SUBSET (1..n) |->
                                 IF s = {} THEN 0 ELSE g[s \ {Max(s)}] + resolved[Max(s)].count]
<1>1. n \in Nat /\ DOMAIN resolved = 1..n /\ \A i \in 1..n : resolved[i] \in DataRun
  BY LenProperties, ElementOfSeq
<1> HIDE DEF n
<1>2. f \in [1..n -> Nat]
  BY <1>1 DEF DataRun
<1>3. ASSUME NEW g PROVE Equation(g) <=> AddsUp(g, n, f)
  <2>1. \A s \in SUBSET (1..n) : s # {} => f[Max(s)] = resolved[Max(s)].count
    <3>1. \A s \in SUBSET (1..n) : s # {} => Max(s) \in 1..n
      BY <1>1, MaxRight
    <3> QED BY <3>1
  <2>2. [s \in SUBSET (1..n) |-> IF s = {} THEN 0 ELSE g[s \ {Max(s)}] + resolved[Max(s)].count]
          = [s \in SUBSET (1..n) |-> IF s = {} THEN 0 ELSE g[s \ {Max(s)}] + f[Max(s)]]
    <3> HIDE DEF f
    <3> QED BY <2>1
  <2> HIDE DEF f
  <2> QED BY <2>2 DEF AddsUp
<1> HIDE DEF f
<1>4. PICK e : SumsTo(e, n, f) /\ \A g : AddsUp(g, n, f) => g[1..n] = e[n]
  BY <1>1, <1>2, Sums
<1>5. Total(LAMBDA r : r.count) = e[n]
  <2> HIDE DEF Equation
  <2>1. Equation(CHOOSE g : Equation(g))
    BY <1>1, <1>2, <1>3, Sums
  <2>2. Total(LAMBDA r : r.count) = (CHOOSE g : Equation(g))[1..n]
    BY <1>1 DEF Total, FoldLeft, MapThenFoldSet, Equation
  <2> QED BY <1>3, <1>4, <2>1, <2>2
<1>6. SumsTo(h, n, f)
  BY DEF CountsTo, n, f
<1> DEFINE P == {i \in 0..n : h[i] = e[i]}
<1>7. 0 \in P
  BY <1>1, <1>4, <1>6 DEF SumsTo
<1>8. ASSUME NEW i \in 1..n, i - 1 \in P PROVE i \in P
  <2>1. i \in 0..n
    BY <1>1
  <2>2. h[i] = h[i - 1] + f[i] /\ e[i] = e[i - 1] + f[i]
    BY <1>4, <1>6 DEF SumsTo
  <2> QED BY <1>8, <2>1, <2>2
<1>9. n \in P
  <2> HIDE DEF P
  <2>1. n \in 0..n
    BY <1>1
  <2> QED BY <1>1, <1>7, <1>8, <2>1, UpTo
<1> QED BY <1>5, <1>9 DEF n

\* The runs tile the file.
LEMMA TilesFile ==
  ASSUME RunTypes, Listed
  PROVE  RunsTile
<1> SUFFICES ASSUME rstep = "read"
             PROVE  /\ Total(LAMBDA r : r.count) = IF resolved = <<>> THEN 0 ELSE LastVcn(Last(resolved)) + 1
                    /\ \A i \in DOMAIN resolved, k \in 0..2 :
                        k < resolved[i].count =>
                          VcnToLcn(resolved[i].vcn + k) = IF resolved[i].sparse THEN -1 ELSE LcnOf(i) + k
  BY DEF RunsTile
<1> DEFINE n == Len(resolved)
<1>1. resolved \in Seq(DataRun) /\ data_runs \in Seq(ParsedRun) /\ ResolvedFrom(data_runs, resolved)
      /\ n = Len(data_runs)
  BY DEF RunTypes, Listed
<1>2. n \in Nat /\ DOMAIN resolved = 1..n /\ \A i \in 1..n : resolved[i] \in DataRun
  BY <1>1, LenProperties, ElementOfSeq
<1>3. PICK h : CountsTo(h, resolved)
  BY <1>1, RunsBehind
<1>4. Total(LAMBDA r : r.count) = h[n]
  BY <1>1, <1>3, CountsAdd
<1>5. resolved = <<>> => h[n] = 0
  <2>1. h[0] = 0
    BY <1>3 DEF CountsTo, SumsTo
  <2>2. resolved = <<>> => n = 0
    BY EmptySeq
  <2> HIDE DEF n
  <2> QED BY <2>1, <2>2
<1>6. ASSUME resolved # <<>> PROVE h[n] = LastVcn(Last(resolved)) + 1
  <2>1. n \in 1..n
    <3>1. n # 0
      BY <1>1, <1>6, EmptySeq
    <3> HIDE DEF n
    <3> QED BY <1>2, <3>1
  <2>2. resolved[n].vcn + resolved[n].count = h[n]
    BY <1>3, <2>1 DEF CountsTo
  <2>3. Last(resolved) = resolved[n]
    BY DEF Last
  <2>4. resolved[n].vcn \in Nat /\ resolved[n].count \in Nat
    BY <1>2, <2>1 DEF DataRun
  <2> HIDE DEF n
  <2>5. \A a, b \in Nat : a + b - 1 + 1 = a + b
    OBVIOUS
  <2>6. resolved[n].vcn + resolved[n].count - 1 + 1 = resolved[n].vcn + resolved[n].count
    BY <2>4, <2>5
  <2> QED BY <2>2, <2>3, <2>6 DEF LastVcn
<1>7. ASSUME NEW i \in 1..n, NEW k \in 0..2, k < resolved[i].count
      PROVE  VcnToLcn(resolved[i].vcn + k) = IF resolved[i].sparse THEN -1 ELSE LcnOf(i) + k
  <2>1. PICK o : /\ OffsetsTo(o, data_runs)
                 /\ \A j \in 1..n : resolved[j].lcn = IF resolved[j].sparse THEN -1 ELSE o[j]
    BY <1>1 DEF ResolvedFrom, FromOffsets
  <2>2. i \in 0..Len(data_runs) /\ k \in Nat
    <3> HIDE DEF n
    <3> QED BY <1>1, <1>2
  <2>3. LcnOf(i) = o[i]
    BY <1>1, <2>1, <2>2, OffsetsAdd
  <2>4. VcnToLcn(resolved[i].vcn + k) = IF resolved[i].sparse THEN -1 ELSE resolved[i].lcn + k
    BY <1>1, <1>3, <1>7, <2>2, ClusterFound
  <2> QED BY <2>1, <2>3, <2>4
<1> HIDE DEF n
<1> QED BY <1>2, <1>4, <1>5, <1>6, <1>7

\* Bytes of the file before a run.
SizeBefore(n) == IF n = 1 THEN 0 ELSE (resolved[n - 1].vcn + resolved[n - 1].count) * RunClusterSize

\* A byte of the file is the byte of the run it is in.
LEMMA ByteOfRun ==
  ASSUME resolved \in Seq(DataRun), NEW h, CountsTo(h, resolved), NEW i \in 1..Len(resolved), NEW q \in Nat,
         q < RunBytes(resolved[i]), resolved[i].sparse \/ resolved[i].lcn >= 0
  PROVE  ByteAt(h[i - 1] * RunClusterSize + q) = IF resolved[i].sparse THEN Hole ELSE resolved[i].lcn * RunClusterSize + q
<1>1. PICK size \in Nat \ {0} : size = RunClusterSize
  BY RunAssumption
<1>2. PICK v \in Nat, c \in Nat, l \in Int : v = resolved[i].vcn /\ c = resolved[i].count /\ l = resolved[i].lcn
  <2>1. resolved[i] \in DataRun
    BY ElementOfSeq
  <2> QED BY <2>1 DEF DataRun
<1>3. h[i - 1] = v
  BY <1>2 DEF CountsTo
<1>4. PICK k \in Nat, r \in 0..(size - 1) : q = k * size + r
  <2>1. q \div size \in Nat /\ q % size \in 0..(size - 1) /\ q = (q \div size) * size + (q % size)
    BY <1>1
  <2> QED BY <2>1
<1>5. k < c
  <2>1. q < c * size
    BY <1>1, <1>2 DEF RunBytes
  <2>2. ASSUME k >= c PROVE FALSE
    <3>1. k * size >= c * size
      BY <1>1, <1>2, <1>4, <2>2
    <3>2. k * size \in Nat /\ c * size \in Nat
      BY <1>1, <1>2, <1>4
    <3> QED BY <1>4, <2>1, <3>1, <3>2
  <2> QED BY <1>2, <1>4, <2>2
<1>6. v * size + q = (v + k) * size + r
  <2>1. (v + k) * size = v * size + k * size
    BY <1>1, <1>2, <1>4
  <2>2. v * size \in Nat /\ k * size \in Nat
    BY <1>1, <1>2, <1>4
  <2> QED BY <1>4, <2>1, <2>2
<1>7. (v * size + q) \div size = v + k /\ (v * size + q) % size = r
  <2>1. v + k \in Nat /\ size > 0
    BY <1>1, <1>2, <1>4
  <2>2. ((v + k) * size + r) \div size = v + k /\ ((v + k) * size + r) % size = r
    BY <2>1, <1>4, RestBelow
  <2> QED BY <1>6, <2>2
<1>8. VcnToLcn(v + k) = IF resolved[i].sparse THEN -1 ELSE l + k
  BY <1>2, <1>5, ClusterFound
<1>9. ByteAt(v * size + q) = LET lcn == VcnToLcn(v + k) IN IF lcn = -1 THEN Hole ELSE lcn * size + r
  BY <1>1, <1>7 DEF ByteAt
<1>10. CASE resolved[i].sparse
  BY <1>1, <1>3, <1>8, <1>9, <1>10
<1>11. CASE ~resolved[i].sparse
  <2>1. l + k # -1
    BY <1>2, <1>11
  <2>2. (l + k) * size = l * size + k * size
    BY <1>1, <1>2, <1>4
  <2>3. l * size \in Int /\ k * size \in Int
    BY <1>1, <1>2, <1>4
  <2>4. (l + k) * size + r = l * size + q
    BY <1>4, <2>2, <2>3
  <2>5. ByteAt(v * size + q) = l * size + q
    BY <1>8, <1>9, <1>11, <2>1, <2>4
  <2> QED BY <1>1, <1>2, <1>3, <1>11, <2>5
<1> QED BY <1>10, <1>11

-----------------------------------------------------------------------------
(* Part 9: the readers and the bytes of the file.                           *)

\* The bytes read are those that the clusters of the file name.
InPlace == \A p \in DOMAIN data : data[p] = ByteAt(p - 1)

\* _read_chunked stays at a run until it has it; the others go on behind what the image has.
WholeRuns(n) == attr.reader = "chunks" \/ \A i \in 1..n : InImage(resolved[i])

\* As long as every run is whole, what was read ends where the run at hand begins.
Placed ==
  /\ WholeRuns(at_run - 2) => InPlace
  /\ (rstep = "read" /\ WholeRuns(at_run - 1)) =>
        /\ Len(data) = Lesser(Limit, SizeBefore(at_run)) + pos
        /\ remaining = Limit - Lesser(Limit, SizeBefore(at_run))

\* What a step that reads has to keep of that.
LEMMA PlacedNext ==
  ASSUME Rereads, NEW m, NEW r, NEW l, at_run' = m, remaining' = r, Len(data') = l,
         WholeRuns(m - 2) => \A p \in DOMAIN data' : data'[p] = ByteAt(p - 1),
         (rstep' = "read" /\ WholeRuns(m - 1)) =>
            l = Lesser(Limit, SizeBefore(m)) + pos' /\ r = Limit - Lesser(Limit, SizeBefore(m))
  PROVE  Placed'
<1>1. attr' = attr /\ resolved' = resolved
  BY DEF Rereads
<1>2. Limit' = Limit
  BY <1>1 DEF Limit
<1>3. \A n : InImage(resolved[n])' <=> InImage(resolved[n])
  BY <1>1 DEF InImage, Available, RunBytes
<1>4. \A n : WholeRuns(n)' <=> WholeRuns(n)
  BY <1>1 DEF WholeRuns, InImage, Available, RunBytes
<1>5. \A p : ByteAt(p)' = ByteAt(p)
  <2>1. \A v : VcnToLcn(v)' = VcnToLcn(v)
    BY <1>1 DEF VcnToLcn, SelectInSeq
  <2> QED BY <2>1 DEF ByteAt
<1>6. \A n : SizeBefore(n)' = SizeBefore(n)
  BY <1>1 DEF SizeBefore
<1>7. InPlace' <=> \A p \in DOMAIN data' : data'[p] = ByteAt(p - 1)
  BY <1>5 DEF InPlace
<1>8. WholeRuns(at_run - 2)' <=> WholeRuns(m - 2)
  BY <1>4
<1>9. WholeRuns(at_run - 1)' <=> WholeRuns(m - 1)
  BY <1>4
<1>10. SizeBefore(at_run)' = SizeBefore(m)
  BY <1>6
<1> QED BY <1>2, <1>7, <1>8, <1>9, <1>10 DEF Placed

\* The runs begin behind each other in the bytes of the file, too.
LEMMA SizesGrow ==
  ASSUME resolved \in Seq(DataRun), NEW h, CountsTo(h, resolved)
  PROVE  /\ \A n \in 1..(Len(resolved) + 1) : SizeBefore(n) = h[n - 1] * RunClusterSize /\ SizeBefore(n) \in Nat
         /\ \A n \in 1..Len(resolved) : SizeBefore(n + 1) = SizeBefore(n) + RunBytes(resolved[n])
<1>1. PICK size \in Nat : size = RunClusterSize
  BY RunAssumption
<1>2. Len(resolved) \in Nat /\ \A n \in 1..Len(resolved) : resolved[n] \in DataRun
  BY LenProperties, ElementOfSeq
<1>3. /\ h \in [0..Len(resolved) -> Nat] /\ h[0] = 0
      /\ \A n \in 1..Len(resolved) : resolved[n].vcn = h[n - 1] /\ resolved[n].vcn + resolved[n].count = h[n]
  BY DEF CountsTo, SumsTo
<1>4. ASSUME NEW n \in 1..(Len(resolved) + 1)
      PROVE  SizeBefore(n) = h[n - 1] * size /\ SizeBefore(n) \in Nat
  <2>1. n - 1 \in 0..Len(resolved)
    BY <1>2
  <2>2. h[n - 1] \in Nat /\ h[n - 1] * size \in Nat
    <3>1. PICK a \in Nat : a = h[n - 1]
      BY <1>3, <2>1
    <3>2. a * size \in Nat
      BY <1>1
    <3> QED BY <3>1, <3>2
  <2>3. CASE n = 1
    <3>1. 0 * size = 0 /\ n - 1 = 0
      BY <1>1, <2>3
    <3> QED BY <1>3, <2>3, <3>1 DEF SizeBefore
  <2>4. CASE n # 1
    <3>1. n - 1 \in 1..Len(resolved)
      BY <1>2, <2>4
    <3>2. SizeBefore(n) = h[n - 1] * size
      BY <1>1, <1>3, <2>4, <3>1 DEF SizeBefore
    <3> QED BY <2>2, <3>2
  <2> QED BY <2>3, <2>4
<1>5. ASSUME NEW n \in 1..Len(resolved) PROVE SizeBefore(n + 1) = SizeBefore(n) + RunBytes(resolved[n])
  <2>1. n \in 1..(Len(resolved) + 1) /\ n + 1 \in 1..(Len(resolved) + 1) /\ (n + 1) - 1 = n
    BY <1>2
  <2>2. SizeBefore(n) = h[n - 1] * size /\ SizeBefore(n + 1) = h[n] * size
    BY <1>4, <2>1
  <2>3. PICK a \in Nat, c \in Nat : a = h[n - 1] /\ c = resolved[n].count /\ h[n] = a + c
    BY <1>2, <1>3 DEF DataRun
  <2>4. (a + c) * size = a * size + c * size
    BY <1>1
  <2> QED BY <1>1, <2>2, <2>3, <2>4 DEF RunBytes
<1> QED BY <1>1, <1>4, <1>5

\* Where the run at hand begins.
LEMMA ReadSoFar ==
  ASSUME RunTypes, Listed, Placed, Reading, WholeRuns(at_run - 1)
  PROVE  /\ SizeBefore(at_run) \in Nat /\ SizeBefore(at_run + 1) = SizeBefore(at_run) + RunBytes(Run)
         /\ Len(data) = SizeBefore(at_run) + pos /\ remaining = Limit - SizeBefore(at_run) /\ InPlace
<1>1. /\ Limit \in Nat /\ at_run \in 1..Len(resolved) /\ rstep = "read" /\ remaining \in Nat /\ remaining > 0
      /\ pos \in Nat /\ Len(data) \in Nat
  BY RunFacts DEF Reading, RunTypes
<1>2. resolved \in Seq(DataRun) /\ ResolvedFrom(data_runs, resolved) /\ Len(resolved) \in Nat
  BY <1>1, LenProperties DEF RunTypes, Listed
<1>3. PICK h : CountsTo(h, resolved)
  BY <1>2, RunsBehind
<1>4. PICK s \in Nat : s = SizeBefore(at_run) /\ SizeBefore(at_run + 1) = s + RunBytes(Run)
  <2>1. at_run \in 1..(Len(resolved) + 1)
    BY <1>1, <1>2
  <2> QED BY <1>1, <1>2, <1>3, <2>1, SizesGrow DEF Run
<1>5. Len(data) = Lesser(Limit, s) + pos /\ remaining = Limit - Lesser(Limit, s)
  BY <1>1, <1>4 DEF Placed
<1>6. Lesser(Limit, s) = s
  BY <1>1, <1>5 DEF Lesser
<1>7. WholeRuns(at_run - 2)
  <2>1. \A i \in 1..(at_run - 2) : i \in 1..(at_run - 1)
    BY <1>1
  <2> QED BY <2>1 DEF WholeRuns
<1> QED BY <1>4, <1>5, <1>6, <1>7 DEF Placed

\* Bytes taken in a run, behind those that were taken before, are in place.
LEMMA TakenInPlace ==
  ASSUME RunTypes, Listed, Placed, Reading, WholeRuns(at_run - 1), Run.sparse \/ Run.lcn >= 0,
         NEW bytes \in Seq(Elem), pos + Len(bytes) <= RunBytes(Run), data' = data \o bytes,
         \A k \in 1..Len(bytes) : bytes[k] = IF Run.sparse THEN Hole ELSE Run.lcn * RunClusterSize + (pos + k - 1)
  PROVE  \A p \in DOMAIN data' : data'[p] = ByteAt(p - 1)
<1>1. /\ Run \in DataRun /\ at_run \in 1..Len(resolved) /\ rstep = "read" /\ pos \in Nat
      /\ Len(data) \in Nat /\ data \in Seq(Elem) /\ RunBytes(Run) \in Nat /\ Len(bytes) \in Nat
  BY RunFacts, LenProperties DEF RunTypes
<1>2. resolved \in Seq(DataRun) /\ ResolvedFrom(data_runs, resolved) /\ Len(resolved) \in Nat
  BY <1>1, LenProperties DEF RunTypes, Listed
<1>3. PICK h : CountsTo(h, resolved)
  BY <1>2, RunsBehind
<1>4. PICK s \in Nat : s = h[at_run - 1] * RunClusterSize /\ Len(data) = s + pos /\ InPlace
  <2>1. at_run \in 1..(Len(resolved) + 1)
    BY <1>1, <1>2
  <2>2. SizeBefore(at_run) = h[at_run - 1] * RunClusterSize /\ SizeBefore(at_run) \in Nat
    BY <1>2, <1>3, <2>1, SizesGrow
  <2> QED BY <2>2, ReadSoFar
<1>5. /\ Len(data') = Len(data) + Len(bytes) /\ DOMAIN data' = 1..Len(data')
      /\ \A k \in 1..Len(data) : data'[k] = data[k]
      /\ \A k \in 1..Len(bytes) : data'[Len(data) + k] = bytes[k]
  <2>1. /\ data \o bytes \in Seq(Elem) /\ Len(data \o bytes) = Len(data) + Len(bytes)
        /\ \A i \in 1..Len(data) : (data \o bytes)[i] = data[i]
        /\ \A i \in 1..Len(bytes) : (data \o bytes)[Len(data) + i] = bytes[i]
    BY <1>1, BothParts
  <2> QED BY <2>1, LenProperties
<1>6. ASSUME NEW k \in 1..Len(bytes) PROVE bytes[k] = ByteAt(s + (pos + k - 1))
  <2>1. PICK q \in Nat : q = pos + k - 1 /\ q < RunBytes(Run)
    <3>1. pos + k - 1 \in Nat /\ pos + k - 1 < RunBytes(Run)
      BY <1>1
    <3> QED BY <3>1
  <2>2. ByteAt(h[at_run - 1] * RunClusterSize + q)
          = IF resolved[at_run].sparse THEN Hole ELSE resolved[at_run].lcn * RunClusterSize + q
    BY <1>1, <1>2, <1>3, <2>1, ByteOfRun DEF Run
  <2>3. bytes[k] = IF Run.sparse THEN Hole ELSE Run.lcn * RunClusterSize + q
    BY <2>1
  <2> QED BY <1>4, <2>1, <2>2, <2>3 DEF Run
<1>7. ASSUME NEW p \in 1..Len(data') PROVE data'[p] = ByteAt(p - 1)
  <2>1. CASE p <= Len(data)
    <3>1. p \in 1..Len(data) /\ DOMAIN data = 1..Len(data)
      BY <1>1, <1>5, <2>1, LenProperties
    <3> QED BY <1>4, <1>5, <3>1 DEF InPlace
  <2>2. CASE ~(p <= Len(data))
    <3>1. PICK k \in 1..Len(bytes) : p = Len(data) + k
      <4>1. p - Len(data) \in 1..Len(bytes) /\ p = Len(data) + (p - Len(data))
        BY <1>1, <1>5, <2>2
      <4> QED BY <4>1
    <3>2. p - 1 = s + (pos + k - 1)
      <4>1. \A a, b, c \in Nat : (a + b) + c - 1 = a + (b + c - 1)
        OBVIOUS
      <4>2. k \in Nat /\ p = (s + pos) + k
        BY <1>1, <1>4, <3>1
      <4> QED BY <1>1, <4>1, <4>2
    <3> QED BY <1>5, <1>6, <3>1, <3>2
  <2> QED BY <2>1, <2>2
<1> QED BY <1>5, <1>7

\* What a run that is whole gives.
LEMMA WholePart ==
  ASSUME attr \in Attributes, NEW run \in DataRun, InImage(run), ~run.sparse, NEW m \in Nat, m <= RunBytes(run),
         NEW begin \in Nat, begin + m <= RunBytes(run)
  PROVE  /\ run.lcn * RunClusterSize + begin \in Nat
         /\ Lesser(m, Greater(0, attr.image - (run.lcn * RunClusterSize + begin))) = m
<1>1. /\ attr.image \in Nat /\ RunBytes(run) \in Nat /\ run.lcn \in Int /\ run.lcn >= 0
  BY RunAssumption, AvailableType DEF InImage, DataRun
<1>2. run.lcn * RunClusterSize \in Int /\ run.lcn * RunClusterSize >= 0
  BY <1>1, AvailableType
<1>3. PICK b \in Nat, o \in Nat, g \in Nat : b = RunBytes(run) /\ o = run.lcn * RunClusterSize /\ g = attr.image
  BY <1>1, <1>2
<1>4. Lesser(b, Greater(0, g - o)) = b
  BY <1>1, <1>3 DEF InImage, Available
<1>5. Lesser(m, Greater(0, g - (o + begin))) = m
  BY <1>3, <1>4 DEF Lesser, Greater
<1> QED BY <1>3, <1>5

\* The next run begins where this one ends.
LEMMA NextBegins ==
  ASSUME NEW lim \in Nat, NEW s \in Nat, NEW b \in Nat, NEW r \in Nat, r = lim - s, r > 0
  PROVE  s + Lesser(b, r) = Lesser(lim, s + b) /\ r - Lesser(b, r) = lim - Lesser(lim, s + b)
BY DEF Lesser

\* A run that is read at once.
LEMMA RunTaken ==
  ASSUME RunTypes, Listed, Placed, FillHole \/ ReadRun \/ SkipBefore
  PROVE  Placed'
<1>1. Reading /\ Rereads /\ pos = 0 /\ pos' = 0 /\ at_run' = at_run + 1
  <2>1. Reading /\ Rereads /\ pos = 0 /\ pos' = pos /\ at_run' = at_run + 1
    BY NoChunk DEF FillHole, ReadRun, SkipBefore, Rereads
  <2> QED BY <2>1
<1>2. /\ Run \in DataRun /\ Limit \in Nat /\ at_run \in 1..Len(resolved) /\ RunBytes(Run) \in Nat
      /\ Wanted \in Nat /\ Wanted <= remaining /\ Wanted <= RunBytes(Run) /\ remaining \in Nat /\ remaining > 0
      /\ Len(data) \in Nat /\ data \in Seq(Elem) /\ attr \in Attributes
  BY <1>1, RunFacts DEF Reading, RunTypes
<1>3. PICK bytes \in Seq(Elem) :
        /\ data' = data \o bytes /\ remaining' = remaining - Len(bytes) /\ Len(bytes) <= Wanted
        /\ bytes # <<>> => Run.sparse \/ Run.lcn >= 0
        /\ \A k \in 1..Len(bytes) : bytes[k] = IF Run.sparse THEN Hole ELSE Run.lcn * RunClusterSize + (pos + k - 1)
        /\ InImage(Run) => Len(bytes) = Wanted
  <2>1. CASE FillHole
    <3>1. /\ Holes(Wanted) \in Seq(Elem) /\ Len(Holes(Wanted)) = Wanted
          /\ \A k \in 1..Wanted : Holes(Wanted)[k] = Hole
      BY <1>2, HolesType
    <3>2. data' = data \o Holes(Wanted) /\ remaining' = remaining - Len(Holes(Wanted)) /\ Run.sparse
      BY <2>1 DEF FillHole, Took
    <3>3. PICK bytes \in Seq(Elem) : bytes = Holes(Wanted)
      BY <3>1
    <3>4. data' = data \o bytes /\ remaining' = remaining - Len(bytes) /\ Len(bytes) = Wanted /\ Run.sparse
      BY <3>1, <3>2, <3>3, Zenon
    <3>6. Len(bytes) <= Wanted
      BY <1>2, <3>4
    <3>5. \A k \in 1..Len(bytes) : bytes[k] = Hole
      BY <3>1, <3>3
    <3> QED BY <3>4, <3>5, <3>6
  <2>2. CASE ReadRun
    <3> DEFINE o == Run.lcn * RunClusterSize
    <3>1. o \in Nat /\ Run.lcn >= 0 /\ ~Run.sparse
      <4>1. o \in Int /\ (Run.lcn >= 0 => o >= 0)
        BY <1>2, AvailableType
      <4> QED BY <2>2, <4>1 DEF ReadRun
    <3>2. attr.image \in Nat
      BY <1>2, RunAssumption
    <3>3. InImage(Run) => Lesser(Wanted, Greater(0, attr.image - o)) = Wanted
      <4>1. ASSUME InImage(Run) PROVE Lesser(Wanted, Greater(0, attr.image - o)) = Wanted
        <5>1. Wanted + 0 = Wanted /\ 0 + Wanted = Wanted /\ 0 \in Nat /\ o + 0 = o
          BY <1>2, <3>1
        <5>2. Lesser(Wanted, Greater(0, attr.image - (Run.lcn * RunClusterSize + 0))) = Wanted
          BY <1>2, <3>1, <4>1, <5>1, WholePart
        <5> QED BY <5>1, <5>2
      <4> QED BY <4>1
    <3> HIDE DEF o
    <3>4. data' = data \o ImageBytes(o, Wanted) /\ remaining' = remaining - Len(ImageBytes(o, Wanted))
      BY <2>2 DEF ReadRun, Took, o
    <3>5. /\ ImageBytes(o, Wanted) \in Seq(Elem)
          /\ Len(ImageBytes(o, Wanted)) = Lesser(Wanted, Greater(0, attr.image - o))
          /\ \A k \in 1..Len(ImageBytes(o, Wanted)) : ImageBytes(o, Wanted)[k] = o + k - 1
      BY <1>2, <3>1, ImageType
    <3>6. Lesser(Wanted, Greater(0, attr.image - o)) \in Nat /\ Lesser(Wanted, Greater(0, attr.image - o)) <= Wanted
      BY <1>2, <3>1, <3>2 DEF Lesser, Greater
    <3>7. PICK bytes \in Seq(Elem) : bytes = ImageBytes(o, Wanted)
      BY <3>5
    <3>8. \A k \in 1..Len(bytes) : bytes[k] = o + (pos + k - 1)
      <4>1. Len(bytes) \in Nat
        BY LenProperties
      <4>2. \A k \in 1..Len(bytes) : o + k - 1 = o + (0 + k - 1)
        BY <3>1, <4>1
      <4> QED BY <1>1, <3>5, <3>7, <4>2
    <3>9. InImage(Run) => Len(bytes) = Wanted
      BY <3>3, <3>5, <3>7
    <3>10. Len(bytes) <= Wanted
      BY <3>5, <3>6, <3>7
    <3> QED BY <3>1, <3>4, <3>7, <3>8, <3>9, <3>10 DEF o
  <2>3. CASE SkipBefore
    <3>1. <<>> \in Seq(Elem) /\ Len(<<>>) = 0 /\ data \o <<>> = data
      BY <1>2, EmptySeq, ConcatEmptySeq
    <3>2. data' = data /\ remaining' = remaining /\ ~InImage(Run)
      BY <1>2, <2>3 DEF SkipBefore, InImage, DataRun
    <3>3. remaining - 0 = remaining /\ 1..0 = {} /\ 0 <= Wanted
      BY <1>2
    <3> QED BY <3>1, <3>2, <3>3
  <2> QED BY <2>1, <2>2, <2>3
<1>4. PICK m \in Nat, l \in Nat : m = at_run + 1 /\ m - 1 = at_run /\ m - 2 = at_run - 1 /\ l = Len(bytes)
  <2>1. at_run \in Nat /\ Len(bytes) \in Nat
    BY <1>2, LenProperties
  <2>2. PICK m \in Nat : m = at_run + 1
    BY <2>1
  <2>3. m - 1 = at_run /\ m - 2 = at_run - 1
    BY <2>1, <2>2
  <2> QED BY <2>1, <2>2, <2>3
<1>5. ASSUME WholeRuns(m - 2) PROVE \A p \in DOMAIN data' : data'[p] = ByteAt(p - 1)
  <2>1. CASE bytes = <<>>
    <3>1. data' = data
      BY <1>2, <1>3, <2>1, ConcatEmptySeq
    <3> QED BY <1>1, <1>4, <1>5, <3>1, ReadSoFar DEF InPlace
  <2>2. CASE bytes # <<>>
    <3>1. pos + Len(bytes) <= RunBytes(Run)
      BY <1>1, <1>2, <1>3, <1>4
    <3>2. WholeRuns(at_run - 1) /\ (Run.sparse \/ Run.lcn >= 0)
      BY <1>3, <1>4, <1>5, <2>2
    <3> QED BY <1>1, <1>3, <3>1, <3>2, TakenInPlace
  <2> QED BY <2>1, <2>2
<1>6. ASSUME WholeRuns(m - 1)
      PROVE  /\ Len(data') = Lesser(Limit, SizeBefore(m)) + pos'
             /\ remaining' = Limit - Lesser(Limit, SizeBefore(m))
  <2>1. WholeRuns(at_run) /\ WholeRuns(at_run - 1)
    <3>1. WholeRuns(at_run)
      BY <1>4, <1>6
    <3>2. \A i \in 1..(at_run - 1) : i \in 1..at_run
      BY <1>2
    <3> QED BY <3>1, <3>2 DEF WholeRuns
  <2>2. Len(bytes) = Wanted
    <3>1. CASE attr.reader = "chunks"
      <4>1. FillHole
        BY <3>1 DEF ReadRun, SkipBefore
      <4>2. Run.sparse
        BY <4>1 DEF FillHole
      <4>3. InImage(Run)
        BY <4>2 DEF InImage, Available
      <4> QED BY <1>3, <4>3
    <3>2. CASE attr.reader # "chunks"
      <4>1. at_run \in 1..at_run
        BY <1>2
      <4>2. InImage(Run)
        BY <2>1, <3>2, <4>1 DEF WholeRuns, Run
      <4> QED BY <1>3, <4>2
    <3> QED BY <3>1, <3>2
  <2>3. /\ SizeBefore(at_run) \in Nat /\ SizeBefore(at_run + 1) = SizeBefore(at_run) + RunBytes(Run)
        /\ Len(data) = SizeBefore(at_run) + 0 /\ remaining = Limit - SizeBefore(at_run)
    BY <1>1, <2>1, ReadSoFar
  <2>4. PICK s \in Nat, b \in Nat, r \in Nat : /\ s = SizeBefore(at_run) /\ b = RunBytes(Run) /\ r = remaining
                                                /\ r = Limit - s /\ r > 0 /\ Len(data) = s /\ SizeBefore(m) = s + b
    <3>1. SizeBefore(at_run) + 0 = SizeBefore(at_run)
      BY <2>3
    <3> QED BY <1>2, <1>4, <2>3, <3>1
  <2>5. s + Lesser(b, r) = Lesser(Limit, s + b) /\ r - Lesser(b, r) = Limit - Lesser(Limit, s + b)
    BY <1>2, <2>4, NextBegins
  <2>6. Wanted = Lesser(b, r)
    BY <2>4 DEF Wanted
  <2>7. Len(data') = s + Lesser(b, r)
    <3>1. Len(data \o bytes) = Len(data) + Len(bytes)
      BY <1>2, BothParts
    <3> QED BY <1>3, <2>2, <2>4, <2>6, <3>1
  <2>8. remaining' = r - Lesser(b, r)
    BY <1>3, <2>2, <2>4, <2>6
  <2>9. Lesser(Limit, s + b) + pos' = Lesser(Limit, s + b)
    <3>1. Lesser(Limit, s + b) \in Nat
      BY <1>2 DEF Lesser
    <3> QED BY <1>1, <3>1
  <2> QED BY <2>4, <2>5, <2>7, <2>8, <2>9
<1> QED BY <1>1, <1>4, <1>5, <1>6, PlacedNext

\* A chunk, and the end of the chunks of a run.
LEMMA ChunkTaken ==
  ASSUME RunTypes, Listed, Placed, ReadChunk \/ ChunksOver
  PROVE  Placed'
<1>1. Reading /\ Rereads /\ attr.reader = "chunks" /\ ~Run.sparse
  BY DEF ReadChunk, ChunksOver, Rereads
<1>2. /\ Run \in DataRun /\ Limit \in Nat /\ at_run \in 1..Len(resolved) /\ RunBytes(Run) \in Nat
      /\ Wanted \in Nat /\ Wanted <= remaining /\ Wanted <= RunBytes(Run) /\ remaining \in Nat /\ remaining > 0
      /\ Len(data) \in Nat /\ data \in Seq(Elem) /\ attr \in Attributes /\ pos \in Nat
      /\ (pos > 0 => pos <= Wanted)
  BY <1>1, RunFacts DEF Reading, RunTypes
<1>3. \A n : WholeRuns(n)
  BY <1>1 DEF WholeRuns
<1>4. PICK s \in Nat, b \in Nat, r \in Nat :
        /\ s = SizeBefore(at_run) /\ b = RunBytes(Run) /\ r = remaining /\ r = Limit - s /\ r > 0
        /\ Len(data) = s + pos /\ SizeBefore(at_run + 1) = s + b /\ InPlace /\ Wanted = Lesser(b, r)
  <2>1. /\ SizeBefore(at_run) \in Nat /\ SizeBefore(at_run + 1) = SizeBefore(at_run) + RunBytes(Run)
        /\ Len(data) = SizeBefore(at_run) + pos /\ remaining = Limit - SizeBefore(at_run) /\ InPlace
    BY <1>1, <1>3, ReadSoFar
  <2> QED BY <1>2, <2>1 DEF Wanted
<1>7. Limit \in Nat /\ r = Limit - s /\ Lesser(Limit, s) = s
  <2>1. Limit \in Nat /\ r = Limit - s /\ r > 0
    BY <1>2, <1>4
  <2>2. s <= Limit
    BY <2>1
  <2> QED BY <2>1, <2>2 DEF Lesser
<1>5. CASE ReadChunk
  <2> DEFINE o == Run.lcn * RunClusterSize + pos
             n == Lesser(attr.chunk_size, Wanted - pos)
  <2>1. o \in Nat /\ Run.lcn >= 0
    <3>1. Run.lcn * RunClusterSize \in Int /\ Run.lcn * RunClusterSize >= 0
      BY <1>2, <1>5, AvailableType DEF ReadChunk
    <3> QED BY <1>2, <1>5, <3>1 DEF ReadChunk
  <2>2. n \in Nat /\ n <= Wanted - pos
    <3>1. attr.chunk_size \in Nat /\ pos < Wanted
      BY <1>2, <1>5, RunAssumption DEF ReadChunk
    <3> QED BY <1>2, <3>1 DEF Lesser
  <2>3. attr.image \in Nat
    BY <1>2, RunAssumption
  <2>4. Chunk = ImageBytes(o, n) /\ data' = data \o Chunk /\ pos' = pos + Len(Chunk) /\ at_run' = at_run
        /\ remaining' = remaining
    BY <1>5 DEF ReadChunk, Chunk
  <2>5. Run.lcn * RunClusterSize \in Int
    BY <1>2, AvailableType
  <2>6. ASSUME NEW k \in Nat PROVE o + k - 1 = Run.lcn * RunClusterSize + (pos + k - 1)
    <3>1. \A a \in Int, c, d \in Nat : (a + c) + d - 1 = a + (c + d - 1)
      OBVIOUS
    <3> QED BY <1>2, <2>5, <3>1
  <2> HIDE DEF o, n
  <2>7. /\ ImageBytes(o, n) \in Seq(Elem)
        /\ Len(ImageBytes(o, n)) = Lesser(n, Greater(0, attr.image - o))
        /\ \A k \in 1..Len(ImageBytes(o, n)) : ImageBytes(o, n)[k] = o + k - 1
    BY <1>2, <2>1, <2>2, ImageType
  <2>8. Lesser(n, Greater(0, attr.image - o)) \in Nat /\ Lesser(n, Greater(0, attr.image - o)) <= n
    BY <2>1, <2>2, <2>3 DEF Lesser, Greater
  <2>9. PICK bytes \in Seq(Elem) : bytes = Chunk /\ Len(bytes) \in Nat /\ Len(bytes) <= n
    BY <2>4, <2>7, <2>8
  <2>10. \A k \in 1..Len(bytes) : bytes[k] = IF Run.sparse THEN Hole ELSE Run.lcn * RunClusterSize + (pos + k - 1)
    <3>1. \A k \in 1..Len(bytes) : k \in Nat /\ bytes[k] = o + k - 1
      BY <2>4, <2>7, <2>9
    <3> QED BY <1>1, <2>6, <3>1
  <2>11. pos + Len(bytes) <= RunBytes(Run)
    BY <1>2, <2>2, <2>9
  <2>12. data' = data \o bytes
    BY <2>4, <2>9
  <2>13. \A p \in DOMAIN data' : data'[p] = ByteAt(p - 1)
    BY <1>1, <1>3, <2>1, <2>10, <2>11, <2>12, TakenInPlace
  <2>14. Len(data') = s + (pos + Len(bytes))
    <3>1. Len(data \o bytes) = Len(data) + Len(bytes)
      BY <1>2, BothParts
    <3> QED BY <1>2, <1>4, <2>9, <2>12, <3>1
  <2>15. Lesser(Limit, s) = s /\ remaining' = Limit - s /\ pos' = pos + Len(bytes)
    <3>1. remaining' = Limit - s /\ pos' = pos + Len(bytes)
      BY <1>4, <2>4, <2>9
    <3> QED BY <1>7, <3>1
  <2>16. PICK m : m = at_run /\ m = at_run'
    BY <2>4
  <2>17. Len(data') = Lesser(Limit, SizeBefore(m)) + pos' /\ remaining' = Limit - Lesser(Limit, SizeBefore(m))
    BY <1>4, <2>14, <2>15, <2>16
  <2> QED BY <1>1, <2>13, <2>16, <2>17, PlacedNext
<1>6. CASE ChunksOver
  <2>1. data' = data /\ pos' = 0 /\ at_run' = at_run + 1 /\ remaining' = remaining - Wanted /\ pos >= Wanted
    BY <1>6 DEF ChunksOver
  <2>2. pos = Wanted
    BY <1>2, <2>1
  <2>3. s + Lesser(b, r) = Lesser(Limit, s + b) /\ r - Lesser(b, r) = Limit - Lesser(Limit, s + b)
    BY <1>4, <1>7, NextBegins
  <2>4. Lesser(Limit, s + b) + pos' = Lesser(Limit, s + b)
    <3>1. Lesser(Limit, s + b) \in Nat
      BY <1>7 DEF Lesser
    <3> QED BY <2>1, <3>1
  <2>5. PICK m : m = at_run + 1 /\ m = at_run'
    BY <2>1
  <2>6. Len(data') = Lesser(Limit, SizeBefore(m)) + pos' /\ remaining' = Limit - Lesser(Limit, SizeBefore(m))
    BY <1>4, <2>1, <2>2, <2>3, <2>4, <2>5
  <2>7. \A p \in DOMAIN data' : data'[p] = ByteAt(p - 1)
    BY <1>4, <2>1 DEF InPlace
  <2> QED BY <1>1, <2>5, <2>6, <2>7, PlacedNext
<1> QED BY <1>5, <1>6

\* The end of reading cuts what was read, or drops it.
LEMMA EndTaken ==
  ASSUME RunTypes, Placed, SeekFails \/ RunEnd
  PROVE  Placed'
<1>1. Rereads /\ at_run' = at_run /\ rstep' # "read" /\ data \in Seq(Elem)
  BY DEF SeekFails, RunEnd, Rereads, RunTypes
<1>2. attr \in Attributes /\ attr.real_size \in Nat /\ Len(data) \in Nat /\ DOMAIN data = 1..Len(data)
  BY <1>1, RunAssumption, LenProperties DEF RunTypes
<1>3. ASSUME InPlace PROVE \A p \in DOMAIN data' : data'[p] = ByteAt(p - 1)
  <2>1. CASE SeekFails
    <3>1. DOMAIN data' = {}
      BY <2>1 DEF SeekFails
    <3> QED BY <3>1
  <2>2. CASE RunEnd /\ attr.reader = "all"
    <3> DEFINE m == Lesser(Len(data), attr.real_size)
    <3>1. m \in Nat /\ m <= Len(data)
      BY <1>2 DEF Lesser
    <3> HIDE DEF m
    <3>2. data' = SubSeq(data, 1, m)
      BY <2>2 DEF RunEnd, m
    <3>3. \A i \in 1..m : i \in 1..Len(data) /\ data[i] \in Elem
      <4>1. \A i \in 1..m : i \in 1..Len(data)
        BY <1>2, <3>1
      <4> QED BY <1>1, <4>1, ElementOfSeq
    <3>4. /\ SubSeq(data, 1, m) \in Seq(Elem)
          /\ Len(SubSeq(data, 1, m)) = IF 1 <= m THEN m - 1 + 1 ELSE 0
          /\ \A i \in 1..(m - 1 + 1) : SubSeq(data, 1, m)[i] = data[1 + i - 1]
      BY <1>1, <1>2, <3>1, <3>3, SubSeqProperties
    <3>5. m - 1 + 1 = m /\ ((IF 1 <= m THEN m ELSE 0) = m) /\ \A i \in 1..m : 1 + i - 1 = i
      BY <3>1
    <3>6. Len(data') = m /\ DOMAIN data' = 1..m /\ \A i \in 1..m : data'[i] = data[i]
      <4>1. Len(data') = m /\ \A i \in 1..m : data'[i] = data[i]
        BY <3>2, <3>4, <3>5
      <4>2. DOMAIN data' = 1..Len(data')
        BY <3>2, <3>4, LenProperties
      <4> QED BY <4>1, <4>2
    <3> QED BY <1>2, <1>3, <3>3, <3>6 DEF InPlace
  <2>3. CASE RunEnd /\ attr.reader # "all"
    <3>1. data' = data
      BY <2>3 DEF RunEnd
    <3> QED BY <1>3, <3>1 DEF InPlace
  <2> QED BY <2>1, <2>2, <2>3
<1>4. PICK m : m = at_run /\ m = at_run'
  BY <1>1
<1>5. WholeRuns(m - 2) => InPlace
  BY <1>4 DEF Placed
<1> QED BY <1>1, <1>3, <1>4, <1>5, PlacedNext

\* What a range has of the first clusters of the file.
CoveredUpTo(f, l, e) == Greater(0, Lesser(l + 1, e) - f)

\* Where the part of a range is that is in a run from cluster v up to cluster e.
CoversPart(f, l, v, e, from, n) ==
  /\ from \in Nat /\ v <= from /\ n \in Int /\ (n <= 0 => CoveredUpTo(f, l, e) = CoveredUpTo(f, l, v))
  /\ n > 0 => /\ CoveredUpTo(f, l, e) = CoveredUpTo(f, l, v) + n /\ from = f + CoveredUpTo(f, l, v)
              /\ from + n <= e

\* The clusters of a range in one run are those it has up to its end and not up to its start.
LEMMA CoveredPart ==
  ASSUME NEW f \in Nat, NEW l \in Nat, NEW v \in Nat, NEW e \in Nat, v <= e
  PROVE  CoversPart(f, l, v, e, Greater(v, f), Lesser(e - 1, l) - Greater(v, f) + 1)
         /\ CoveredUpTo(f, l, v) \in Nat /\ CoveredUpTo(f, l, e) \in Nat
BY DEF CoversPart, CoveredUpTo, Greater, Lesser

\* What a range has in a run: the bytes of the run from the first cluster that both have.
RangePart(part, run, f, a, b) ==
  /\ part \in Seq(Elem) /\ a <= b /\ Len(part) = (b - a) * RunClusterSize
  /\ \A k \in 1..Len(part) : \E q \in Nat :
       /\ q < RunBytes(run) /\ run.vcn * RunClusterSize + q = (f + a) * RunClusterSize + (k - 1)
       /\ part[k] = IF run.sparse THEN Hole ELSE run.lcn * RunClusterSize + q

\* The part of a range that is in a run.
LEMMA PartOfRange ==
  ASSUME NEW run \in DataRun, NEW f \in Nat, NEW l \in Nat, NEW a \in Nat, NEW b \in Nat,
         attr \in Attributes, InImage(run), a = CoveredUpTo(f, l, run.vcn), b = CoveredUpTo(f, l, run.vcn + run.count)
  PROVE  RangePart(VcnRangePart(run, f, l), run, f, a, b)
<1>0. SUFFICES /\ VcnRangePart(run, f, l) \in Seq(Elem) /\ a <= b
               /\ Len(VcnRangePart(run, f, l)) = (b - a) * RunClusterSize
               /\ \A k \in 1..Len(VcnRangePart(run, f, l)) : \E q \in Nat :
                    /\ q < RunBytes(run) /\ run.vcn * RunClusterSize + q = (f + a) * RunClusterSize + (k - 1)
                    /\ VcnRangePart(run, f, l)[k] = IF run.sparse THEN Hole ELSE run.lcn * RunClusterSize + q
  BY Zenon DEF RangePart
<1>1. PICK size \in Nat \ {0}, v \in Nat, c \in Nat, m \in Int, e \in Nat :
        size = RunClusterSize /\ v = run.vcn /\ c = run.count /\ m = run.lcn /\ e = v + c
  <2>1. run.vcn \in Nat /\ run.count \in Nat /\ run.lcn \in Int
    BY DEF DataRun
  <2>2. run.vcn + run.count \in Nat
    BY <2>1
  <2>3. RunClusterSize \in Nat \ {0}
    BY RunAssumption
  <2> QED BY <2>1, <2>2, <2>3
<1> DEFINE from == Greater(v, f)
           n == Lesser(e - 1, l) - from + 1
<1>2. /\ from \in Nat /\ v <= from /\ n \in Int /\ (n <= 0 => b = a)
      /\ n > 0 => b = a + n /\ from = f + a /\ from + n <= e
  <2>1. v <= e
    BY <1>1
  <2>2. a = CoveredUpTo(f, l, v) /\ b = CoveredUpTo(f, l, e)
    BY <1>1
  <2>3. CoversPart(f, l, v, e, from, n)
    BY <2>1, CoveredPart
  <2> HIDE DEF n, from
  <2> QED BY <2>2, <2>3 DEF CoversPart
<1>3. VcnRangePart(run, f, l) = IF n <= 0 THEN <<>>
                                ELSE IF run.sparse THEN Holes(n * size)
                                ELSE ImageBytes((m + (from - v)) * size, n * size)
  <2>1. LastVcn(run) = e - 1
    <3>1. \A x, y \in Nat : x + y - 1 = (x + y) - 1
      OBVIOUS
    <3> QED BY <1>1, <3>1 DEF LastVcn
  <2> QED BY <1>1, <2>1 DEF VcnRangePart
<1> HIDE DEF n, from
<1>4. CASE n <= 0
  <2>1. VcnRangePart(run, f, l) = <<>> /\ b = a
    BY <1>2, <1>3, <1>4
  <2>2. (b - a) * size = 0
    BY <1>1, <2>1
  <2> QED BY <1>1, <2>1, <2>2, EmptySeq
<1>5. CASE ~(n <= 0)
  <2>1. b = a + n /\ from = f + a /\ from + n <= e /\ n \in Nat /\ n > 0
    BY <1>2, <1>5
  <2>2. PICK d \in Nat : d = from - v /\ d + n <= c
    <3>1. from - v \in Nat /\ (from - v) + n <= c
      BY <1>1, <1>2, <2>1
    <3> QED BY <3>1
  <2>3. b - a = n /\ a <= b
    BY <2>1
  <2>4. PICK p \in Nat, w \in Nat, g \in Nat, z \in Nat :
          p = d * size /\ w = n * size /\ g = c * size /\ z = v * size /\ p + w <= g
    <3>1. (d + n) * size <= c * size
      BY <1>1, <2>1, <2>2
    <3>2. (d + n) * size = d * size + n * size
      BY <1>1, <2>1, <2>2
    <3>3. d * size \in Nat /\ n * size \in Nat /\ c * size \in Nat /\ v * size \in Nat
      BY <1>1, <2>1, <2>2
    <3> QED BY <3>1, <3>2, <3>3
  <2>5. RunBytes(run) = g
    BY <1>1, <2>4 DEF RunBytes
  <2>6. (f + a) * size = z + p
    <3>1. f + a = v + d
      BY <1>1, <2>1, <2>2
    <3>2. (v + d) * size = v * size + d * size
      BY <1>1, <2>2
    <3> QED BY <2>4, <3>1, <3>2
  <2>7. \A k \in 1..w : /\ p + (k - 1) \in Nat /\ p + (k - 1) < g
                        /\ z + (p + (k - 1)) = (z + p) + (k - 1)
    BY <2>4
  <2>8. CASE run.sparse
    <3>1. PICK bytes \in Seq(Elem) : bytes = Holes(w) /\ Len(bytes) = w /\ \A k \in 1..w : bytes[k] = Hole
      BY <2>4, HolesType
    <3>2. VcnRangePart(run, f, l) = bytes
      BY <1>3, <1>5, <2>4, <2>8, <3>1
    <3>3. \A k \in 1..w : \E q \in Nat : /\ q < g /\ z + q = (f + a) * size + (k - 1)
                                         /\ bytes[k] = Hole
      BY <2>6, <2>7, <3>1
    <3> QED BY <1>1, <2>3, <2>4, <2>5, <2>8, <3>1, <3>2, <3>3
  <2>9. CASE ~run.sparse
    <3>1. PICK o \in Nat : o = m * size + p /\ Lesser(w, Greater(0, attr.image - o)) = w
      <4>1. w <= RunBytes(run) /\ p + w <= RunBytes(run)
        BY <2>4, <2>5
      <4>2. /\ run.lcn * RunClusterSize + p \in Nat
            /\ Lesser(w, Greater(0, attr.image - (run.lcn * RunClusterSize + p))) = w
        BY <2>4, <2>9, <4>1, WholePart
      <4> QED BY <1>1, <4>2
    <3>2. (m + (from - v)) * size = o
      <4>1. (m + d) * size = m * size + d * size
        <5>1. \A x \in Int, y, t \in Nat : (x + y) * t = x * t + y * t
          OBVIOUS
        <5> QED BY <1>1, <5>1
      <4> QED BY <2>2, <2>4, <3>1, <4>1
    <3>3. PICK bytes \in Seq(Elem) : bytes = ImageBytes(o, w) /\ Len(bytes) = w /\ \A k \in 1..w : bytes[k] = o + k - 1
      <4>1. /\ ImageBytes(o, w) \in Seq(Elem)
            /\ Len(ImageBytes(o, w)) = Lesser(w, Greater(0, attr.image - o))
            /\ \A k \in 1..Len(ImageBytes(o, w)) : ImageBytes(o, w)[k] = o + k - 1
        BY ImageType
      <4> QED BY <3>1, <4>1
    <3>4. VcnRangePart(run, f, l) = bytes
      BY <1>3, <1>5, <2>4, <2>9, <3>2, <3>3
    <3>5. \A k \in 1..w : bytes[k] = m * size + (p + (k - 1))
      <4>1. m * size \in Int
        BY <1>1
      <4>2. \A x \in Int, y \in Nat, k \in Nat : (x + y) + k - 1 = x + (y + (k - 1))
        OBVIOUS
      <4>3. \A k \in 1..w : k \in Nat
        BY <2>4
      <4> QED BY <2>4, <3>1, <3>3, <4>1, <4>2, <4>3
    <3>6. \A k \in 1..w : \E q \in Nat : /\ q < g /\ z + q = (f + a) * size + (k - 1)
                                         /\ bytes[k] = m * size + q
      BY <2>6, <2>7, <3>5
    <3>7. ASSUME NEW k \in 1..w
          PROVE  \E q \in Nat :
                   /\ q < RunBytes(run) /\ run.vcn * RunClusterSize + q = (f + a) * RunClusterSize + (k - 1)
                   /\ bytes[k] = IF run.sparse THEN Hole ELSE run.lcn * RunClusterSize + q
      <4>1. PICK q \in Nat : q < g /\ z + q = (f + a) * size + (k - 1) /\ bytes[k] = m * size + q
        BY <3>6
      <4>2. z = run.vcn * RunClusterSize
        BY <1>1, <2>4
      <4> QED BY <1>1, <2>5, <2>9, <4>1, <4>2
    <3>8. w = (b - a) * RunClusterSize
      BY <1>1, <2>3, <2>4
    <3>9. VcnRangePart(run, f, l) \in Seq(Elem) /\ Len(VcnRangePart(run, f, l)) = (b - a) * RunClusterSize
      BY <3>3, <3>4, <3>8, Zenon
    <3>10. \A k \in 1..Len(VcnRangePart(run, f, l)) : \E q \in Nat :
             /\ q < RunBytes(run) /\ run.vcn * RunClusterSize + q = (f + a) * RunClusterSize + (k - 1)
             /\ VcnRangePart(run, f, l)[k] = IF run.sparse THEN Hole ELSE run.lcn * RunClusterSize + q
      BY <3>3, <3>4, <3>7, Zenon
    <3> QED BY <2>3, <3>9, <3>10, Zenon
  <2> QED BY <2>8, <2>9
<1> QED BY <1>4, <1>5

\* What a range has in a run is that part of the file.
PartPlaced(part, f, a, b) ==
  /\ part \in Seq(Elem) /\ a <= b /\ Len(part) = (b - a) * RunClusterSize
  /\ \A k \in 1..Len(part) : part[k] = ByteAt((f + a) * RunClusterSize + (k - 1))

\* The bytes that a range has in one run.
LEMMA PartInPlace ==
  ASSUME NEW h, NEW i \in 1..Len(resolved), NEW f \in Nat, NEW l \in Nat, NEW a \in Nat, NEW b \in Nat,
         attr \in Attributes, resolved \in Seq(DataRun), CountsTo(h, resolved),
         InImage(resolved[i]), a = CoveredUpTo(f, l, h[i - 1]), b = CoveredUpTo(f, l, h[i])
  PROVE  PartPlaced(VcnRangePart(resolved[i], f, l), f, a, b)
<1>1. PICK run \in DataRun : run = resolved[i]
  BY ElementOfSeq
<1>2. run.vcn = h[i - 1] /\ run.vcn + run.count = h[i] /\ InImage(run)
  BY <1>1 DEF CountsTo
<1>3. /\ VcnRangePart(run, f, l) \in Seq(Elem) /\ a <= b
      /\ Len(VcnRangePart(run, f, l)) = (b - a) * RunClusterSize
      /\ \A k \in 1..Len(VcnRangePart(run, f, l)) : \E q \in Nat :
           /\ q < RunBytes(run) /\ run.vcn * RunClusterSize + q = (f + a) * RunClusterSize + (k - 1)
           /\ VcnRangePart(run, f, l)[k] = IF run.sparse THEN Hole ELSE run.lcn * RunClusterSize + q
  <2>1. a = CoveredUpTo(f, l, run.vcn) /\ b = CoveredUpTo(f, l, run.vcn + run.count)
    BY <1>2
  <2>2. RangePart(VcnRangePart(run, f, l), run, f, a, b)
    BY <1>2, <2>1, PartOfRange
  <2> QED BY <2>2, Zenon DEF RangePart
<1>4. ASSUME NEW k \in 1..Len(VcnRangePart(run, f, l))
      PROVE  VcnRangePart(run, f, l)[k] = ByteAt((f + a) * RunClusterSize + (k - 1))
  <2>1. PICK q \in Nat :
           /\ q < RunBytes(run) /\ run.vcn * RunClusterSize + q = (f + a) * RunClusterSize + (k - 1)
           /\ VcnRangePart(run, f, l)[k] = IF run.sparse THEN Hole ELSE run.lcn * RunClusterSize + q
    BY <1>3
  <2>2. run.sparse \/ run.lcn >= 0
    BY <1>2 DEF InImage
  <2>3. ByteAt(h[i - 1] * RunClusterSize + q) = IF run.sparse THEN Hole ELSE run.lcn * RunClusterSize + q
    BY <1>1, <2>1, <2>2, ByteOfRun
  <2> QED BY <1>2, <2>1, <2>3, Zenon
<1> QED BY <1>1, <1>3, <1>4, Zenon DEF PartPlaced

\* A range of clusters read on its own is that part of the file.
LEMMA RangeRight ==
  ASSUME RunTypes, Listed
  PROVE  RangeInPlace
<1> SUFFICES ASSUME rstep = "read", \A i \in DOMAIN resolved : InImage(resolved[i]), NEW f \in 0..3, NEW l \in 0..3
             PROVE  \A p \in DOMAIN ReadVcnRange(f, l) :
                       ReadVcnRange(f, l)[p] = ByteAt(f * RunClusterSize + p - 1)
  BY DEF RangeInPlace
<1> DEFINE n == Len(resolved)
<1>1. /\ n \in Nat /\ DOMAIN resolved = 1..n /\ resolved \in Seq(DataRun) /\ attr \in Attributes
      /\ f \in Nat /\ l \in Nat
  BY LenProperties DEF RunTypes
<1>2. PICK h : CountsTo(h, resolved)
  BY RunsBehind DEF Listed
<1>3. PICK size \in Nat : size = RunClusterSize
  BY RunAssumption
<1> DEFINE c == [i \in 0..n |-> CoveredUpTo(f, l, h[i])]
           s == [i \in 0..n |-> c[i] * size]
           part == [i \in 1..n |-> VcnRangePart(resolved[i], f, l)]
           lens == [i \in 1..Len(part) |-> Len(part[i])]
<1>4. /\ c \in [0..n -> Nat] /\ c[0] = 0 /\ \A i \in 0..n : c[i] = CoveredUpTo(f, l, h[i])
  <2>1. h \in [0..n -> Nat] /\ h[0] = 0
    BY <1>2 DEF CountsTo, SumsTo
  <2>2. \A i \in 0..n : CoveredUpTo(f, l, h[i]) \in Nat
    <3> SUFFICES ASSUME NEW i \in 0..n PROVE CoveredUpTo(f, l, h[i]) \in Nat
      OBVIOUS
    <3>1. PICK v \in Nat : v = h[i]
      BY <2>1
    <3>2. v <= v
      OBVIOUS
    <3>3. CoveredUpTo(f, l, v) \in Nat
      BY <1>1, <3>2, CoveredPart
    <3> QED BY <3>1, <3>3
  <2>3. CoveredUpTo(f, l, 0) = 0
    BY <1>1 DEF CoveredUpTo, Greater, Lesser
  <2>4. 0 \in 0..n
    BY <1>1
  <2> HIDE DEF n
  <2> QED BY <2>1, <2>2, <2>3, <2>4
<1> HIDE DEF c
<1>5. ASSUME NEW i \in 1..n
      PROVE  /\ part[i] \in Seq(Elem) /\ i - 1 \in 0..n /\ i \in 0..n /\ c[i - 1] <= c[i]
             /\ Len(part[i]) = (c[i] - c[i - 1]) * RunClusterSize
             /\ \A k \in 1..Len(part[i]) : part[i][k] = ByteAt((f + c[i - 1]) * RunClusterSize + (k - 1))
  <2>1. i - 1 \in 0..n /\ i \in 0..n
    BY <1>1
  <2>2. PICK a \in Nat, b \in Nat : a = c[i - 1] /\ b = c[i]
    BY <1>4, <2>1
  <2>3. a = CoveredUpTo(f, l, h[i - 1]) /\ b = CoveredUpTo(f, l, h[i]) /\ InImage(resolved[i])
    BY <1>1, <1>4, <2>1, <2>2
  <2>4. PartPlaced(VcnRangePart(resolved[i], f, l), f, a, b)
    BY <1>1, <1>2, <2>3, PartInPlace
  <2>5. part[i] = VcnRangePart(resolved[i], f, l)
    OBVIOUS
  <2> HIDE DEF part, n
  <2> QED BY <2>1, <2>2, <2>4, <2>5, Zenon DEF PartPlaced
<1>6. part \in Seq(Seq(Elem)) /\ Len(part) = n
  <2>1. \A i \in 1..n : part[i] \in Seq(Elem)
    BY <1>5
  <2> HIDE DEF n
  <2> QED BY <1>1, <2>1, LenProperties, IsASeq
<1>7. ReadVcnRange(f, l) = FlattenSeq(part)
  BY <1>1 DEF ReadVcnRange
<1> HIDE DEF part, n
<1>8. ASSUME NEW i \in 1..n
      PROVE  s[i] = s[i - 1] + Len(part[i]) /\ s[i - 1] \in Nat /\ s[i] \in Nat /\ s[i - 1] = c[i - 1] * size
  <2>1. PICK a \in Nat, b \in Nat : a = c[i - 1] /\ b = c[i] /\ a <= b
    BY <1>4, <1>5
  <2>2. s[i - 1] = a * size /\ s[i] = b * size /\ Len(part[i]) = (b - a) * size
    BY <1>3, <1>5, <2>1
  <2>3. \A x, y, z \in Nat : x <= y => y * z = x * z + (y - x) * z /\ x * z \in Nat /\ y * z \in Nat
    <3> SUFFICES ASSUME NEW x \in Nat, NEW y \in Nat, NEW z \in Nat, x <= y
                 PROVE  y * z = x * z + (y - x) * z /\ x * z \in Nat /\ y * z \in Nat
      OBVIOUS
    <3>1. PICK d \in Nat : d = y - x /\ y = x + d
      <4>1. y - x \in Nat /\ y = x + (y - x)
        OBVIOUS
      <4> QED BY <4>1
    <3>2. (x + d) * z = x * z + d * z
      OBVIOUS
    <3> QED BY <3>1, <3>2
  <2>4. b * size = a * size + (b - a) * size /\ a * size \in Nat /\ b * size \in Nat
    BY <1>3, <2>1, <2>3
  <2> QED BY <2>1, <2>2, <2>4, Zenon
<1>9. s \in [0..n -> Nat] /\ s[0] = 0
  <2>1. ASSUME NEW i \in 0..n PROVE c[i] * size \in Nat
    <3>1. PICK a \in Nat : a = c[i]
      BY <1>4
    <3>2. a * size \in Nat
      BY <1>3
    <3> QED BY <3>1, <3>2
  <2>2. 0 * size = 0 /\ 0 \in 0..n
    BY <1>1, <1>3
  <2>3. s[0] = c[0] * size
    BY <2>2
  <2> QED BY <1>4, <2>1, <2>2, <2>3
<1> HIDE DEF s
<1>10. SumsTo(s, n, lens)
  BY <1>6, <1>8, <1>9 DEF SumsTo
<1>11. FlattenSeq(part) \in Seq(Elem) /\ Len(FlattenSeq(part)) = s[n]
       /\ \A i \in 1..n : \A k \in 1..Len(part[i]) : FlattenSeq(part)[s[i - 1] + k] = part[i][k]
  <2>1. FlattenSeq(part) \in Seq(Elem) /\ PartPlaces(s, part, FlattenSeq(part))
    BY <1>6, <1>10, FlattenPlaces
  <2> QED BY <1>6, <2>1 DEF PartPlaces
<1>12. ASSUME NEW p \in 1..s[n] PROVE FlattenSeq(part)[p] = ByteAt(f * RunClusterSize + p - 1)
  <2> DEFINE T == {j \in 0..n : p <= s[j]}
  <2>1. p \in Nat /\ p > 0 /\ n \in T
    BY <1>1, <1>9
  <2>2. T \in SUBSET Nat
    BY <1>1
  <2> HIDE DEF T
  <2>3. PICK i \in T : \A y \in T : i <= y
    BY <2>1, <2>2, LeastNatural
  <2>4. i \in 0..n /\ p <= s[i]
    BY <2>3 DEF T
  <2>5. i \in 1..n
    BY <1>1, <1>9, <2>1, <2>4
  <2>6. s[i - 1] < p
    <3>1. i - 1 \in 0..n /\ ~(i <= i - 1)
      BY <1>1, <2>5
    <3>2. i - 1 \notin T
      BY <2>3, <3>1
    <3> QED BY <1>9, <2>1, <3>1, <3>2 DEF T
  <2>7. PICK k \in 1..Len(part[i]) : p = s[i - 1] + k
    <3>1. p - s[i - 1] \in 1..Len(part[i]) /\ p = s[i - 1] + (p - s[i - 1])
      <4>1. Len(part[i]) \in Nat
        BY <1>5, <2>5, LenProperties
      <4> QED BY <1>8, <2>1, <2>4, <2>5, <2>6, <4>1
    <3> QED BY <3>1
  <2>8. FlattenSeq(part)[p] = ByteAt((f + c[i - 1]) * size + (k - 1))
    BY <1>3, <1>5, <1>11, <2>5, <2>7
  <2>9. PICK a \in Nat : a = c[i - 1]
    BY <1>4, <1>5, <2>5
  <2>10. (f + a) * size + (k - 1) = f * size + p - 1
    <3>1. p = a * size + k /\ k \in Nat
      BY <1>8, <2>5, <2>7, <2>9
    <3>2. \A x, y, z \in Nat : (x + y) * z = x * z + y * z /\ x * z \in Nat /\ y * z \in Nat
      OBVIOUS
    <3>3. PICK u \in Nat, v \in Nat : u = f * size /\ v = a * size /\ (f + a) * size = u + v
      <4>1. f \in Nat /\ a \in Nat /\ size \in Nat
        BY <1>1
      <4>2. (f + a) * size = f * size + a * size /\ f * size \in Nat /\ a * size \in Nat
        BY <3>2, <4>1
      <4> QED BY <4>2
    <3>4. \A x, y, w \in Nat : (x + y) + (w - 1) = x + (y + w) - 1
      OBVIOUS
    <3>5. (u + v) + (k - 1) = u + (v + k) - 1
      BY <3>1, <3>4
    <3> QED BY <3>1, <3>3, <3>5, Zenon
  <2> QED BY <1>3, <2>8, <2>9, <2>10, Zenon
<1> QED BY <1>7, <1>11, <1>12, LenProperties

\* What the readers of a file are compared with.
RunsKept == RunInv /\ Listed /\ Placed

\* Nothing is parsed or read at the start.
LEMMA RunsKeptStarts == RunInit => RunsKept
<1> SUFFICES ASSUME RunInit PROVE RunsKept
  OBVIOUS
<1>1. RunInv
  BY RunStarts
<1>2. rstep # "read" /\ DOMAIN data = {}
  BY DEF RunInit
<1> QED BY <1>1, <1>2 DEF RunsKept, Listed, Placed, InPlace

\* The run list is parsed and resolved before anything is read.
LEMMA ResolvePlaces ==
  ASSUME RunInv, Resolve
  PROVE  Listed' /\ Placed'
<1>1. /\ RunTypes /\ RunTypes' /\ data' = <<>> /\ at_run' = 1 /\ pos' = 0 /\ remaining' = Limit
      /\ rstep' = "read" /\ attr' = attr /\ attr \in Attributes
  BY ResolveTypes DEF RunInv, RunTypes
<1>2. data_runs' = ParseRunlist(attr.bytes) /\ resolved' = ResolveRunlist(data_runs')
  BY DEF Resolve
<1>3. ResolvedFrom(data_runs', resolved')
  <2>1. PICK list \in Seq(ParsedRun) : list = ParseRunlist(attr.bytes)
    <3>1. attr.bytes \in Seq(Byte8)
      BY <1>1, RunAssumption DEF Byte8
    <3> QED BY <3>1, ParseType
  <2>2. ResolvedFrom(list, ResolveRunlist(list))
    BY ResolveRight
  <2> QED BY <1>2, <2>1, <2>2 DEF ResolvedFrom
<1>4. Listed'
  BY <1>1, <1>2, <1>3 DEF Listed, ResolvedFrom
<1>5. Limit' = Limit /\ Limit \in Nat
  BY <1>1, RunAssumption DEF Limit
<1>6. SizeBefore(at_run)' = 0
  BY <1>1 DEF SizeBefore
<1>7. Len(data') = 0 /\ DOMAIN data' = {}
  BY <1>1
<1>8. Lesser(Limit', 0) = 0 /\ Limit' - 0 = Limit'
  BY <1>5 DEF Lesser
<1>9. Len(data') = Lesser(Limit', SizeBefore(at_run)') + pos' /\ remaining' = Limit' - Lesser(Limit', SizeBefore(at_run)')
  BY <1>1, <1>5, <1>6, <1>7, <1>8
<1>10. Placed'
  BY <1>7, <1>9 DEF Placed, InPlace
<1> QED BY <1>4, <1>10

\* Every step of reading keeps it.
LEMMA RunsKeptSteps == RunsKept /\ [RunNext]_runVars => RunsKept'
<1> SUFFICES ASSUME RunsKept, [RunNext]_runVars PROVE RunsKept'
  OBVIOUS
<1>1. RunInv /\ RunInv' /\ RunTypes /\ Listed /\ Placed
  BY RunSteps DEF RunsKept, RunInv
<1>2. ASSUME Rereads, rstep' = "read" => rstep = "read" PROVE Listed'
  BY <1>1, <1>2 DEF Rereads, Listed, ResolvedFrom
<1>3. CASE Resolve
  BY <1>1, <1>3, ResolvePlaces DEF RunsKept
<1>4. CASE FillHole \/ ReadRun \/ SkipBefore
  <2>1. Rereads /\ rstep = "read"
    BY <1>4 DEF FillHole, ReadRun, SkipBefore, Reading, Rereads
  <2> QED BY <1>1, <1>2, <1>4, <2>1, RunTaken DEF RunsKept
<1>5. CASE ReadChunk \/ ChunksOver
  <2>1. Rereads /\ rstep = "read"
    BY <1>5 DEF ReadChunk, ChunksOver, Reading, Rereads
  <2> QED BY <1>1, <1>2, <1>5, <2>1, ChunkTaken DEF RunsKept
<1>6. CASE SeekFails \/ RunEnd
  <2>1. Rereads /\ rstep = "read"
    BY <1>6 DEF SeekFails, RunEnd, Reading, Rereads
  <2> QED BY <1>1, <1>2, <1>6, <2>1, EndTaken DEF RunsKept
<1>7. CASE UNCHANGED runVars
  <2>1. UNCHANGED <<attr, rstep, data_runs, resolved, at_run, pos, remaining, data>> /\ Rereads
    BY <1>7 DEF runVars, Rereads
  <2>2. PICK m, r, l : m = at_run /\ r = remaining /\ l = Len(data)
    OBVIOUS
  <2>3. at_run' = m /\ remaining' = r /\ Len(data') = l
    BY <2>1, <2>2
  <2>4. /\ WholeRuns(m - 2) => \A p \in DOMAIN data' : data'[p] = ByteAt(p - 1)
        /\ (rstep' = "read" /\ WholeRuns(m - 1)) =>
             l = Lesser(Limit, SizeBefore(m)) + pos' /\ r = Limit - Lesser(Limit, SizeBefore(m))
    BY <1>1, <2>1, <2>2 DEF Placed, InPlace
  <2>5. Placed'
    BY <2>1, <2>3, <2>4, PlacedNext
  <2> QED BY <1>1, <1>2, <2>1, <2>5 DEF RunsKept
<1> QED BY <1>3, <1>4, <1>5, <1>6, <1>7 DEF RunNext

\* What is parsed is the file, and what is read is what was parsed.
LEMMA RunsKeptRight == RunsKept => RunsRight
<1> SUFFICES ASSUME RunsKept PROVE RunsRight
  OBVIOUS
<1>1. RunTypes /\ Listed /\ Placed /\ attr \in Attributes
  BY DEF RunsKept, RunInv, RunTypes
<1>2. ParsesBack
  <2>1. CASE rstep = "read"
    BY <1>1, <2>1, FormatParses DEF Listed
  <2>2. CASE rstep # "read"
    BY <2>2 DEF ParsesBack
  <2> QED BY <2>1, <2>2
<1>3. RunsTile /\ RangeInPlace
  BY <1>1, TilesFile, RangeRight
<1>4. ReadInPlace
  BY <1>1 DEF ReadInPlace, Placed, WholeRuns, InPlace
<1> QED BY <1>2, <1>3, <1>4 DEF RunsRight, RunsDescribeFile, ReadersRight

\* A run list in the format of NTFS is parsed back to its runs, which tile the file; and every
\* byte that a reader or a range of clusters has is the one the clusters of the file name.
THEOREM RunsDescribed == RunSpec => []RunsRight
<1>1. RunSpec => []RunsKept
  BY RunsKeptStarts, RunsKeptSteps, PTL DEF RunSpec
<1> QED BY <1>1, RunsKeptRight, PTL

-----------------------------------------------------------------------------
(* Part 10: the walk over the master file table.                            *)

\* kept is what of the first n elements of a list is in a set, and g the places it is from.
Picked(kept, list, set, g, n) ==
  /\ g \in [1..Len(kept) -> 1..n]
  /\ \A a \in 1..Len(kept) : kept[a] = list[g[a]] /\ kept[a] \in set
  /\ \A a, b \in 1..Len(kept) : a < b => g[a] < g[b]
  /\ \A i \in 1..n : list[i] \in set => \E a \in 1..Len(kept) : g[a] = i

\* The elements that are in a set are picked in the order of the list, each once.
LEMMA ThoseRight ==
  ASSUME NEW S, NEW list \in Seq(S), NEW set
  PROVE  /\ Those(list, set) \in Seq(S)
         /\ \E g : Picked(Those(list, set), list, set, g, Len(list))
<1> DEFINE n == Len(list)
           V == Seq(S)
           Equation(f) == f = [i \in 0..n |->
                                 IF i = 0 THEN <<>>
                                 ELSE IF list[i] \in set THEN Append(f[i - 1], list[i]) ELSE f[i - 1]]
           step == [p \in (1..n) \X V |-> IF list[p[1]] \in set THEN Append(p[2], list[p[1]]) ELSE p[2]]
<1>1. n \in Nat /\ (\A i \in 1..n : list[i] \in S) /\ <<>> \in V /\ Len(<<>>) = 0
  BY LenProperties, ElementOfSeq, EmptySeq
<1> HIDE DEF n, V
<1>2. step \in [(1..n) \X V -> V]
  <2>1. ASSUME NEW p \in (1..n) \X V PROVE (IF list[p[1]] \in set THEN Append(p[2], list[p[1]]) ELSE p[2]) \in V
    <3>1. p[1] \in 1..n /\ p[2] \in V /\ list[p[1]] \in S
      BY <1>1
    <3>2. Append(p[2], list[p[1]]) \in V
      BY <3>1, AppendProperties DEF V
    <3> QED BY <3>1, <3>2
  <2> QED BY <2>1
<1>3. PICK f : Recurs(f, n, V, <<>>, step)
  <2> HIDE DEF step
  <2> QED BY <1>1, <1>2, Recursion, Zenon
<1>4. /\ f \in [0..n -> V] /\ f[0] = <<>>
      /\ \A i \in 1..n : f[i] = IF list[i] \in set THEN Append(f[i - 1], list[i]) ELSE f[i - 1]
  <2>1. f \in [0..n -> V] /\ f[0] = <<>> /\ \A i \in 1..n : f[i] = step[<<i, f[i - 1]>>]
    BY <1>3 DEF Recurs
  <2>2. ASSUME NEW i \in 1..n PROVE f[i] = IF list[i] \in set THEN Append(f[i - 1], list[i]) ELSE f[i - 1]
    <3>1. i - 1 \in 0..n
      BY <1>1
    <3>2. f[i - 1] \in V /\ f[i] = step[<<i, f[i - 1]>>]
      BY <2>1, <3>1
    <3>3. step[<<i, f[i - 1]>>] = IF list[i] \in set THEN Append(f[i - 1], list[i]) ELSE f[i - 1]
      BY <3>2
    <3> HIDE DEF step
    <3> QED BY <3>2, <3>3
  <2> QED BY <2>1, <2>2
<1>5. Equation(f)
  <2>1. ASSUME NEW i \in 0..n
        PROVE  f[i] = IF i = 0 THEN <<>> ELSE IF list[i] \in set THEN Append(f[i - 1], list[i]) ELSE f[i - 1]
    <3>1. CASE i = 0
      BY <1>4, <3>1
    <3>2. CASE i # 0
      <4>1. i \in 1..n
        BY <1>1, <3>2
      <4> QED BY <1>4, <3>2, <4>1
    <3> QED BY <3>1, <3>2
  <2>2. f = [i \in 0..n |-> f[i]]
    BY <1>4
  <2> QED BY <2>1, <2>2
<1>6. PICK k : Equation(k) /\ Those(list, set) = k[n]
  <2> HIDE DEF Equation
  <2>1. Equation(CHOOSE h : Equation(h))
    BY <1>5
  <2>2. Those(list, set) = (CHOOSE h : Equation(h))[n]
    BY DEF Those, Equation, n
  <2> QED BY <2>1, <2>2
<1>7. /\ k[0] = <<>>
      /\ \A i \in 1..n : k[i] = IF list[i] \in set THEN Append(k[i - 1], list[i]) ELSE k[i - 1]
  <2>1. \A i \in 0..n : k[i] = IF i = 0 THEN <<>> ELSE IF list[i] \in set THEN Append(k[i - 1], list[i]) ELSE k[i - 1]
    BY <1>6
  <2>2. 0 \in 0..n /\ \A i \in 1..n : i \in 0..n /\ i # 0
    BY <1>1
  <2> QED BY <2>1, <2>2
<1> DEFINE P == {i \in 0..n : k[i] \in V /\ \E g : Picked(k[i], list, set, g, i)}
<1>8. 0 \in P
  <2>1. Picked(<<>>, list, set, [a \in 1..0 |-> 0], 0)
    BY <1>1 DEF Picked
  <2> QED BY <1>1, <1>7, <2>1
<1>9. ASSUME NEW i \in 1..n, i - 1 \in P PROVE i \in P
  <2> DEFINE m == i - 1
             s == k[m]
             l == Len(s)
  <2>1. s \in V /\ l \in Nat /\ m \in Nat /\ i = m + 1
    BY <1>1, <1>9, LenProperties DEF V
  <2>2. PICK g : Picked(s, list, set, g, m)
    BY <1>9
  <2>3. /\ g \in [1..l -> 1..m]
        /\ \A a \in 1..l : s[a] = list[g[a]] /\ s[a] \in set
        /\ \A a, b \in 1..l : a < b => g[a] < g[b]
        /\ \A j \in 1..m : list[j] \in set => \E a \in 1..l : g[a] = j
    BY <2>2 DEF Picked
  <2>4. \A j \in 1..i : j \in 1..m \/ j = i
    BY <2>1
  <2>5. k[i] = IF list[i] \in set THEN Append(s, list[i]) ELSE s
    BY <1>7
  <2> HIDE DEF m, s
  <2>6. CASE list[i] \notin set
    <3>1. k[i] = s
      BY <2>5, <2>6
    <3>2. g \in [1..l -> 1..i] /\ \A j \in 1..i : list[j] \in set => \E a \in 1..l : g[a] = j
      BY <2>1, <2>3, <2>4, <2>6
    <3>3. Picked(s, list, set, g, i)
      BY <2>3, <3>2 DEF Picked
    <3> QED BY <1>1, <2>1, <3>1, <3>3
  <2>7. CASE list[i] \in set
    <3>1. /\ k[i] = Append(s, list[i]) /\ k[i] \in V /\ Len(k[i]) = l + 1
          /\ (\A a \in 1..l : k[i][a] = s[a]) /\ k[i][l + 1] = list[i]
      <4>1. k[i] = Append(s, list[i]) /\ list[i] \in S
        BY <1>1, <2>5, <2>7
      <4> QED BY <2>1, <4>1, AppendProperties DEF V
    <3> DEFINE h == [a \in 1..(l + 1) |-> IF a = l + 1 THEN i ELSE g[a]]
    <3>2. \A a \in 1..(l + 1) : (a \in 1..l /\ a # l + 1) \/ a = l + 1
      BY <2>1
    <3>3. l + 1 \in 1..(l + 1) /\ \A a \in 1..l : a \in 1..(l + 1) /\ a # l + 1
      BY <2>1
    <3>4. h[l + 1] = i /\ \A a \in 1..l : h[a] = g[a] /\ g[a] \in 1..m
      BY <2>3, <3>3
    <3>5. h \in [1..(l + 1) -> 1..i]
      <4>1. i \in 1..i /\ \A x \in 1..m : x \in 1..i
        BY <2>1
      <4> QED BY <2>3, <3>2, <4>1
    <3> HIDE DEF h, l
    <3>6. \A a \in 1..(l + 1) : k[i][a] = list[h[a]] /\ k[i][a] \in set
      BY <2>3, <2>7, <3>1, <3>2, <3>4
    <3>7. ASSUME NEW a \in 1..(l + 1), NEW b \in 1..(l + 1), a < b PROVE h[a] < h[b]
      <4>1. a \in 1..l /\ (b \in 1..l \/ b = l + 1)
        BY <2>1, <3>7
      <4>2. CASE b \in 1..l
        BY <2>3, <3>4, <3>7, <4>1, <4>2
      <4>3. CASE b = l + 1
        <5>1. h[a] \in 1..m /\ h[b] = i
          BY <3>4, <4>1, <4>3
        <5> QED BY <2>1, <5>1
      <4> QED BY <4>1, <4>2, <4>3
    <3>8. ASSUME NEW j \in 1..i, list[j] \in set PROVE \E a \in 1..(l + 1) : h[a] = j
      <4>1. CASE j = i
        BY <3>3, <3>4, <4>1
      <4>2. CASE j \in 1..m
        <5>1. PICK a \in 1..l : g[a] = j
          BY <2>3, <3>8, <4>2
        <5> QED BY <3>3, <3>4, <5>1
      <4> QED BY <2>4, <4>1, <4>2
    <3>9. Picked(k[i], list, set, h, i)
      BY <3>1, <3>5, <3>6, <3>7, <3>8 DEF Picked
    <3>10. i \in 0..n /\ \E x : Picked(k[i], list, set, x, i)
      BY <1>1, <3>9
    <3> QED BY <3>1, <3>10
  <2> QED BY <2>6, <2>7
<1>10. n \in P
  <2> HIDE DEF P
  <2>1. n \in 0..n
    BY <1>1
  <2> QED BY <1>1, <1>8, <1>9, <2>1, UpTo
<1> QED BY <1>6, <1>10 DEF n, V

\* A list of numbers that grow, of the members of a set.
InOrder(s, T) ==
  /\ s \in Seq(Nat)
  /\ \A a, b \in 1..Len(s) : a < b => s[a] < s[b]
  /\ {s[a] : a \in 1..Len(s)} = T

\* What is picked of a listing is a listing.
LEMMA ListingOf ==
  ASSUME NEW T, NEW list, NEW set, InOrder(list, T)
  PROVE  InOrder(Those(list, set), T \cap set)
<1> DEFINE s == Those(list, set)
           n == Len(list)
           l == Len(s)
<1>1. /\ list \in Seq(Nat) /\ n \in Nat /\ (\A a, b \in 1..n : a < b => list[a] < list[b])
      /\ {list[a] : a \in 1..n} = T
  BY LenProperties DEF InOrder
<1>2. s \in Seq(Nat) /\ \E g : Picked(s, list, set, g, n)
  BY <1>1, ThoseRight
<1>3. PICK g : Picked(s, list, set, g, n)
  BY <1>2
<1> HIDE DEF s, n
<1>4. /\ g \in [1..l -> 1..n] /\ (\A a \in 1..l : s[a] = list[g[a]] /\ s[a] \in set)
      /\ (\A a, b \in 1..l : a < b => g[a] < g[b])
      /\ \A i \in 1..n : list[i] \in set => \E a \in 1..l : g[a] = i
  BY <1>3 DEF Picked
<1>5. ASSUME NEW a \in 1..l, NEW b \in 1..l, a < b PROVE s[a] < s[b]
  <2>1. g[a] \in 1..n /\ g[b] \in 1..n /\ g[a] < g[b]
    BY <1>4, <1>5
  <2>2. list[g[a]] < list[g[b]]
    BY <1>1, <2>1
  <2>3. s[a] = list[g[a]] /\ s[b] = list[g[b]]
    BY <1>4
  <2> QED BY <2>2, <2>3
<1>6. ASSUME NEW x \in T \cap set PROVE \E a \in 1..l : s[a] = x
  <2>1. PICK i \in 1..n : list[i] = x
    BY <1>1
  <2>2. PICK a \in 1..l : g[a] = i
    BY <1>4, <1>6, <2>1
  <2> QED BY <1>4, <2>1, <2>2
<1>7. \A a \in 1..l : s[a] \in T \cap set
  <2>1. \A a \in 1..l : g[a] \in 1..n /\ s[a] = list[g[a]] /\ s[a] \in set
    BY <1>4
  <2>2. \A i \in 1..n : list[i] \in T
    BY <1>1
  <2> QED BY <2>1, <2>2
<1>8. {s[a] : a \in 1..l} = T \cap set
  BY <1>6, <1>7
<1> QED BY <1>2, <1>5, <1>8 DEF InOrder, s

\* Powers of two.
LEMMA Powers == \A n \in Nat : TwoTo[n] \in Nat \ {0}
<1> DEFINE V == Nat \ {0}
           next == [v \in V |-> 2 * v]
           Equation(f) == f = [n \in Nat |-> IF n = 0 THEN 1 ELSE 2 * f[n - 1]]
<1>1. 1 \in V /\ next \in [V -> V]
  OBVIOUS
<1> HIDE DEF V, next
<1>2. PICK g : Endless(g, V, 1, next)
  BY <1>1, EndlessRecursion
<1>3. g \in [Nat -> V] /\ g[0] = 1 /\ \A n \in Nat \ {0} : g[n] = next[g[n - 1]]
  BY <1>2 DEF Endless
<1>4. ASSUME NEW n \in Nat PROVE g[n] = IF n = 0 THEN 1 ELSE 2 * g[n - 1]
  <2>1. CASE n = 0
    BY <1>3, <2>1
  <2>2. CASE n # 0
    <3>1. n \in Nat \ {0} /\ n - 1 \in Nat
      BY <2>2
    <3>2. g[n] = next[g[n - 1]] /\ g[n - 1] \in V
      BY <1>3, <3>1
    <3> QED BY <2>2, <3>2 DEF next
  <2> QED BY <2>1, <2>2
<1>5. Equation(g)
  <2>1. g = [n \in Nat |-> g[n]]
    BY <1>3
  <2> QED BY <1>4, <2>1
<1>6. Equation(TwoTo)
  <2> HIDE DEF Equation
  <2>1. Equation(CHOOSE f : Equation(f))
    BY <1>5
  <2>2. TwoTo = CHOOSE f : Equation(f)
    BY DEF TwoTo, Equation
  <2> QED BY <2>1, <2>2
<1>7. TwoTo[0] = 1 /\ \A n \in Nat \ {0} : TwoTo[n] = 2 * TwoTo[n - 1]
  <2>1. \A n \in Nat : TwoTo[n] = IF n = 0 THEN 1 ELSE 2 * TwoTo[n - 1]
    BY <1>6
  <2> QED BY <2>1
<1> DEFINE P == {n \in Nat : TwoTo[n] \in V}
<1>8. ASSUME NEW n \in Nat PROVE n \in P
  <2>1. 0 \in P
    BY <1>1, <1>7
  <2>2. \A i \in 1..n : i - 1 \in P => i \in P
    <3>1. ASSUME NEW i \in 1..n, i - 1 \in P PROVE i \in P
      <4>1. i \in Nat \ {0} /\ TwoTo[i - 1] \in Nat \ {0}
        BY <3>1 DEF V
      <4>2. TwoTo[i] = 2 * TwoTo[i - 1]
        BY <1>7, <4>1
      <4> QED BY <4>1, <4>2 DEF V
    <3> QED BY <3>1
  <2> HIDE DEF P
  <2>3. \A i \in 0..n : i \in P
    BY <2>1, <2>2, UpTo
  <2>4. n \in 0..n
    OBVIOUS
  <2> QED BY <2>3, <2>4
<1> QED BY <1>8 DEF V

\* The fields of a record that was parsed.
FieldsOf(r, i, rec, n) ==
  LET used  == LowerOf(rec.used, n)
      datas == Those(AttributePlaces(rec, used), {p \in DOMAIN rec.heads : rec.heads[p].type = "data"})
      value == LastIn(PlacesOf(rec, used, "data", TRUE))
  IN  /\ r.at = i
      /\ r.resident = (datas = <<>> \/ rec.heads[Last(datas)].resident)
      /\ r.data_resident = IF value = -1 THEN <<>> ELSE Value(i, rec, value, used)
      /\ r.data_non_resident = LastIn(PlacesOf(rec, used, "data", FALSE))

\* What is known of a record that was parsed, field by field.
LEMMA ParsedFields ==
  ASSUME NEW i, NEW rec, NEW n
  PROVE  FieldsOf(ParseMftRecord(i, rec, n), i, rec, n)
<1> DEFINE r == ParseMftRecord(i, rec, n)
           used  == LowerOf(rec.used, n)
           datas == Those(AttributePlaces(rec, used), {p \in DOMAIN rec.heads : rec.heads[p].type = "data"})
           value == LastIn(PlacesOf(rec, used, "data", TRUE))
           named == Those(PlacesOf(rec, used, "name", TRUE),
                          {p \in DOMAIN rec.heads : Len(Value(i, rec, p, used)) = rec.heads[p].count})
           name == IF named = <<>> THEN "" ELSE rec.heads[Last(named)].name
           res == datas = <<>> \/ rec.heads[Last(datas)].resident
           words == IF value = -1 THEN <<>> ELSE Value(i, rec, value, used)
           runs == LastIn(PlacesOf(rec, used, "data", FALSE))
<1>1. r = [at |-> i, number |-> rec.number, deleted |-> rec.deleted, dir |-> rec.dir, name |-> name,
           resident |-> res, data_resident |-> words, data_non_resident |-> runs]
  BY Zenon DEF ParseMftRecord
<1> HIDE DEF r, name, res, words, runs
<1>2. r.at = i /\ r.resident = res /\ r.data_resident = words /\ r.data_non_resident = runs
  BY <1>1
<1> QED BY <1>2, Zenon DEF r, res, words, runs, FieldsOf

\* It keeps its place.
LEMMA ParsedAt == ASSUME NEW i, NEW rec, NEW n PROVE ParseMftRecord(i, rec, n).at = i
<1> DEFINE r == ParseMftRecord(i, rec, n)
<1>1. FieldsOf(r, i, rec, n)
  BY ParsedFields
<1> HIDE DEF r
<1>2. r.at = i
  BY <1>1 DEF FieldsOf
<1> QED BY <1>2 DEF r

\* A size and a shift.
LEMMA SizeType == ASSUME table \in MftTables PROVE Size \in Nat
<1>1. table.cluster \in Nat \ {0} /\ table.raw \in 0..255
  BY TableAssumption
<1>2. CASE table.raw < 128
  <2>1. TwoTo[table.raw] \in Nat /\ table.cluster \in Nat
    BY <1>1, Powers
  <2>2. \A a, b \in Nat : a * b \in Nat
    OBVIOUS
  <2> QED BY <1>2, <2>1, <2>2 DEF Size, RecordSize
<1>3. CASE ~(table.raw < 128)
  <2>1. table.raw - 128 \in Nat
    BY <1>1, <1>3
  <2>2. TwoTo[table.raw - 128] \in Nat \ {0}
    BY <2>1, Powers
  <2>3. \A a \in Nat : \A b \in Nat \ {0} : a \div b \in Nat
    OBVIOUS
  <2> QED BY <1>1, <1>3, <2>2, <2>3 DEF Size, RecordSize, ShiftRight
<1> QED BY <1>2, <1>3

\* What walk_mft has returned.
TableWalked ==
  /\ table \in MftTables /\ (Size > 0 \/ table.limit > 0)
  /\ records = WalkMft

\* How many places it looks at.
SlotsToWalk == LowerOf(TotalRecords, MaxRecords)

\* The records are those at the places that slot gives, in their order, and there are no others.
Visits(slot) ==
  /\ slot \in [DOMAIN records -> 0..(SlotsToWalk - 1)]
  /\ \A k, l \in DOMAIN records : k < l => slot[k] < slot[l]
  /\ \A k \in DOMAIN records :
        /\ IsRecord(slot[k])
        /\ records[k] = ParseMftRecord(RecordAtSlot(slot[k]), table.records[RecordAtSlot(slot[k])], Size)
  /\ \A i \in 0..(SlotsToWalk - 1) : IsRecord(i) => \E k \in DOMAIN records : slot[k] = i

\* No more places are looked at than there may be.
LEMMA PlacesType == ASSUME TableWalked PROVE Size \in Nat /\ SlotsToWalk \in Nat /\ SlotsToWalk <= MaxRecords
<1>1. Size \in Nat /\ MaxRecords \in Nat /\ table.limit \in Nat /\ table.words \in Nat
  BY SizeType, TableAssumption DEF TableWalked
<1>2. TotalRecords \in Nat
  <2>1. \A a \in Nat : \A b \in Nat \ {0} : a \div b \in Nat
    OBVIOUS
  <2> QED BY <1>1, <2>1 DEF TableWalked, TotalRecords
<1> QED BY <1>1, <1>2 DEF SlotsToWalk, LowerOf

\* The walk looks at the places one after the other, and takes what is a record.
LEMMA WalkVisits ==
  ASSUME TableWalked
  PROVE  /\ \E slot : Visits(slot)
         /\ \E l \in Nat : DOMAIN records = 1..l
<1> DEFINE n == SlotsToWalk
           list == SlotsWalked
           set == {i \in 0..MaxRecords : IsRecord(i)}
           s == Those(list, set)
<1>1. n \in Nat /\ n <= MaxRecords /\ MaxRecords \in Nat
  BY PlacesType, TableAssumption
<1>2. list = [i \in 1..n |-> i - 1]
  BY DEF SlotsWalked, SlotsToWalk
<1> HIDE DEF n, list
<1>3. list \in Seq(Nat) /\ Len(list) = n /\ \A i \in 1..n : list[i] = i - 1
  <2>1. \A i \in 1..n : i - 1 \in Nat
    BY <1>1
  <2> QED BY <1>1, <1>2, <2>1
<1>4. s \in Seq(Nat) /\ \E g : Picked(s, list, set, g, n)
  BY <1>3, ThoseRight
<1>5. PICK g : Picked(s, list, set, g, n)
  BY <1>4
<1>6. records = [k \in DOMAIN s |-> ParseMftRecord(RecordAtSlot(s[k]), table.records[RecordAtSlot(s[k])], Size)]
  BY DEF TableWalked, WalkMft, list
<1> HIDE DEF s
<1>7. Len(s) \in Nat /\ DOMAIN s = 1..Len(s) /\ DOMAIN records = 1..Len(s)
  <2>1. Len(s) \in Nat /\ DOMAIN s = 1..Len(s)
    BY <1>4, LenProperties
  <2> QED BY <1>6, <2>1
<1>8. /\ g \in [1..Len(s) -> 1..n] /\ (\A a \in 1..Len(s) : s[a] = list[g[a]] /\ s[a] \in set)
      /\ (\A a, b \in 1..Len(s) : a < b => g[a] < g[b])
      /\ \A i \in 1..n : list[i] \in set => \E a \in 1..Len(s) : g[a] = i
  BY <1>5 DEF Picked
<1> DEFINE slot == [k \in 1..Len(s) |-> s[k]]
<1>9. \A k \in 1..Len(s) : slot[k] = s[k] /\ s[k] = g[k] - 1 /\ g[k] \in 1..n /\ IsRecord(s[k])
  BY <1>3, <1>8
<1>10. slot \in [1..Len(s) -> 0..(n - 1)]
  <2>1. \A x \in 1..n : x - 1 \in 0..(n - 1)
    BY <1>1
  <2>2. \A k \in 1..Len(s) : s[k] \in 0..(n - 1)
    BY <1>9, <2>1
  <2> QED BY <2>2
<1>11. \A k, l \in 1..Len(s) : k < l => slot[k] < slot[l]
  BY <1>3, <1>8, <1>9
<1>12. ASSUME NEW i \in 0..(n - 1), IsRecord(i) PROVE \E k \in 1..Len(s) : slot[k] = i
  <2>1. i + 1 \in 1..n /\ i \in set /\ i + 1 - 1 = i
    BY <1>1, <1>12
  <2>2. list[i + 1] = i
    BY <1>3, <2>1
  <2>3. PICK a \in 1..Len(s) : g[a] = i + 1
    BY <1>8, <2>1, <2>2
  <2>4. s[a] = i
    <3>1. s[a] = g[a] - 1
      BY <1>9, Zenon
    <3>2. i \in Int
      BY <1>1
    <3> QED BY <2>3, <3>1, <3>2
  <2>5. slot[a] = i
    BY <1>9, <2>4
  <2> HIDE DEF slot
  <2> QED BY <2>5
<1>13. \A k \in 1..Len(s) :
          records[k] = ParseMftRecord(RecordAtSlot(slot[k]), table.records[RecordAtSlot(slot[k])], Size)
  BY <1>6, <1>7, <1>9
<1> HIDE DEF slot
<1>14. Visits(slot)
  BY <1>7, <1>9, <1>10, <1>11, <1>12, <1>13 DEF Visits, n
<1> QED BY <1>7, <1>14

\* Records begin at multiples of their size, a later one further behind.
LEMMA MultiplesGrow ==
  ASSUME NEW m \in Nat \ {0}, NEW x \in Nat, NEW y \in Nat, x < y, x % m = 0, y % m = 0
  PROVE  x \div m < y \div m
<1>1. x = (x \div m) * m /\ y = (y \div m) * m /\ x \div m \in Nat /\ y \div m \in Nat
  <2>1. x = m * (x \div m) + (x % m) /\ y = m * (y \div m) + (y % m) /\ x \div m \in Nat /\ y \div m \in Nat
    OBVIOUS
  <2> QED BY <2>1
<1> DEFINE a == x \div m
           b == y \div m
<1>2. a \in Nat /\ b \in Nat /\ x = a * m /\ y = b * m
  BY <1>1
<1> HIDE DEF a, b
<1>3. CASE b <= a
  <2>1. \A u, v, w \in Nat : u <= v => u * w <= v * w
    OBVIOUS
  <2>2. b * m <= a * m
    BY <1>2, <1>3, <2>1
  <2> QED BY <1>2, <2>2
<1>4. CASE a < b
  BY <1>4 DEF a, b
<1> QED BY <1>2, <1>3, <1>4

\* What the walk finds.
LEMMA WalkFinds ==
  ASSUME TableWalked
  PROVE  /\ \A i, j \in DOMAIN records : i < j => records[i].at < records[j].at
         /\ \A k \in DOMAIN records : records[k].at \in DOMAIN table.records
<1>1. PICK slot : Visits(slot)
  BY WalkVisits
<1>2. Size \in Nat /\ SlotsToWalk \in Nat /\ RecordWords \in Nat \ {0} /\ DOMAIN table.records \subseteq Nat \ {0}
  BY PlacesType, TableAssumption DEF TableWalked
<1>3. ASSUME NEW k \in DOMAIN records
      PROVE  /\ slot[k] \in Nat /\ Size > 0 /\ records[k].at = RecordAtSlot(slot[k])
             /\ RecordAtSlot(slot[k]) \in DOMAIN table.records
             /\ slot[k] * Size \in Nat /\ (slot[k] * Size) % RecordWords = 0
             /\ RecordAtSlot(slot[k]) = (slot[k] * Size) \div RecordWords + 1
             /\ (slot[k] * Size) \div RecordWords \in Nat
  <2>1. slot[k] \in 0..(SlotsToWalk - 1) /\ IsRecord(slot[k])
    BY <1>1 DEF Visits
  <2>2. records[k].at = RecordAtSlot(slot[k])
    <3>1. records[k] = ParseMftRecord(RecordAtSlot(slot[k]), table.records[RecordAtSlot(slot[k])], Size)
      BY <1>1 DEF Visits
    <3> QED BY <3>1, ParsedAt
  <2>3. RecordAtSlot(slot[k]) \in DOMAIN table.records /\ Size > 0 /\ RecordAtSlot(slot[k]) # 0
    BY <1>2, <2>1 DEF IsRecord
  <2>4. slot[k] \in Nat
    BY <1>2, <2>1
  <2>5. slot[k] * Size \in Nat
    BY <1>2, <2>4
  <2>6. (slot[k] * Size) % RecordWords = 0 /\ RecordAtSlot(slot[k]) = (slot[k] * Size) \div RecordWords + 1
    BY <2>3 DEF RecordAtSlot
  <2>7. (slot[k] * Size) \div RecordWords \in Nat
    <3>1. \A a \in Nat : \A b \in Nat \ {0} : a \div b \in Nat
      OBVIOUS
    <3> QED BY <1>2, <2>5, <3>1
  <2> QED BY <2>2, <2>3, <2>4, <2>5, <2>6, <2>7
<1>4. ASSUME NEW i \in DOMAIN records, NEW j \in DOMAIN records, i < j PROVE records[i].at < records[j].at
  <2>1. slot[i] < slot[j]
    BY <1>1, <1>4 DEF Visits
  <2>2. slot[i] * Size < slot[j] * Size
    <3>1. \A u, v, w \in Nat : u < v /\ w > 0 => u * w < v * w
      OBVIOUS
    <3> QED BY <1>2, <1>3, <2>1, <3>1
  <2>3. (slot[i] * Size) \div RecordWords < (slot[j] * Size) \div RecordWords
    BY <1>2, <1>3, <2>2, MultiplesGrow
  <2> QED BY <1>3, <2>3
<1> QED BY <1>3, <1>4

\* Where the size is right they are all that are whole, from the first to the limit.
LEMMA WalkIsRight == ASSUME MftWalked => TableWalked PROVE WalkRight
<1> SUFFICES ASSUME MftWalked PROVE /\ \A i, j \in DOMAIN records : i < j => records[i].at < records[j].at
                                    /\ Size = RecordWords =>
                                        {records[i].at : i \in DOMAIN records} =
                                          {i \in DOMAIN table.records :
                                              /\ table.records[i].state = "good"
                                              /\ i <= LimitOnRecords /\ i * RecordWords <= table.words}
  BY DEF WalkRight
<1>1. TableWalked
  OBVIOUS
<1> SUFFICES ASSUME Size = RecordWords
             PROVE  {records[i].at : i \in DOMAIN records} =
                      {i \in DOMAIN table.records :
                          /\ table.records[i].state = "good"
                          /\ i <= LimitOnRecords /\ i * RecordWords <= table.words}
  BY <1>1, WalkFinds
<1> DEFINE Good(i) == /\ table.records[i].state = "good"
                      /\ i <= LimitOnRecords /\ i * RecordWords <= table.words
<1>2. PICK slot : Visits(slot)
  BY <1>1, WalkVisits
<1>3. /\ SlotsToWalk \in Nat /\ SlotsToWalk <= MaxRecords /\ RecordWords \in Nat \ {0} /\ MaxRecords \in Nat
      /\ DOMAIN table.records \subseteq Nat \ {0} /\ table.limit \in Nat /\ table.words \in Nat
  BY <1>1, PlacesType, TableAssumption DEF TableWalked
<1>4. ASSUME NEW i \in Nat
      PROVE  RecordAtSlot(i) = i + 1 /\ (Walkable(i) <=> (i + 1) * RecordWords <= table.words)
  <2>1. (i * RecordWords + 0) \div RecordWords = i /\ (i * RecordWords + 0) % RecordWords = 0
    <3>1. 0 \in 0..(RecordWords - 1) /\ RecordWords \in Nat /\ RecordWords > 0
      BY <1>3
    <3> QED BY <3>1, RestBelow
  <2>2. \A a, b \in Nat : a * b \in Nat /\ a * b + 0 = a * b /\ (a + 1) * b = a * b + b
    OBVIOUS
  <2>3. i * RecordWords \in Nat /\ i * RecordWords + 0 = i * RecordWords /\ (i + 1) * RecordWords = i * RecordWords + RecordWords
    BY <1>3, <2>2
  <2> QED BY <2>1, <2>3 DEF RecordAtSlot, Walkable
<1>5. /\ SlotsToWalk <= LimitOnRecords
      /\ \A i \in Nat \ {0} : (i <= LimitOnRecords /\ i * RecordWords <= table.words) => i <= SlotsToWalk
  <2>1. CASE table.limit > 0
    <3>1. SlotsToWalk = LimitOnRecords
      BY <2>1 DEF SlotsToWalk, TotalRecords, LimitOnRecords
    <3> QED BY <1>3, <3>1
  <2>2. CASE ~(table.limit > 0)
    <3>1. LimitOnRecords = MaxRecords
      BY <1>3, <2>2 DEF LimitOnRecords, LowerOf
    <3>2. TotalRecords = table.words \div RecordWords
      BY <2>2 DEF TotalRecords
    <3>3. ASSUME NEW i \in Nat, i * RecordWords <= table.words PROVE i <= table.words \div RecordWords
      <4> DEFINE q == table.words \div RecordWords
      <4>1. /\ q \in Nat /\ table.words % RecordWords \in 0..(RecordWords - 1)
            /\ table.words = RecordWords * q + (table.words % RecordWords)
        <5>1. \A a \in Nat : \A b \in Nat \ {0} : a \div b \in Nat /\ a % b \in 0..(b - 1) /\ a = b * (a \div b) + (a % b)
          OBVIOUS
        <5> QED BY <1>3, <5>1
      <4> HIDE DEF q
      <4>2. RecordWords * q + (table.words % RecordWords) < RecordWords * q + RecordWords /\ RecordWords * q \in Nat
        <5>1. \A a, b \in Nat : a * b \in Nat
          OBVIOUS
        <5>2. RecordWords * q \in Nat
          BY <1>3, <4>1, <5>1
        <5> QED BY <1>3, <4>1, <5>2
      <4>3. \A a \in Nat : \A b, c \in Nat : c + 1 <= a => b * c + b <= a * b
        <5>1. \A b, c, d \in Nat : b * c + b <= (c + 1 + d) * b
          <6>1. \A b, c, d \in Nat : (c + 1 + d) * b = b * c + b + d * b /\ d * b \in Nat /\ b * c \in Nat
            OBVIOUS
          <6> QED BY <6>1
        <5>2. \A a, c \in Nat : c + 1 <= a => a - c - 1 \in Nat /\ c + 1 + (a - c - 1) = a
          OBVIOUS
        <5> SUFFICES ASSUME NEW a \in Nat, NEW b \in Nat, NEW c \in Nat, c + 1 <= a PROVE b * c + b <= a * b
          OBVIOUS
        <5>3. a - c - 1 \in Nat /\ c + 1 + (a - c - 1) = a
          BY <5>2
        <5>4. b * c + b <= (c + 1 + (a - c - 1)) * b
          BY <5>1, <5>3
        <5> QED BY <5>3, <5>4
      <4>4. CASE q + 1 <= i
        <5>1. RecordWords * q + RecordWords <= i * RecordWords
          BY <1>3, <4>1, <4>3, <4>4
        <5>2. i * RecordWords \in Nat
          <6>1. \A a, b \in Nat : a * b \in Nat
            OBVIOUS
          <6> QED BY <1>3, <6>1
        <5> QED BY <1>3, <3>3, <4>1, <4>2, <5>1, <5>2
      <4>5. CASE i <= q
        BY <4>5 DEF q
      <4> QED BY <4>1, <4>4, <4>5
    <3>4. table.words \div RecordWords \in Nat
      <4>1. \A a \in Nat : \A b \in Nat \ {0} : a \div b \in Nat
        OBVIOUS
      <4> QED BY <1>3, <4>1
    <3> QED BY <1>3, <3>1, <3>2, <3>3, <3>4 DEF SlotsToWalk, LowerOf
  <2> QED BY <2>1, <2>2
<1>6. ASSUME NEW k \in DOMAIN records PROVE records[k].at \in DOMAIN table.records /\ Good(records[k].at)
  <2>1. slot[k] \in 0..(SlotsToWalk - 1) /\ IsRecord(slot[k])
    BY <1>2 DEF Visits
  <2>2. slot[k] \in Nat /\ slot[k] + 1 <= SlotsToWalk
    BY <1>3, <2>1
  <2>3. records[k].at = slot[k] + 1
    <3>1. records[k] = ParseMftRecord(RecordAtSlot(slot[k]), table.records[RecordAtSlot(slot[k])], Size)
      BY <1>2 DEF Visits
    <3>2. records[k].at = RecordAtSlot(slot[k])
      BY <3>1, ParsedAt
    <3> QED BY <1>4, <2>2, <3>2
  <2>4. /\ slot[k] + 1 \in DOMAIN table.records /\ table.records[slot[k] + 1].state = "good"
        /\ (slot[k] + 1) * RecordWords <= table.words
    BY <1>4, <2>1, <2>2 DEF IsRecord
  <2>5. slot[k] + 1 <= LimitOnRecords
    <3>1. LimitOnRecords \in Nat
      BY <1>3 DEF LimitOnRecords, LowerOf
    <3> QED BY <1>3, <1>5, <2>2, <3>1
  <2> QED BY <2>3, <2>4, <2>5
<1>7. ASSUME NEW i \in DOMAIN table.records, Good(i) PROVE \E k \in DOMAIN records : records[k].at = i
  <2>1. i \in Nat \ {0} /\ i - 1 \in Nat /\ i - 1 + 1 = i
    BY <1>3
  <2>2. i <= SlotsToWalk /\ i - 1 \in 0..(SlotsToWalk - 1) /\ i - 1 \in 0..MaxRecords
    <3>1. i <= SlotsToWalk
      BY <1>5, <1>7, <2>1
    <3> QED BY <1>3, <2>1, <3>1
  <2>3. RecordAtSlot(i - 1) = i /\ Walkable(i - 1)
    BY <1>4, <1>7, <2>1
  <2>4. IsRecord(i - 1)
    BY <1>3, <1>7, <2>3 DEF IsRecord
  <2>5. PICK k \in DOMAIN records : slot[k] = i - 1
    BY <1>2, <2>2, <2>4 DEF Visits
  <2>6. records[k] = ParseMftRecord(RecordAtSlot(slot[k]), table.records[RecordAtSlot(slot[k])], Size)
    BY <1>2 DEF Visits
  <2>7. records[k].at = RecordAtSlot(slot[k])
    BY <2>6, ParsedAt
  <2> QED BY <2>3, <2>5, <2>7
<1> QED BY <1>6, <1>7

-----------------------------------------------------------------------------
(* Part 11: the streams of a record.                                        *)

\* The types of the attributes of a record.
RecordTypes(rec) ==
  /\ rec.used \in Nat
  /\ \A p \in DOMAIN rec.heads : /\ p \in Nat /\ rec.heads[p].resident \in BOOLEAN
                                 /\ rec.heads[p].len \in Nat /\ rec.heads[p].count \in Nat

\* What is parsed from each place on: the attribute there, if its header fits, and what its
\* length leads to.
ChainsTo(h, rec, n) ==
  \A p \in 0..n :
    /\ h[p] \in Seq(Nat)
    /\ ~HeaderFits(rec, p, n) => h[p] = <<>>
    /\ HeaderFits(rec, p, n) =>
        h[p] = IF rec.heads[p].len \in 1..(n - p) THEN <<p>> \o h[p + rec.heads[p].len] ELSE <<p>>

\* The attributes are those the lengths lead to, from the first one.
LEMMA AttributesUnfold ==
  ASSUME NEW rec, NEW n \in Nat
  PROVE  \E h : ChainsTo(h, rec, n) /\ AttributePlaces(rec, n) = h[0]
<1> DEFINE m == n + 1
           V == Seq(Nat)
           len(p) == rec.heads[p].len
           fits(p) == HeaderFits(rec, p, n)
           Equation(f) == f = [p \in 0..n |->
                                 IF ~fits(p) THEN <<>>
                                 ELSE IF len(p) \in 1..(n - p) THEN <<p>> \o f[p + len(p)] ELSE <<p>>]
           stop == [o \in 0..m |-> o = m \/ ~fits(o)]
           next == [o \in 0..m |-> IF len(o) \in 1..(n - o) THEN o + len(o) ELSE m]
           add == [p \in (0..m) \X V |-> <<p[1]>> \o p[2]]
<1>1. m \in Nat /\ m = n + 1 /\ (\A o \in 0..n : o \in 0..m /\ o # m) /\ \A o \in 0..m : o \in 0..n \/ o = m
  OBVIOUS
<1> HIDE DEF m, V, fits, len
<1>2. <<>> \in V /\ \A o \in 0..m, v \in V : <<o>> \o v \in V
  <2>1. \A o \in 0..m : <<o>> \in V
    BY <1>1 DEF V
  <2> QED BY <2>1, EmptySeq, ConcatProperties DEF V
<1>3. \A o \in 0..m : next[o] = IF len(o) \in 1..(n - o) THEN o + len(o) ELSE m
  OBVIOUS
<1>4. \A o \in 0..n : next[o] \in (o + 1)..m
  <2>1. \A o \in 0..n : \A x \in 1..(n - o) : o + x \in (o + 1)..m
    BY <1>1
  <2>2. \A o \in 0..n : m \in (o + 1)..m
    BY <1>1
  <2> HIDE DEF next
  <2> QED BY <1>1, <1>3, <2>1, <2>2
<1>5. Forward(m, stop, next)
  <2>1. stop \in [0..m -> BOOLEAN]
    OBVIOUS
  <2>2. \A o \in 0..m : ~stop[o] => next[o] \in (o + 1)..m
    <3>1. \A o \in 0..m : ~stop[o] => o # m
      OBVIOUS
    <3> HIDE DEF next, stop
    <3> QED BY <1>1, <1>4, <3>1
  <2>3. next \in [0..m -> Int]
    <3>1. ASSUME NEW o \in 0..m PROVE (IF len(o) \in 1..(n - o) THEN o + len(o) ELSE m) \in Int
      BY <1>1
    <3> QED BY <3>1
  <2> HIDE DEF next, stop
  <2> QED BY <2>1, <2>2, <2>3 DEF Forward
<1>6. add \in [(0..m) \X V -> V] /\ \A o \in 0..m, v \in V : add[<<o, v>>] = <<o>> \o v
  BY <1>2
<1>7. PICK g : IsForward(g, m, V, <<>>, add, stop, next)
  <2> HIDE DEF add, stop, next
  <2> QED BY <1>1, <1>2, <1>5, <1>6, ForwardRecursion
<1>8. g \in [0..m -> V] /\ \A o \in 0..m : g[o] = IF stop[o] THEN <<>> ELSE add[<<o, g[next[o]]>>]
  BY <1>7 DEF IsForward
<1>9. g[m] = <<>>
  <2>1. m \in 0..m
    BY <1>1
  <2>2. stop[m]
    BY <2>1
  <2> HIDE DEF stop, add, next
  <2> QED BY <1>8, <2>1, <2>2
<1> DEFINE f == [p \in 0..n |-> g[p]]
<1>10. ASSUME NEW p \in 0..n
       PROVE  /\ g[p] \in V
              /\ g[p] = IF ~fits(p) THEN <<>>
                        ELSE IF len(p) \in 1..(n - p) THEN <<p>> \o g[p + len(p)] ELSE <<p>>
              /\ len(p) \in 1..(n - p) => p + len(p) \in 0..n
  <2>1. p \in 0..m /\ p # m
    BY <1>1
  <2>2. stop[p] = ~fits(p)
    BY <2>1
  <2>3. next[p] \in 0..m
    <3> HIDE DEF next
    <3> QED BY <1>1, <1>4
  <2>4. next[p] = IF len(p) \in 1..(n - p) THEN p + len(p) ELSE m
    BY <1>3, <2>1
  <2> HIDE DEF stop, next, add
  <2>5. g[next[p]] \in V /\ (fits(p) => g[p] = <<p>> \o g[next[p]]) /\ (~fits(p) => g[p] = <<>>)
    BY <1>6, <1>8, <2>1, <2>2, <2>3
  <2>6. <<p>> \o <<>> = <<p>>
    <3>1. <<p>> \in Seq(Nat)
      OBVIOUS
    <3> QED BY <3>1, ConcatEmptySeq
  <2>7. CASE len(p) \in 1..(n - p)
    <3>1. next[p] = p + len(p) /\ p + len(p) \in 0..n
      <4>1. \A x \in 1..(n - p) : p + x \in 0..n
        OBVIOUS
      <4> QED BY <2>4, <2>7, <4>1
    <3> QED BY <1>8, <2>1, <2>5, <2>7, <3>1
  <2>8. CASE len(p) \notin 1..(n - p)
    <3>1. next[p] = m
      BY <2>4, <2>8
    <3> QED BY <1>8, <1>9, <2>1, <2>5, <2>6, <2>8, <3>1
  <2> QED BY <2>7, <2>8
<1>11. Equation(f)
  <2>1. ASSUME NEW p \in 0..n
        PROVE  f[p] = IF ~fits(p) THEN <<>>
                      ELSE IF len(p) \in 1..(n - p) THEN <<p>> \o f[p + len(p)] ELSE <<p>>
    <3>1. f[p] = g[p] /\ (len(p) \in 1..(n - p) => f[p + len(p)] = g[p + len(p)])
      BY <1>10
    <3> HIDE DEF f
    <3> QED BY <1>10, <3>1
  <2> QED BY <2>1
<1>12. PICK h : Equation(h) /\ AttributePlaces(rec, n) = h[0]
  <2> HIDE DEF Equation
  <2>1. Equation(CHOOSE h : Equation(h))
    BY <1>11
  <2>2. AttributePlaces(rec, n) = (CHOOSE h : Equation(h))[0]
    BY DEF AttributePlaces, Equation, fits, len
  <2> QED BY <2>1, <2>2
<1>13. \A p \in 0..n : h[p] = IF ~fits(p) THEN <<>>
                              ELSE IF len(p) \in 1..(n - p) THEN <<p>> \o h[p + len(p)] ELSE <<p>>
  BY <1>12
<1> DEFINE P == {i \in 0..n : \A p \in 0..n : p >= n - i => h[p] \in V}
<1>14. ASSUME NEW p \in 0..n, len(p) \in 1..(n - p) => h[p + len(p)] \in V PROVE h[p] \in V
  <2>1. <<p>> \in V
    BY DEF V
  <2>2. CASE ~fits(p)
    BY <1>2, <1>13, <2>2
  <2>3. CASE fits(p) /\ len(p) \in 1..(n - p)
    <3>1. h[p] = <<p>> \o h[p + len(p)]
      BY <1>13, <2>3
    <3> QED BY <1>2, <1>1, <1>14, <2>3, <3>1
  <2>4. CASE fits(p) /\ len(p) \notin 1..(n - p)
    <3>1. h[p] = <<p>>
      BY <1>13, <2>4
    <3> QED BY <2>1, <3>1
  <2> QED BY <2>2, <2>3, <2>4
<1>15. 0 \in P
  <2>1. ASSUME NEW p \in 0..n, p >= n - 0 PROVE h[p] \in V
    <3>1. \A x \in 1..(n - p) : FALSE
      BY <2>1
    <3> QED BY <1>14, <3>1
  <2> QED BY <2>1
<1>16. ASSUME NEW i \in 1..n, i - 1 \in P PROVE i \in P
  <2>1. ASSUME NEW p \in 0..n, p >= n - i PROVE h[p] \in V
    <3>1. \A x \in 1..(n - p) : p + x \in 0..n /\ p + x >= n - (i - 1)
      BY <2>1
    <3>2. len(p) \in 1..(n - p) => h[p + len(p)] \in V
      BY <1>16, <3>1
    <3> QED BY <1>14, <3>2
  <2> QED BY <2>1
<1>17. n \in P
  <2> HIDE DEF P
  <2>1. n \in 0..n
    OBVIOUS
  <2> QED BY <1>15, <1>16, <2>1, UpTo
<1>18. \A p \in 0..n : h[p] \in V
  BY <1>17
<1> HIDE DEF Equation
<1>19. ChainsTo(h, rec, n)
  BY <1>13, <1>18 DEF ChainsTo, V, fits, len
<1> QED BY <1>12, <1>19

\* Their places are numbers.
LEMMA PlacesTyped == ASSUME NEW rec, NEW n \in Nat PROVE AttributePlaces(rec, n) \in Seq(Nat)
<1>1. PICK h : ChainsTo(h, rec, n) /\ AttributePlaces(rec, n) = h[0]
  BY AttributesUnfold
<1>2. 0 \in 0..n
  OBVIOUS
<1> QED BY <1>1, <1>2 DEF ChainsTo

\* The attributes from the first to the end mark.
BeforeEnd(rec) ==
  {p \in DOMAIN rec.heads : \A q \in DOMAIN rec.heads : (q < p) => (rec.heads[q].len > 0 /\ q + rec.heads[q].len <= p)}

\* One number before the others.
LEMMA ListingFirst ==
  ASSUME NEW p \in Nat, NEW s, NEW T, InOrder(s, T), \A q \in T : p < q
  PROVE  InOrder(<<p>> \o s, {p} \union T)
<1> DEFINE t == <<p>> \o s
           l == Len(s)
<1>1. /\ s \in Seq(Nat) /\ l \in Nat /\ (\A a, b \in 1..l : a < b => s[a] < s[b])
      /\ {s[a] : a \in 1..l} = T /\ \A a \in 1..l : s[a] \in Nat
  BY LenProperties, ElementOfSeq DEF InOrder
<1>2. <<p>> \in Seq(Nat) /\ Len(<<p>>) = 1 /\ <<p>>[1] = p
  OBVIOUS
<1>3. t \in Seq(Nat) /\ Len(t) = 1 + l /\ t[1] = p /\ \A a \in 1..l : t[1 + a] = s[a]
  <2>1. /\ t \in Seq(Nat) /\ Len(t) = Len(<<p>>) + Len(s)
        /\ \A i \in 1..Len(<<p>>) : t[i] = <<p>>[i]
        /\ \A i \in 1..Len(s) : t[Len(<<p>>) + i] = s[i]
    BY <1>1, <1>2, BothParts
  <2> HIDE DEF t
  <2>2. 1 \in 1..1
    OBVIOUS
  <2> QED BY <1>2, <2>1, <2>2
<1> HIDE DEF t, l
<1>4. \A a \in 1..(1 + l) : a = 1 \/ (a - 1 \in 1..l /\ 1 + (a - 1) = a)
  BY <1>1
<1>5. 1 \in 1..(1 + l) /\ \A a \in 1..l : 1 + a \in 1..(1 + l)
  BY <1>1
<1>6. \A a \in 1..(1 + l) : a = 1 \/ (a - 1 \in 1..l /\ t[a] = s[a - 1])
  BY <1>3, <1>4
<1>7. ASSUME NEW a \in 1..(1 + l), NEW b \in 1..(1 + l), a < b PROVE t[a] < t[b]
  <2>1. b - 1 \in 1..l /\ t[b] = s[b - 1]
    BY <1>6, <1>7
  <2>2. CASE a = 1
    BY <1>1, <1>3, <2>1, <2>2
  <2>3. CASE a # 1
    <3>1. a - 1 \in 1..l /\ t[a] = s[a - 1] /\ a - 1 < b - 1
      BY <1>6, <1>7, <2>3
    <3> QED BY <1>1, <2>1, <3>1
  <2> QED BY <2>2, <2>3
<1>8. {t[a] : a \in 1..(1 + l)} = {p} \union T
  <2>1. ASSUME NEW a \in 1..(1 + l) PROVE t[a] \in {p} \union T
    BY <1>1, <1>3, <1>6
  <2>2. ASSUME NEW x \in {p} \union T PROVE \E a \in 1..(1 + l) : t[a] = x
    <3>1. CASE x = p
      BY <1>3, <1>5, <3>1
    <3>2. CASE x \in T
      <4>1. PICK a \in 1..l : s[a] = x
        BY <1>1, <3>2
      <4> QED BY <1>3, <1>5, <4>1
    <3> QED BY <3>1, <3>2
  <2> QED BY <2>1, <2>2
<1> QED BY <1>3, <1>7, <1>8 DEF InOrder, t

\* Where the attributes are end to end and each has room for its header, the walk lists those
\* that are reached.
LEMMA PlacesListed ==
  ASSUME NEW rec, NEW n \in Nat, RecordTypes(rec), Contiguous(rec), \A p \in DOMAIN rec.heads : HeaderFits(rec, p, n)
  PROVE  InOrder(AttributePlaces(rec, n), BeforeEnd(rec))
<1> DEFINE D == DOMAIN rec.heads
           len(p) == rec.heads[p].len
           R == BeforeEnd(rec)
           From(p) == {q \in R : q >= p}
<1>1. PICK h : ChainsTo(h, rec, n) /\ AttributePlaces(rec, n) = h[0]
  BY AttributesUnfold
<1>2. \A p \in D : p \in Nat /\ p <= n /\ len(p) \in Nat
  <2>1. ResidentHeader \in Nat /\ NonResidentHeader \in Nat
    BY TableAssumption
  <2>2. \A p \in D : p \in Nat /\ len(p) \in Nat
    BY DEF RecordTypes
  <2>3. \A p \in D : p + ResidentHeader <= n \/ p + NonResidentHeader <= n
    BY DEF HeaderFits
  <2> QED BY <2>1, <2>2, <2>3
<1>3. \A p, q \in D : (p < q /\ len(p) > 0) => p + len(p) \in D /\ p + len(p) <= q
  BY DEF Contiguous
<1>4. R \subseteq D /\ \A p \in D : p \in R <=> \A q \in D : (q < p) => (len(q) > 0 /\ q + len(q) <= p)
  BY DEF BeforeEnd
<1>5. \A p \in 0..n : p \notin D => h[p] = <<>>
  BY <1>1 DEF ChainsTo, HeaderFits
<1>6. \A p \in D : h[p] = IF len(p) \in 1..(n - p) THEN <<p>> \o h[p + len(p)] ELSE <<p>>
  <2>1. \A p \in D : p \in 0..n
    BY <1>2
  <2> QED BY <1>1, <2>1 DEF ChainsTo
<1> HIDE DEF D, len, R
<1>7. InOrder(<<>>, {})
  <2>1. <<>> \in Seq(Nat) /\ Len(<<>>) = 0
    BY EmptySeq
  <2>2. 1..0 = {}
    OBVIOUS
  <2> QED BY <2>1, <2>2 DEF InOrder
<1> DEFINE P == {i \in 0..n : \A p \in R : p >= n - i => InOrder(h[p], From(p))}
<1>8. ASSUME NEW p \in R, \A q \in R : q > p => InOrder(h[q], From(q)) PROVE InOrder(h[p], From(p))
  <2>1. p \in D /\ p \in Nat /\ p <= n /\ len(p) \in Nat
    BY <1>2, <1>4
  <2>2. ASSUME NEW q \in R, q > p PROVE len(p) > 0 /\ p + len(p) <= q /\ p + len(p) \in D
    <3>1. q \in D /\ q \in Nat /\ p < q
      BY <1>2, <1>4, <2>1, <2>2
    <3>2. len(p) > 0 /\ p + len(p) <= q
      BY <1>4, <2>1, <3>1
    <3> QED BY <1>3, <2>1, <3>1, <3>2
  <2>3. CASE \E q \in R : q > p
    <3> DEFINE e == p + len(p)
    <3>1. len(p) > 0 /\ e \in D
      BY <2>2, <2>3
    <3>2. e \in Nat /\ e <= n /\ e > p /\ len(p) \in 1..(n - p)
      BY <1>2, <2>1, <3>1
    <3>3. e \in R
      <4>1. ASSUME NEW q \in D, q < e PROVE len(q) > 0 /\ q + len(q) <= e
        <5>0. q \in Nat /\ len(q) \in Nat
          BY <1>2
        <5>1. CASE q < p
          <6>1. len(q) > 0 /\ q + len(q) <= p
            BY <1>4, <2>1, <5>1
          <6> QED BY <2>1, <3>2, <5>0, <6>1
        <5>2. CASE q = p
          BY <3>1, <3>2, <5>2
        <5>3. CASE p < q
          <6>1. e <= q
            BY <1>3, <2>1, <3>1, <5>3
          <6> QED BY <3>2, <4>1, <5>0, <6>1
        <5> QED BY <2>1, <5>0, <5>1, <5>2, <5>3
      <4> HIDE DEF e
      <4> QED BY <1>4, <3>1, <4>1
    <3> HIDE DEF e
    <3>4. InOrder(h[e], From(e))
      BY <1>8, <3>2, <3>3
    <3>5. h[p] = <<p>> \o h[e]
      BY <1>6, <2>1, <3>2 DEF e
    <3>6. From(p) = {p} \union From(e) /\ \A q \in From(e) : p < q
      <4>1. ASSUME NEW q \in R, q >= p PROVE q = p \/ q >= e
        <5>1. q \in Nat
          BY <1>2, <1>4
        <5>2. CASE q > p
          <6>1. e <= q
            BY <2>2, <5>2 DEF e
          <6> QED BY <3>2, <5>1, <6>1
        <5> QED BY <2>1, <4>1, <5>1, <5>2
      <4>2. \A q \in R : q >= e => q >= p /\ p < q
        <5>1. \A q \in R : q \in Nat
          BY <1>2, <1>4
        <5> QED BY <2>1, <3>2, <5>1
      <4>3. p >= p
        BY <2>1
      <4> QED BY <4>1, <4>2, <4>3
    <3>7. InOrder(<<p>> \o h[e], {p} \union From(e))
      <4> HIDE DEF From
      <4> QED BY <2>1, <3>4, <3>6, ListingFirst
    <3> QED BY <3>5, <3>6, <3>7
  <2>4. CASE ~\E q \in R : q > p
    <3>1. From(p) = {p} \union {}
      <4>1. \A q \in R : q \in Nat
        BY <1>2, <1>4
      <4>2. p >= p /\ \A q \in R : q >= p => q = p
        BY <2>1, <2>4, <4>1
      <4> QED BY <4>2
    <3>2. h[p] = <<p>> \o <<>>
      <4>1. <<p>> \o <<>> = <<p>>
        <5>1. <<p>> \in Seq(Nat)
          BY <2>1
        <5> QED BY <5>1, ConcatEmptySeq
      <4>2. CASE len(p) \in 1..(n - p)
        <5>1. p + len(p) \in 0..n /\ len(p) > 0
          BY <2>1, <4>2
        <5>2. p + len(p) \notin D
          <6>1. ASSUME p + len(p) \in D PROVE FALSE
            <7>1. ASSUME NEW q \in D, q < p + len(p) PROVE len(q) > 0 /\ q + len(q) <= p + len(p)
              <8>0. q \in Nat /\ len(q) \in Nat
                BY <1>2
              <8>1. CASE q < p
                <9>1. len(q) > 0 /\ q + len(q) <= p
                  BY <1>4, <2>1, <8>1
                <9> QED BY <2>1, <5>1, <8>0, <9>1
              <8>2. CASE q = p
                BY <2>1, <5>1, <8>2
              <8>3. CASE p < q
                <9>1. p + len(p) <= q
                  BY <1>3, <2>1, <5>1, <8>3
                <9> QED BY <2>1, <7>1, <8>0, <9>1
              <8> QED BY <2>1, <8>0, <8>1, <8>2, <8>3
            <7>2. p + len(p) \in R
              BY <1>4, <6>1, <7>1
            <7>3. p + len(p) > p
              BY <2>1, <5>1
            <7> QED BY <2>4, <7>2, <7>3
          <6> QED BY <6>1
        <5>3. h[p + len(p)] = <<>>
          BY <1>5, <5>1, <5>2
        <5> QED BY <1>6, <2>1, <4>2, <5>3
      <4>3. CASE len(p) \notin 1..(n - p)
        BY <1>6, <2>1, <4>1, <4>3
      <4> QED BY <4>2, <4>3
    <3>3. InOrder(<<p>> \o <<>>, {p} \union {})
      BY <1>7, <2>1, ListingFirst
    <3> QED BY <3>1, <3>2, <3>3
  <2> QED BY <2>3, <2>4
<1> HIDE DEF From
<1>9. \A p \in R : p \in Nat /\ p <= n
  BY <1>2, <1>4
<1>10. 0 \in P
  <2>1. ASSUME NEW p \in R, p >= n - 0 PROVE InOrder(h[p], From(p))
    <3>1. \A q \in R : ~(q > p)
      BY <1>9, <2>1
    <3> QED BY <1>8, <3>1
  <2> QED BY <2>1
<1>11. ASSUME NEW i \in 1..n, i - 1 \in P PROVE i \in P
  <2>1. ASSUME NEW p \in R, p >= n - i PROVE InOrder(h[p], From(p))
    <3>1. \A q \in R : q > p => q >= n - (i - 1)
      BY <1>9, <2>1
    <3>2. \A q \in R : q > p => InOrder(h[q], From(q))
      BY <1>11, <3>1
    <3> QED BY <1>8, <3>2
  <2> QED BY <2>1
<1>12. n \in P
  <2> HIDE DEF P
  <2>1. n \in 0..n
    OBVIOUS
  <2> QED BY <1>10, <1>11, <2>1, UpTo
<1>13. \A p \in R : InOrder(h[p], From(p))
  <2>1. \A p \in R : p >= n - n
    BY <1>9
  <2> QED BY <1>12, <2>1
<1>14. CASE D = {}
  <2>1. R = {} /\ h[0] = <<>>
    <3>1. 0 \in 0..n
      OBVIOUS
    <3> QED BY <1>4, <1>5, <1>14, <3>1
  <2> QED BY <1>1, <1>7, <2>1 DEF R
<1>15. CASE D # {}
  <2>1. 0 \in D
    BY <1>15 DEF Contiguous, D
  <2>2. 0 \in R
    <3>1. \A q \in D : ~(q < 0)
      BY <1>2
    <3> QED BY <1>4, <2>1, <3>1
  <2>3. From(0) = R
    <3>1. \A q \in R : q >= 0
      BY <1>9
    <3> QED BY <3>1 DEF From
  <2> QED BY <1>1, <1>13, <2>2, <2>3 DEF R
<1> QED BY <1>14, <1>15

\* The types of a record of the volume.
LEMMA RecordTyped ==
  ASSUME table \in MftTables, NEW i \in DOMAIN table.records
  PROVE  RecordTypes(table.records[i])
<1> DEFINE r == table.records[i]
<1>1. r.used \in Nat /\ \A p \in DOMAIN r.heads : /\ p \in Nat /\ r.heads[p].resident \in BOOLEAN
                                                  /\ r.heads[p].len \in Nat /\ r.heads[p].count \in Nat
  BY TableAssumption
<1> HIDE DEF r
<1>2. RecordTypes(r)
  BY <1>1 DEF RecordTypes
<1> QED BY <1>2 DEF r

\* A value is a list of words.
IsList(v) == \E m \in Nat : v = [k \in 1..m |-> v[k]]

\* A value is a sequence, with as many words as there are inside the used size.
LEMMA ValueType ==
  ASSUME NEW i, NEW rec, RecordTypes(rec), NEW p \in DOMAIN rec.heads, NEW n \in Nat
  PROVE  IsList(Value(i, rec, p, n))
<1> DEFINE v == Value(i, rec, p, n)
           c == rec.heads[p].count
           x == LowerOf(c, n - p - ResidentHeader)
<1>1. p \in Nat /\ c \in Nat /\ ResidentHeader \in Nat
  BY TableAssumption DEF RecordTypes
<1>2. CASE rec.heads[p].resident
  <2>1. v = [k \in 1..x |-> FixedWord(i, rec, p + ResidentHeader + k - 1)]
    BY <1>2, Zenon DEF Value
  <2>2. x \in Int
    BY <1>1 DEF LowerOf
  <2> HIDE DEF x, v
  <2>3. DOMAIN v = 1..x /\ v = [k \in 1..x |-> v[k]]
    BY <2>1
  <2>4. CASE x \in Nat
    BY <2>3, <2>4 DEF v, IsList
  <2>5. CASE x \notin Nat
    <3>1. 1..x = 1..0 /\ 0 \in Nat
      BY <2>2, <2>5
    <3>2. v = [k \in 1..0 |-> v[k]]
      BY <2>3, <3>1
    <3> QED BY <3>1, <3>2 DEF v, IsList
  <2> QED BY <2>4, <2>5
<1>3. CASE ~rec.heads[p].resident
  <2>1. v = [k \in 1..c |-> <<i, p, k>>]
    BY <1>3, Zenon DEF Value
  <2> HIDE DEF c, v
  <2>2. v = [k \in 1..c |-> v[k]]
    BY <2>1
  <2> QED BY <1>1, <2>2 DEF v, IsList
<1> QED BY <1>2, <1>3

\* The rest of a word is where it is from.
LEMMA TailOfWord ==
  ASSUME NEW a, NEW b, NEW c
  PROVE  Tail(<<a, b>>) = <<b>> /\ Tail(<<a, b, c>>) = <<b, c>>
<1> DEFINE S == {a, b, c}
<1>1. Tail(<<a, b>>) = <<b>>
  <2>1. <<a, b>> \in Seq(S) /\ <<a, b>> # <<>> /\ Len(<<a, b>>) = 2 /\ <<b>> \in Seq(S)
    OBVIOUS
  <2>2. /\ Tail(<<a, b>>) \in Seq(S) /\ Len(Tail(<<a, b>>)) = 1
        /\ \A i \in 1..Len(Tail(<<a, b>>)) : Tail(<<a, b>>)[i] = <<a, b>>[i + 1]
    BY <2>1, HeadTailProperties
  <2>3. Len(<<b>>) = 1 /\ \A i \in 1..1 : <<a, b>>[i + 1] = <<b>>[i]
    OBVIOUS
  <2> QED BY <2>1, <2>2, <2>3, SeqEqual
<1>2. Tail(<<a, b, c>>) = <<b, c>>
  <2>1. <<a, b, c>> \in Seq(S) /\ <<a, b, c>> # <<>> /\ Len(<<a, b, c>>) = 3 /\ <<b, c>> \in Seq(S)
    OBVIOUS
  <2>2. /\ Tail(<<a, b, c>>) \in Seq(S) /\ Len(Tail(<<a, b, c>>)) = 2
        /\ \A i \in 1..Len(Tail(<<a, b, c>>)) : Tail(<<a, b, c>>)[i] = <<a, b, c>>[i + 1]
    BY <2>1, HeadTailProperties
  <2>3. Len(<<b, c>>) = 2 /\ \A i \in 1..2 : <<a, b, c>>[i + 1] = <<b, c>>[i]
    OBVIOUS
  <2> QED BY <2>1, <2>2, <2>3, SeqEqual
<1> QED BY <1>1, <1>2

\* A value that fits is read from its place, and no word of it is changed.
LEMMA ValueWhole ==
  ASSUME NEW i, NEW rec, RecordTypes(rec), NEW p \in DOMAIN rec.heads, NEW n \in Nat,
         rec.heads[p].resident => p + ResidentHeader + rec.heads[p].count <= n,
         rec.array \/ rec.ends = {}
  PROVE  /\ Tails(Value(i, rec, p, n)) = WholeStream(rec, p)
         /\ (Value(i, rec, p, n) = <<>> => WholeStream(rec, p) = <<>>)
<1> DEFINE v == Value(i, rec, p, n)
           c == rec.heads[p].count
           w == WholeStream(rec, p)
           res == rec.heads[p].resident
<1>1. p \in Nat /\ c \in Nat /\ ResidentHeader \in Nat
  BY TableAssumption DEF RecordTypes
<1>2. w = [k \in 1..c |-> IF res THEN <<p + ResidentHeader + k - 1>> ELSE <<p, k>>]
  BY Zenon DEF WholeStream
<1>3. v = [k \in 1..c |-> IF res THEN <<i, p + ResidentHeader + k - 1>> ELSE <<i, p, k>>]
  <2>1. CASE res
    <3>1. LowerOf(c, n - p - ResidentHeader) = c
      <4>1. p + ResidentHeader + c <= n
        BY <2>1
      <4> HIDE DEF c
      <4> QED BY <1>1, <4>1 DEF LowerOf
    <3>2. v = [k \in 1..LowerOf(c, n - p - ResidentHeader) |-> FixedWord(i, rec, p + ResidentHeader + k - 1)]
      BY <2>1, Zenon DEF Value
    <3>3. \A x : FixedWord(i, rec, x) = <<i, x>>
      BY DEF FixedWord
    <3> HIDE DEF v, c
    <3>4. v = [k \in 1..c |-> FixedWord(i, rec, p + ResidentHeader + k - 1)]
      BY <3>1, <3>2
    <3> QED BY <2>1, <3>3, <3>4
  <2>2. CASE ~res
    <3>1. v = [k \in 1..c |-> <<i, p, k>>]
      BY <2>2, Zenon DEF Value
    <3> HIDE DEF v, c
    <3> QED BY <2>2, <3>1
  <2> QED BY <2>1, <2>2
<1> HIDE DEF v, c, w, res
<1>4. ASSUME NEW k \in 1..c PROVE Tail(v[k]) = w[k]
  <2>1. v[k] = IF res THEN <<i, p + ResidentHeader + k - 1>> ELSE <<i, p, k>>
    BY <1>3
  <2>2. w[k] = IF res THEN <<p + ResidentHeader + k - 1>> ELSE <<p, k>>
    BY <1>2
  <2> QED BY <2>1, <2>2, TailOfWord
<1>5. DOMAIN v = 1..c /\ DOMAIN w = 1..c /\ w = [k \in 1..c |-> w[k]]
  BY <1>2, <1>3
<1>6. Tails(v) = w
  <2>1. Tails(v) = [k \in 1..c |-> Tail(v[k])]
    BY <1>5 DEF Tails
  <2>2. [k \in 1..c |-> Tail(v[k])] = [k \in 1..c |-> w[k]]
    BY <1>4
  <2> QED BY <1>5, <2>1, <2>2
<1>7. v = <<>> => w = <<>>
  <2>1. ASSUME v = <<>> PROVE w = <<>>
    <3>1. 1..c = {}
      <4>1. DOMAIN <<>> = {}
        OBVIOUS
      <4> QED BY <1>5, <2>1, <4>1
    <3>2. c = 0
      BY <1>1, <3>1 DEF c
    <3>3. w = [k \in 1..0 |-> w[k]]
      BY <1>5, <3>2
    <3> QED BY <3>3
  <2> QED BY <2>1
<1> QED BY <1>6, <1>7 DEF v, w

\* No words have no tails.
LEMMA TailsNone == Tails(<<>>) = <<>>
BY DEF Tails

\* The last of a listing.
LEMMA LastListed ==
  ASSUME NEW s, NEW T, InOrder(s, T)
  PROVE  /\ T \subseteq Nat
         /\ s = <<>> => T = {} /\ LastIn(s) = -1
         /\ s # <<>> => /\ Last(s) \in T /\ Head(s) \in T /\ LastIn(s) = Last(s) /\ LastIn(s) # -1 
<1>1. /\ s \in Seq(Nat) /\ Len(s) \in Nat /\ {s[a] : a \in 1..Len(s)} = T /\ \A a \in 1..Len(s) : s[a] \in Nat
  BY LenProperties, ElementOfSeq DEF InOrder
<1>2. T \subseteq Nat
  BY <1>1
<1>3. ASSUME s = <<>> PROVE T = {} /\ LastIn(s) = -1
  <2>1. Len(s) = 0 /\ 1..0 = {}
    BY <1>3, EmptySeq
  <2> QED BY <1>1, <1>3, <2>1 DEF LastIn
<1>4. ASSUME s # <<>> PROVE Last(s) \in T /\ Head(s) \in T /\ LastIn(s) = Last(s) /\ LastIn(s) # -1
  <2>1. Len(s) \in Nat \ {0}
    BY <1>1, <1>4, EmptySeq
  <2>2. 1 \in 1..Len(s) /\ Len(s) \in 1..Len(s)
    BY <2>1
  <2>3. Last(s) = s[Len(s)] /\ Head(s) = s[1] /\ LastIn(s) = Last(s)
    BY <1>1, <1>4 DEF Last, LastIn
  <2>4. s[1] \in T /\ s[Len(s)] \in T
    BY <1>1, <2>2
  <2> QED BY <1>2, <2>3, <2>4
<1> QED BY <1>2, <1>3, <1>4

\* What the readers take of a sound record.
StreamsOf(i, rec, r) ==
  LET runs == {p \in Streams(rec) : ~rec.heads[p].resident}
      whole(ps) == {WholeStream(rec, p) : p \in ps}
  IN  /\ Tails(r.data_resident) \in whole(Streams(rec) \ runs) \union {<<>>}
      /\ Tails(JData(i, rec, Size)) \in whole(runs) \union {<<>>}
      /\ Tails(LogFileData(i, rec, Size)) \in whole(Streams(rec)) \union {<<>>}
      /\ \A p \in Streams(rec) : Streams(rec) = {p} =>
          /\ Tails(LogFileData(i, rec, Size)) = WholeStream(rec, p)
          /\ IF p \in runs THEN JData(i, rec, Size) = MaxData(i, rec, Size) /\ ~r.resident
             ELSE Tails(r.data_resident) = WholeStream(rec, p) /\ r.resident

\* They list the streams of each kind, and take the first or the last.
LEMMA StreamsListed ==
  ASSUME NEW rec, RecordTypes(rec), Sound(rec)
  PROVE  LET D == {p \in DOMAIN rec.heads : rec.heads[p].type = "data"}
             S == Streams(rec)
         IN  /\ InOrder(Those(AttributePlaces(rec, rec.used), D), S)
             /\ InOrder(PlacesOf(rec, rec.used, "data", TRUE), {p \in S : rec.heads[p].resident})
             /\ InOrder(PlacesOf(rec, rec.used, "data", FALSE), {p \in S : ~rec.heads[p].resident})
<1> DEFINE D == {p \in DOMAIN rec.heads : rec.heads[p].type = "data"}
           S == Streams(rec)
           R == BeforeEnd(rec)
           T(b) == {p \in DOMAIN rec.heads : rec.heads[p].type = "data" /\ rec.heads[p].resident = b}
<1>1. InOrder(AttributePlaces(rec, rec.used), R)
  <2>1. rec.used \in Nat
    BY DEF RecordTypes
  <2> QED BY <2>1, PlacesListed DEF Sound
<1>2. S = R \cap D /\ R \subseteq DOMAIN rec.heads
  BY DEF Streams, BeforeEnd
<1>3. \A p \in DOMAIN rec.heads : rec.heads[p].resident \in BOOLEAN
  BY DEF RecordTypes
<1> HIDE DEF S, R
<1>4. {p \in S : rec.heads[p].resident} = R \cap T(TRUE) /\ {p \in S : ~rec.heads[p].resident} = R \cap T(FALSE)
  BY <1>2, <1>3
<1> HIDE DEF D, T
<1>5. /\ InOrder(Those(AttributePlaces(rec, rec.used), D), R \cap D)
      /\ InOrder(Those(AttributePlaces(rec, rec.used), T(TRUE)), R \cap T(TRUE))
      /\ InOrder(Those(AttributePlaces(rec, rec.used), T(FALSE)), R \cap T(FALSE))
  BY <1>1, ListingOf
<1>6. \A b : PlacesOf(rec, rec.used, "data", b) = Those(AttributePlaces(rec, rec.used), T(b))
  BY DEF PlacesOf, T
<1> QED BY <1>2, <1>4, <1>5, <1>6 DEF S, D

\* Every reader of a sound record has one stream, whole.
LEMMA StreamsRead ==
  ASSUME NEW i, NEW rec, RecordTypes(rec), Size \in Nat, Sound(rec)
  PROVE  StreamsOf(i, rec, ParseMftRecord(i, rec, Size))
<1> DEFINE r == ParseMftRecord(i, rec, Size)
           used == rec.used
           S == Streams(rec)
           runs == {p \in S : ~rec.heads[p].resident}
           res == {p \in S : rec.heads[p].resident}
           D == {p \in DOMAIN rec.heads : rec.heads[p].type = "data"}
           datas == Those(AttributePlaces(rec, used), D)
           values == PlacesOf(rec, used, "data", TRUE)
           lists == PlacesOf(rec, used, "data", FALSE)
           v == LastIn(values)
           u == LastIn(lists)
           d == r.data_resident
           x == MaxData(i, rec, Size)
           j == JData(i, rec, Size)
           l == LogFileData(i, rec, Size)
           W(p) == WholeStream(rec, p)
           V(p) == Value(i, rec, p, used)
           U(p) == Value(i, rec, p, Size)
<1>1. used \in Nat /\ LowerOf(used, Size) = used /\ S \subseteq DOMAIN rec.heads
  BY DEF RecordTypes, Sound, LowerOf, Streams
<1>2. InOrder(datas, S) /\ InOrder(values, res) /\ InOrder(lists, runs)
  BY StreamsListed, Zenon
<1>3. res = S \ runs /\ runs \subseteq S /\ S \subseteq Nat
  BY <1>1 DEF RecordTypes
<1>4. FieldsOf(r, i, rec, Size)
  BY ParsedFields
<1>5. /\ r.resident = (datas = <<>> \/ rec.heads[Last(datas)].resident)
      /\ d = IF v = -1 THEN <<>> ELSE V(v)
      /\ r.data_non_resident = u
  <2> HIDE DEF r
  <2> QED BY <1>1, <1>4, Zenon DEF FieldsOf
<1>6. x = IF u # -1 THEN U(u) ELSE <<>>
  BY <1>5, Zenon DEF MaxData, HasRuns
<1>7. j = IF lists = <<>> THEN <<>> ELSE U(Head(lists))
  BY <1>1, Zenon DEF JData
<1>8. l = IF x # <<>> THEN x ELSE d
  BY Zenon DEF LogFileData
<1>9. rec.array \/ rec.ends = {}
  BY DEF Sound
<1>10. \A p \in res : Tails(V(p)) = W(p) /\ (V(p) = <<>> => W(p) = <<>>)
  <2> SUFFICES ASSUME NEW p \in res PROVE Tails(V(p)) = W(p) /\ (V(p) = <<>> => W(p) = <<>>)
    OBVIOUS
  <2>1. p \in DOMAIN rec.heads /\ (rec.heads[p].resident => p + ResidentHeader + rec.heads[p].count <= used)
    BY <1>1 DEF Sound
  <2> QED BY <1>1, <1>9, <2>1, ValueWhole, Zenon
<1>11. \A p \in runs : Tails(U(p)) = W(p) /\ (U(p) = <<>> => W(p) = <<>>)
  <2> SUFFICES ASSUME NEW p \in runs PROVE Tails(U(p)) = W(p) /\ (U(p) = <<>> => W(p) = <<>>)
    OBVIOUS
  <2>1. p \in DOMAIN rec.heads /\ (rec.heads[p].resident => p + ResidentHeader + rec.heads[p].count <= Size)
    BY <1>1
  <2> QED BY <1>9, <2>1, ValueWhole, Zenon
<1>12. (res = {} /\ v = -1) \/ (v \in res /\ v # -1)
  BY <1>2, LastListed
<1>13. (runs = {} /\ u = -1 /\ lists = <<>>) \/ (u \in runs /\ u # -1 /\ lists # <<>> /\ Head(lists) \in runs)
  BY <1>2, LastListed
<1>14. (S = {} /\ datas = <<>>) \/ (datas # <<>> /\ Last(datas) \in S)
  BY <1>2, LastListed
<1>15. \A p \in S : p \in runs <=> ~rec.heads[p].resident
  OBVIOUS
<1>16. r.resident = (datas = <<>> \/ Last(datas) \notin runs)
  BY <1>5, <1>14
<1> HIDE DEF r, S, runs, res, datas, values, lists, v, u, d, x, j, l, W, V, U, D
<1>17. d = <<>> \/ (v \in res /\ Tails(d) = W(v))
  BY <1>5, <1>10, <1>12
<1>18. x = <<>> \/ (u \in runs /\ Tails(x) = W(u))
  BY <1>6, <1>11, <1>13
<1>19. j = <<>> \/ (Head(lists) \in runs /\ Tails(j) = W(Head(lists)))
  BY <1>7, <1>11, <1>13
<1>20. /\ Tails(d) \in {W(p) : p \in res} \union {<<>>}
       /\ Tails(j) \in {W(p) : p \in runs} \union {<<>>}
       /\ Tails(l) \in {W(p) : p \in S} \union {<<>>}
  <2>1. Tails(d) \in {W(p) : p \in res} \union {<<>>}
    BY <1>17, TailsNone
  <2>2. Tails(j) \in {W(p) : p \in runs} \union {<<>>}
    BY <1>19, TailsNone
  <2>3. Tails(x) \in {W(p) : p \in runs} \union {<<>>}
    BY <1>18, TailsNone
  <2>4. {W(p) : p \in res} \subseteq {W(p) : p \in S} /\ {W(p) : p \in runs} \subseteq {W(p) : p \in S}
    BY <1>3
  <2> QED BY <1>8, <2>1, <2>2, <2>3, <2>4
<1>21. ASSUME NEW p \in S, S = {p}
       PROVE  /\ Tails(l) = W(p)
              /\ p \in runs => j = x /\ ~r.resident
              /\ p \notin runs => Tails(d) = W(p) /\ r.resident
  <2>1. CASE p \in runs
    <3>1. res = {} /\ runs = {p}
      BY <1>3, <1>21, <2>1
    <3>2. d = <<>> /\ u = p /\ u # -1 /\ lists # <<>> /\ Head(lists) = p
      BY <1>12, <1>13, <1>5, <3>1
    <3>3. x = U(p) /\ j = U(p) /\ Tails(U(p)) = W(p) /\ (U(p) = <<>> => W(p) = <<>>)
      BY <1>6, <1>7, <1>11, <3>1, <3>2
    <3>4. Tails(l) = W(p)
      BY <1>8, <3>2, <3>3, TailsNone
    <3>5. Last(datas) = p /\ datas # <<>>
      BY <1>14, <1>21
    <3> QED BY <1>16, <2>1, <3>3, <3>4, <3>5
  <2>2. CASE p \notin runs
    <3>1. res = {p} /\ runs = {}
      BY <1>3, <1>21, <2>2
    <3>2. v = p /\ v # -1 /\ d = V(p) /\ x = <<>> /\ Tails(V(p)) = W(p)
      BY <1>5, <1>6, <1>10, <1>12, <1>13, <3>1
    <3>3. Tails(l) = W(p)
      BY <1>8, <3>2
    <3>4. r.resident
      BY <1>16, <3>1
    <3> QED BY <2>2, <3>2, <3>3, <3>4
  <2> QED BY <2>1, <2>2
<1>22. StreamsOf(i, rec, r)
  BY <1>3, <1>20, <1>21 DEF StreamsOf, S, runs, d, j, x, l, W
<1> QED BY <1>22 DEF r

\* So it is of every record that was found.
LEMMA StreamsAreRight == ASSUME MftWalked => TableWalked PROVE StreamsRight
<1> SUFFICES ASSUME MftWalked, NEW k \in DOMAIN records, Sound(table.records[records[k].at])
             PROVE  StreamsOf(records[k].at, table.records[records[k].at], records[k])
  BY Zenon DEF StreamsRight, StreamsOf
<1>1. TableWalked
  OBVIOUS
<1>2. PICK slot : Visits(slot)
  BY <1>1, WalkVisits
<1> DEFINE i == RecordAtSlot(slot[k])
<1>3. records[k] = ParseMftRecord(i, table.records[i], Size)
  BY <1>2 DEF Visits
<1>4. records[k].at = i
  BY <1>3, ParsedAt
<1>5. i \in DOMAIN table.records /\ Size \in Nat
  BY <1>1, <1>4, WalkFinds, PlacesType
<1> HIDE DEF i
<1>6. RecordTypes(table.records[i])
  BY <1>1, <1>5, RecordTyped DEF TableWalked
<1>7. StreamsOf(i, table.records[i], ParseMftRecord(i, table.records[i], Size))
  BY <1>4, <1>5, <1>6, StreamsRead
<1> QED BY <1>3, <1>4, <1>7

-----------------------------------------------------------------------------
(* Part 12: the files that are saved.                                       *)

\* The words of the candidates.
Words == UNION {{FileData(i)[n] : n \in DOMAIN FileData(i)} : i \in DOMAIN chosen}

\* What has been chosen: of each file the data are a sequence.
Choosing == \A i \in DOMAIN chosen : FileData(i) \in Seq(Words)

\* What is chosen is what is a candidate.
Chosen ==
  /\ TableWalked
  /\ chosen = Those(records, {r \in Range(records) : Candidate(r)})

\* The candidates are records that were found.
LEMMA ChosenFrom ==
  ASSUME Chosen
  PROVE  /\ \E l \in Nat : DOMAIN chosen = 1..l
         /\ \A i \in DOMAIN chosen : \E k \in DOMAIN records : chosen[i] = records[k] /\ Candidate(records[k])
<1>1. PICK l \in Nat : DOMAIN records = 1..l
  BY WalkVisits DEF Chosen
<1> DEFINE S == Range(records)
           set == {r \in Range(records) : Candidate(r)}
<1>2. records \in Seq(S)
  <2>1. records = [k \in 1..l |-> records[k]]
    BY <1>1 DEF Chosen, TableWalked, WalkMft
  <2>2. \A k \in 1..l : records[k] \in S
    BY <1>1 DEF Range
  <2>3. records \in [1..l -> S]
    BY <2>1, <2>2
  <2> QED BY <2>3, SeqDef
<1>3. chosen \in Seq(S) /\ \E g : Picked(chosen, records, set, g, Len(records))
  <2> HIDE DEF S
  <2> QED BY <1>2, ThoseRight DEF Chosen
<1>4. Len(chosen) \in Nat /\ DOMAIN chosen = 1..Len(chosen)
  BY <1>3, LenProperties
<1>5. \A i \in DOMAIN chosen : chosen[i] \in set
  BY <1>3, <1>4 DEF Picked
<1>6. \A r \in set : \E k \in DOMAIN records : r = records[k] /\ Candidate(records[k])
  BY DEF Range
<1> QED BY <1>4, <1>5, <1>6

\* A list whose elements are named, is a sequence.
LEMMA NamedList ==
  ASSUME NEW f, NEW m \in Nat, f = [k \in 1..m |-> f[k]], NEW S, \A k \in DOMAIN f : f[k] \in S
  PROVE  f \in Seq(S)
<1>1. f \in [1..m -> S]
  OBVIOUS
<1> QED BY <1>1, SeqDef

\* What lists of a record leave is at the places of its attributes.
LEMMA PlaceOf ==
  ASSUME NEW rec, NEW n \in Nat, NEW b, NEW p, p = LastIn(PlacesOf(rec, n, "data", b)), p # -1
  PROVE  p \in DOMAIN rec.heads /\ rec.heads[p].resident = b
<1> DEFINE set == {q \in DOMAIN rec.heads : rec.heads[q].type = "data" /\ rec.heads[q].resident = b}
           list == AttributePlaces(rec, n)
           s == Those(list, set)
<1>1. s \in Seq(Nat) /\ \E g : Picked(s, list, set, g, Len(list))
  <2>1. list \in Seq(Nat)
    BY PlacesTyped
  <2> HIDE DEF list, set
  <2> QED BY <2>1, ThoseRight
<1>2. p = LastIn(s)
  BY DEF PlacesOf
<1> HIDE DEF s, list
<1>3. s # <<>> /\ p = s[Len(s)]
  BY <1>2 DEF LastIn, Last
<1>4. Len(s) \in 1..Len(s)
  <2>1. Len(s) \in Nat \ {0}
    BY <1>1, <1>3, EmptySeq
  <2> QED BY <2>1
<1>5. p \in set
  BY <1>1, <1>3, <1>4 DEF Picked
<1> QED BY <1>5

\* Of a candidate there are data, as a sequence of words.
LEMMA DataChosen == ASSUME Chosen PROVE Choosing
<1> SUFFICES ASSUME NEW i \in DOMAIN chosen PROVE FileData(i) \in Seq(Words)
  BY DEF Choosing
<1>1. PICK k \in DOMAIN records : chosen[i] = records[k] /\ Candidate(records[k])
  BY ChosenFrom
<1> DEFINE c == chosen[i]
           a == c.at
           rec == table.records[a]
           f == FileData(i)
           used == LowerOf(rec.used, Size)
           v == LastIn(PlacesOf(rec, used, "data", TRUE))
           u == LastIn(PlacesOf(rec, used, "data", FALSE))
<1>2. PICK slot : Visits(slot)
  BY WalkVisits DEF Chosen
<1>3. a \in DOMAIN table.records /\ Size \in Nat /\ table \in MftTables
  BY <1>1, WalkFinds, PlacesType DEF Chosen, TableWalked
<1>4. FieldsOf(c, a, rec, Size)
  <2> DEFINE at == RecordAtSlot(slot[k])
  <2>1. c = ParseMftRecord(at, table.records[at], Size)
    BY <1>1, <1>2 DEF Visits
  <2> HIDE DEF at, c
  <2>2. a = at
    BY <2>1, ParsedAt
  <2> QED BY <2>1, <2>2, ParsedFields
<1>5. RecordTypes(rec)
  BY <1>3, RecordTyped
<1> HIDE DEF c, rec
<1>6. used \in Nat
  BY <1>3, <1>5 DEF RecordTypes, LowerOf
<1>7. c.data_resident = (IF v = -1 THEN <<>> ELSE Value(a, rec, v, used)) /\ c.data_non_resident = u
  BY <1>4, Zenon DEF FieldsOf
<1> HIDE DEF used
<1>8. /\ (v # -1 => v \in DOMAIN rec.heads)
      /\ (u # -1 => u \in DOMAIN rec.heads)
  BY <1>6, PlaceOf
<1>9. table.command \in {"recover", "resident"}
  BY <1>3, TableAssumption
<1>10. (c.resident /\ c.data_resident # <<>>) \/ u # -1
  <2>1. Candidate(c)
    BY <1>1 DEF c
  <2> HIDE DEF u, v
  <2> QED BY <1>7, <1>9, <2>1 DEF Candidate, HasRuns
<1>11. /\ (c.resident /\ c.data_resident # <<>>) => f = c.data_resident
       /\ ~(c.resident /\ c.data_resident # <<>>) => f = RunsData(i)
  BY DEF FileData, c
<1>12. \/ RunsData(i) = Value(a, rec, u, 0)
       \/ RunsData(i) = <<>>
  <2> DEFINE e == table.records[chosen[i].at].heads[chosen[i].data_non_resident]
  <2>1. RunsData(i) = IF e.reads
          THEN Value(chosen[i].at, table.records[chosen[i].at], chosen[i].data_non_resident, 0) ELSE <<>>
    BY Zenon DEF RunsData
  <2> HIDE DEF e, u
  <2> QED BY <1>7, <2>1 DEF c, rec
<1> HIDE DEF f, u, v, a
<1>13. IsList(f)
  <2>1. CASE c.resident /\ c.data_resident # <<>>
    <3>1. f = Value(a, rec, v, used) /\ v \in DOMAIN rec.heads
      BY <1>7, <1>8, <1>11, <2>1
    <3> QED BY <1>5, <1>6, <3>1, ValueType
  <2>2. CASE ~(c.resident /\ c.data_resident # <<>>)
    <3>1. u \in DOMAIN rec.heads /\ f = RunsData(i)
      BY <1>8, <1>10, <1>11, <2>2
    <3>2. CASE f = Value(a, rec, u, 0)
      <4>1. 0 \in Nat
        OBVIOUS
      <4>2. IsList(Value(a, rec, u, 0))
        BY <1>5, <3>1, <4>1, ValueType
      <4> QED BY <3>2, <4>2
    <3>3. CASE f = <<>>
      <4>1. 0 \in Nat /\ <<>> = [n \in 1..0 |-> <<>>[n]]
        OBVIOUS
      <4> QED BY <3>3, <4>1 DEF IsList
    <3> QED BY <1>12, <3>1, <3>2, <3>3
  <2> QED BY <2>1, <2>2
<1>14. \A n \in DOMAIN f : f[n] \in Words
  BY DEF f, Words
<1>15. f \in Seq(Words)
  BY <1>13, <1>14, NamedList DEF IsList
<1> QED BY <1>15 DEF f

\* Those whose words are in a file, and those that have emptied it and not written yet.
WrittenTo(st, p) == {j \in DOMAIN st : st[j] \in {"saved", "listed"} /\ SavedPath(j) = p}
PendingAt(st, p) == {j \in DOMAIN st : st[j] \in {"open", "failed"} /\ SavedPath(j) = p}

\* The words of a file are from those that wrote it, one of them whole from the start; it is
\* empty only before the first was written, or while one is opened again.
FileOK(st, f, p) ==
  /\ f \in Seq(Words)
  /\ \A n \in 1..Len(f) : \E j \in WrittenTo(st, p) : n <= Len(FileData(j)) /\ f[n] = FileData(j)[n]
  /\ f = <<>> \/ \E j \in WrittenTo(st, p) : IsPrefix(FileData(j), f)
  /\ f = <<>> => WrittenTo(st, p) = {} \/ PendingAt(st, p) # {}

\* Without threads it is empty while one is opened, and then it is the last one.
AloneOK(st, f, p) ==
  /\ PendingAt(st, p) # {} => f = <<>>
  /\ PendingAt(st, p) = {} /\ WrittenTo(st, p) # {} =>
      \E j \in WrittenTo(st, p) : f = FileData(j) /\ \A l \in WrittenTo(st, p) : l <= j

\* One is taken when those before it are over.
OneByOne(st) == \A i, j \in DOMAIN st : (st[i] # "waiting" /\ j < i) => st[j] \in {"listed", "passed"}

\* A candidate with bytes has its file, the files are as they were written, and without threads one
\* candidate is saved after the other.
DiskOK(st, d) ==
  /\ \A i \in DOMAIN st : st[i] \in {"open", "saved", "listed", "failed"} =>
        SavedPath(i) \in DOMAIN d /\ FileData(i) # <<>>
  /\ \A p \in DOMAIN d : FileOK(st, d[p], p)
  /\ table.threads = 1 => OneByOne(st) /\ \A p \in DOMAIN d : AloneOK(st, d[p], p)

\* What is known of the candidates, and of the files on the disk.
Saves ==
  /\ Chosen /\ DOMAIN pool = DOMAIN chosen
  /\ \E st \in {pool} : \E d \in {disk} : DiskOK(st, d)

\* The order is kept by a step of one whose turn it is.
LEMMA OrderKept ==
  ASSUME NEW st, NEW l \in Nat, DOMAIN st = 1..l, NEW i \in DOMAIN st, NEW s, OneByOne(st),
         st[i] \notin {"listed", "passed"},
         st[i] = "waiting" => \A j \in DOMAIN st : j < i => st[j] \in {"listed", "passed"}
  PROVE  OneByOne([st EXCEPT ![i] = s])
<1> DEFINE t == [st EXCEPT ![i] = s]
<1>1. DOMAIN t = 1..l /\ (\A j \in 1..l : j # i => t[j] = st[j]) /\ i \in 1..l
  OBVIOUS
<1> HIDE DEF t
<1> SUFFICES ASSUME NEW k \in 1..l, NEW j \in 1..l, t[k] # "waiting", j < k PROVE t[j] \in {"listed", "passed"}
  BY <1>1 DEF OneByOne, t
<1>2. \A a, b \in 1..l : (st[a] # "waiting" /\ b < a) => st[b] \in {"listed", "passed"}
  BY DEF OneByOne
<1>3. CASE k = i
  <2>1. j # i
    BY <1>3
  <2> QED BY <1>1, <1>2, <1>3, <2>1
<1>4. CASE k # i
  <2>1. st[k] # "waiting"
    BY <1>1, <1>4
  <2>2. st[j] \in {"listed", "passed"}
    BY <1>2, <2>1
  <2> QED BY <1>1, <2>2
<1> QED BY <1>3, <1>4

\* A step of one that neither opens nor writes its file leaves the files right.
LEMMA QuietStep ==
  ASSUME NEW st, NEW d, NEW i \in DOMAIN st, NEW s, DiskOK(st, d),
         st[i] \in {"saved", "listed"} <=> s \in {"saved", "listed"},
         st[i] \in {"open", "failed"} <=> s \in {"open", "failed"},
         table.threads = 1 => OneByOne([st EXCEPT ![i] = s])
  PROVE  DiskOK([st EXCEPT ![i] = s], d)
<1> DEFINE t == [st EXCEPT ![i] = s]
<1>1. DOMAIN t = DOMAIN st /\ t[i] = s /\ \A j \in DOMAIN st : j # i => t[j] = st[j]
  OBVIOUS
<1> HIDE DEF t
<1>2. \A p : WrittenTo(t, p) = WrittenTo(st, p) /\ PendingAt(t, p) = PendingAt(st, p)
  <2>1. \A j \in DOMAIN st : (t[j] \in {"saved", "listed"} <=> st[j] \in {"saved", "listed"})
                             /\ (t[j] \in {"open", "failed"} <=> st[j] \in {"open", "failed"})
    BY <1>1
  <2> QED BY <1>1, <2>1 DEF WrittenTo, PendingAt
<1>3. \A j \in DOMAIN t : t[j] \in {"open", "saved", "listed", "failed"} => st[j] \in {"open", "saved", "listed", "failed"}
  BY <1>1
<1>4. \A p, f : (FileOK(st, f, p) => FileOK(t, f, p)) /\ (AloneOK(st, f, p) => AloneOK(t, f, p))
  BY <1>2 DEF FileOK, AloneOK
<1>5. DiskOK(t, d)
  BY <1>1, <1>3, <1>4 DEF DiskOK, t
<1> QED BY <1>5 DEF t

\* One that opens its file empties it.
LEMMA OpenStep ==
  ASSUME NEW st, NEW d, NEW e, NEW i \in DOMAIN st, DiskOK(st, d), st[i] = "waiting", FileData(i) # <<>>,
         e = [p \in DOMAIN d \union {SavedPath(i)} |-> IF p = SavedPath(i) THEN <<>> ELSE d[p]],
         table.threads = 1 => OneByOne([st EXCEPT ![i] = "open"])
  PROVE  DiskOK([st EXCEPT ![i] = "open"], e)
<1> DEFINE t == [st EXCEPT ![i] = "open"]
           q == SavedPath(i)
<1>1. DOMAIN t = DOMAIN st /\ t[i] = "open" /\ \A j \in DOMAIN st : j # i => t[j] = st[j]
  OBVIOUS
<1>2. DOMAIN e = DOMAIN d \union {q} /\ e[q] = <<>> /\ \A p \in DOMAIN d : p # q => e[p] = d[p]
  OBVIOUS
<1> HIDE DEF t, q
<1>3. ASSUME NEW p PROVE WrittenTo(t, p) = WrittenTo(st, p) /\ (p # q => PendingAt(t, p) = PendingAt(st, p))
  <2>1. \A j \in DOMAIN st : (t[j] \in {"saved", "listed"} <=> st[j] \in {"saved", "listed"})
    BY <1>1
  <2>2. p # q => \A j \in DOMAIN st : (t[j] \in {"open", "failed"} /\ SavedPath(j) = p
                                        <=> st[j] \in {"open", "failed"} /\ SavedPath(j) = p)
    BY <1>1 DEF q
  <2>3. WrittenTo(t, p) = WrittenTo(st, p)
    BY <1>1, <2>1 DEF WrittenTo
  <2>4. p # q => PendingAt(t, p) = PendingAt(st, p)
    BY <1>1, <2>2 DEF PendingAt
  <2> QED BY <2>3, <2>4
<1>4. i \in PendingAt(t, q)
  BY <1>1 DEF PendingAt, q
<1>5. ASSUME NEW j \in DOMAIN t, t[j] \in {"open", "saved", "listed", "failed"}
      PROVE  SavedPath(j) \in DOMAIN e /\ FileData(j) # <<>>
  <2>1. CASE j = i
    BY <1>2, <2>1 DEF q
  <2>2. CASE j # i
    <3>1. SavedPath(j) \in DOMAIN d /\ FileData(j) # <<>>
      BY <1>1, <1>5, <2>2 DEF DiskOK
    <3> QED BY <1>2, <3>1
  <2> QED BY <2>1, <2>2
<1>6. ASSUME NEW p \in DOMAIN e
      PROVE  FileOK(t, e[p], p) /\ (table.threads = 1 => AloneOK(t, e[p], p))
  <2>1. CASE p = q
    <3>1. <<>> \in Seq(Words) /\ 1..Len(<<>>) = {}
      BY EmptySeq
    <3>2. FileOK(t, <<>>, q) /\ AloneOK(t, <<>>, q)
      BY <1>4, <3>1 DEF FileOK, AloneOK
    <3> QED BY <1>2, <2>1, <3>2
  <2>2. CASE p # q
    <3>1. p \in DOMAIN d /\ e[p] = d[p]
      BY <1>2, <2>2
    <3>2. FileOK(st, d[p], p) /\ (table.threads = 1 => AloneOK(st, d[p], p))
      BY <3>1 DEF DiskOK
    <3>3. WrittenTo(t, p) = WrittenTo(st, p) /\ PendingAt(t, p) = PendingAt(st, p)
      BY <1>3, <2>2
    <3> QED BY <3>1, <3>2, <3>3 DEF FileOK, AloneOK
  <2> QED BY <2>1, <2>2
<1>7. DiskOK(t, e)
  BY <1>5, <1>6 DEF DiskOK, t
<1> QED BY <1>7 DEF t

\* One that writes its file leaves what is behind its words, if another wrote there.
LEMMA WriteStep ==
  ASSUME NEW st, NEW d, NEW e, NEW l \in Nat, DOMAIN st = 1..l, NEW i \in DOMAIN st, DiskOK(st, d), st[i] = "open",
         FileData(i) \in Seq(Words),
         e = [d EXCEPT ![SavedPath(i)] = FileData(i) \o SubSeq(@, Len(FileData(i)) + 1, Len(@))]
  PROVE  DiskOK([st EXCEPT ![i] = "saved"], e)
<1> DEFINE t == [st EXCEPT ![i] = "saved"]
           q == SavedPath(i)
           f == FileData(i)
           rest == SubSeq(d[q], Len(f) + 1, Len(d[q]))
<1>1. DOMAIN t = DOMAIN st /\ t[i] = "saved" /\ \A j \in DOMAIN st : j # i => t[j] = st[j]
  OBVIOUS
<1>2. q \in DOMAIN d /\ f # <<>> /\ FileOK(st, d[q], q)
  BY DEF DiskOK
<1>3. DOMAIN e = DOMAIN d /\ e[q] = f \o rest /\ \A p \in DOMAIN d : p # q => e[p] = d[p]
  BY <1>2
<1> HIDE DEF t, q, f
<1>4. ASSUME NEW p, p # q PROVE WrittenTo(t, p) = WrittenTo(st, p) /\ PendingAt(t, p) = PendingAt(st, p)
  <2>1. \A j \in DOMAIN st : (t[j] \in {"saved", "listed"} /\ SavedPath(j) = p
                                <=> st[j] \in {"saved", "listed"} /\ SavedPath(j) = p)
    BY <1>1, <1>4 DEF q
  <2>2. \A j \in DOMAIN st : (t[j] \in {"open", "failed"} /\ SavedPath(j) = p
                                <=> st[j] \in {"open", "failed"} /\ SavedPath(j) = p)
    BY <1>1, <1>4 DEF q
  <2>3. WrittenTo(t, p) = WrittenTo(st, p)
    BY <1>1, <2>1 DEF WrittenTo
  <2>4. PendingAt(t, p) = PendingAt(st, p)
    BY <1>1, <2>2 DEF PendingAt
  <2> QED BY <2>3, <2>4
<1>5. WrittenTo(t, q) = WrittenTo(st, q) \union {i} /\ PendingAt(t, q) = PendingAt(st, q) \ {i} /\ i \in PendingAt(st, q)
  <2>1. \A j \in DOMAIN st : (t[j] \in {"saved", "listed"} <=> (st[j] \in {"saved", "listed"} \/ j = i))
                             /\ (t[j] \in {"open", "failed"} <=> (st[j] \in {"open", "failed"} /\ j # i))
    BY <1>1
  <2>2. SavedPath(i) = q
    BY DEF q
  <2> QED BY <1>1, <2>1, <2>2 DEF WrittenTo, PendingAt
<1>6. /\ d[q] \in Seq(Words) /\ f \in Seq(Words) /\ Len(f) \in Nat /\ Len(f) > 0 /\ Len(d[q]) \in Nat
      /\ \A n \in 1..Len(d[q]) : d[q][n] \in Words
  <2>1. d[q] \in Seq(Words) /\ f \in Seq(Words)
    BY <1>2 DEF FileOK, f
  <2> QED BY <1>2, <2>1, LenProperties, EmptySeq, ElementOfSeq
<1>7. /\ rest \in Seq(Words) /\ Len(rest) \in Nat
      /\ Len(rest) = IF Len(f) + 1 <= Len(d[q]) THEN Len(d[q]) - Len(f) ELSE 0
      /\ \A n \in 1..Len(rest) : Len(f) + n \in 1..Len(d[q]) /\ rest[n] = d[q][Len(f) + n]
  <2> DEFINE a == Len(f) + 1
             b == Len(d[q])
  <2>1. a \in Int /\ b \in Int /\ \A n \in a..b : d[q][n] \in Words
    BY <1>6
  <2>2. /\ rest \in Seq(Words) /\ Len(rest) = IF a <= b THEN b - a + 1 ELSE 0
        /\ \A n \in 1..(b - a + 1) : rest[n] = d[q][a + n - 1]
    BY <2>1, SubSeqProperties
  <2> HIDE DEF rest
  <2>3. b - a + 1 = b - Len(f)
    BY <1>6
  <2>4. ASSUME NEW n \in 1..Len(rest) PROVE n \in 1..(b - a + 1) /\ a + n - 1 = Len(f) + n /\ Len(f) + n \in 1..b
    BY <1>6, <2>2
  <2> QED BY <1>6, <2>2, <2>3, <2>4
<1>8. /\ e[q] \in Seq(Words) /\ Len(e[q]) = Len(f) + Len(rest)
      /\ \A n \in 1..Len(f) : e[q][n] = f[n]
      /\ \A n \in 1..Len(rest) : e[q][Len(f) + n] = rest[n]
  <2> HIDE DEF rest
  <2>1. /\ f \o rest \in Seq(Words) /\ Len(f \o rest) = Len(f) + Len(rest)
        /\ \A n \in 1..Len(f) : (f \o rest)[n] = f[n]
        /\ \A n \in 1..Len(rest) : (f \o rest)[Len(f) + n] = rest[n]
    <3>1. f \in Seq(Words) /\ rest \in Seq(Words)
      BY <1>6, <1>7
    <3> QED BY <3>1, BothParts
  <2>2. e[q] = f \o rest
    BY <1>3
  <2> QED BY <2>1, <2>2
<1> HIDE DEF rest
<1>9. e[q] # <<>>
  <2>1. Len(<<>>) = 0 /\ Len(e[q]) > 0
    BY <1>6, <1>7, <1>8, EmptySeq
  <2> QED BY <2>1
<1>10. ASSUME NEW n \in 1..Len(e[q])
       PROVE  \E j \in WrittenTo(t, q) : n <= Len(FileData(j)) /\ e[q][n] = FileData(j)[n]
  <2>1. CASE n <= Len(f)
    <3>1. n \in 1..Len(f) /\ e[q][n] = f[n]
      BY <1>6, <1>7, <1>8, <2>1
    <3> QED BY <1>5, <2>1, <3>1 DEF f
  <2>2. CASE ~(n <= Len(f))
    <3> DEFINE m == n - Len(f)
    <3>1. m \in 1..Len(rest) /\ Len(f) + m = n
      BY <1>6, <1>7, <1>8, <2>2
    <3>2. n \in 1..Len(d[q]) /\ e[q][n] = d[q][n]
      <4> HIDE DEF m
      <4> QED BY <1>7, <1>8, <3>1
    <3>3. PICK j \in WrittenTo(st, q) : n <= Len(FileData(j)) /\ d[q][n] = FileData(j)[n]
      BY <1>2, <3>2 DEF FileOK
    <3> QED BY <1>5, <3>2, <3>3
  <2> QED BY <2>1, <2>2
<1>11. IsPrefix(f, e[q])
  <2>1. SubSeq(e[q], 1, Len(f)) = SubSeq(f, 1, Len(f))
    <3>1. SubSeq(f, 1, Len(f)) = f
      BY <1>6, SubSeqFull
    <3>2. /\ SubSeq(e[q], 1, Len(f)) \in Seq(Words) /\ Len(SubSeq(e[q], 1, Len(f))) = Len(f) + 1 - 1
          /\ \A n \in 1..(Len(f) + 1 - 1) : SubSeq(e[q], 1, Len(f))[n] = e[q][1 + n - 1]
      <4>1. ASSUME NEW v \in Seq(Words), NEW m \in Nat, m <= Len(v)
            PROVE  /\ SubSeq(v, 1, m) \in Seq(Words) /\ Len(SubSeq(v, 1, m)) = m + 1 - 1
                   /\ \A n \in 1..(m + 1 - 1) : SubSeq(v, 1, m)[n] = v[1 + n - 1]
        <5>1. 1 \in Nat \ {0} /\ 1 <= m + 1
          OBVIOUS
        <5> QED BY <4>1, <5>1, PartRight
      <4>2. e[q] \in Seq(Words) /\ Len(f) \in Nat /\ Len(f) <= Len(e[q])
        BY <1>6, <1>7, <1>8
      <4> HIDE DEF f, q
      <4> QED BY <4>1, <4>2
    <3>3. Len(f) + 1 - 1 = Len(f) /\ \A n \in 1..Len(f) : 1 + n - 1 = n
      BY <1>6
    <3>4. Len(SubSeq(e[q], 1, Len(f))) = Len(f) /\ \A n \in 1..Len(f) : SubSeq(e[q], 1, Len(f))[n] = f[n]
      BY <1>8, <3>2, <3>3
    <3> QED BY <1>6, <3>1, <3>2, <3>4, SeqEqual
  <2> QED BY <1>6, <1>7, <1>8, <2>1 DEF IsPrefix
<1>12. FileOK(t, e[q], q)
  <2>1. \E j \in WrittenTo(t, q) : IsPrefix(FileData(j), e[q])
    BY <1>5, <1>11 DEF f
  <2> QED BY <1>8, <1>9, <1>10, <2>1 DEF FileOK
<1>13. ASSUME table.threads = 1 PROVE OneByOne(t) /\ AloneOK(t, e[q], q)
  <2>1. OneByOne(st) /\ AloneOK(st, d[q], q)
    BY <1>2, <1>13 DEF DiskOK
  <2>2. OneByOne(t)
    BY <2>1, OrderKept DEF t
  <2>3. \A j \in 1..l : (j # i /\ st[j] # "waiting") => j < i /\ st[j] \in {"listed", "passed"}
    <3>1. \A a, b \in 1..l : (st[a] # "waiting" /\ b < a) => st[b] \in {"listed", "passed"}
      BY <2>1 DEF OneByOne
    <3>2. ASSUME NEW j \in 1..l, j # i, st[j] # "waiting" PROVE j < i /\ st[j] \in {"listed", "passed"}
      <4>1. ~(i < j)
        BY <3>1, <3>2
      <4> QED BY <3>1, <3>2, <4>1
    <3> QED BY <3>2
  <2>4. PendingAt(t, q) = {}
    <3>1. ASSUME NEW j \in PendingAt(t, q) PROVE FALSE
      <4>1. j \in 1..l /\ j # i /\ st[j] \in {"open", "failed"}
        BY <1>5, <3>1 DEF PendingAt
      <4> QED BY <2>3, <4>1
    <3> QED BY <3>1
  <2>5. e[q] = f
    <3>1. d[q] = <<>>
      BY <1>5, <2>1 DEF AloneOK
    <3>2. Len(d[q]) = 0
      BY <3>1, EmptySeq
    <3>3. Len(rest) = 0
      BY <1>6, <1>7, <3>2
    <3>4. Len(e[q]) = Len(f)
      BY <1>6, <1>8, <3>3
    <3> QED BY <1>6, <1>8, <3>4, SeqEqual
  <2>6. \A k \in WrittenTo(t, q) : k <= i
    <3>1. ASSUME NEW k \in WrittenTo(t, q), k # i PROVE k <= i
      <4>1. k \in 1..l /\ st[k] # "waiting"
        BY <1>5, <3>1 DEF WrittenTo
      <4>2. k < i
        BY <2>3, <3>1, <4>1
      <4> QED BY <4>1, <4>2
    <3>2. i <= i
      OBVIOUS
    <3> QED BY <3>1, <3>2
  <2> QED BY <1>5, <2>2, <2>4, <2>5, <2>6 DEF AloneOK, f
<1>14. ASSUME NEW p \in DOMAIN e
       PROVE  FileOK(t, e[p], p) /\ (table.threads = 1 => AloneOK(t, e[p], p))
  <2>1. CASE p = q
    BY <1>12, <1>13, <2>1
  <2>2. CASE p # q
    <3>1. p \in DOMAIN d /\ e[p] = d[p]
      BY <1>3, <2>2
    <3>2. FileOK(st, d[p], p) /\ (table.threads = 1 => AloneOK(st, d[p], p))
      BY <3>1 DEF DiskOK
    <3>3. WrittenTo(t, p) = WrittenTo(st, p) /\ PendingAt(t, p) = PendingAt(st, p)
      BY <1>4, <2>2
    <3> QED BY <3>1, <3>2, <3>3 DEF FileOK, AloneOK
  <2> QED BY <2>1, <2>2
<1>15. ASSUME NEW j \in DOMAIN t, t[j] \in {"open", "saved", "listed", "failed"}
       PROVE  SavedPath(j) \in DOMAIN e /\ FileData(j) # <<>>
  <2>1. st[j] \in {"open", "saved", "listed", "failed"}
    BY <1>1, <1>15
  <2> QED BY <1>1, <1>3, <2>1 DEF DiskOK
<1>16. DiskOK(t, e)
  BY <1>13, <1>14, <1>15 DEF DiskOK
<1> QED BY <1>16 DEF t

\* While nothing is open, what is known says that what was saved is there.
LEMMA SavesRight == ASSUME MftWalked => Saves PROVE SavedRight
<1> SUFFICES ASSUME MftWalked, Working = {}, NEW i \in DOMAIN pool, Wrote(i), \A j \in Sharing(i) : pool[j] # "failed"
             PROVE  LET file == disk[SavedPath(i)]
                        same == {j \in Sharing(i) : Wrote(j)}
                    IN  /\ \E j \in same : IsPrefix(FileData(j), file)
                        /\ \A n \in DOMAIN file : \E j \in same : n <= Len(FileData(j)) /\ file[n] = FileData(j)[n]
                        /\ table.threads = 1 =>
                            \E j \in same : file = FileData(j) /\ \A l \in same : l <= j
  BY Zenon DEF SavedRight
<1> DEFINE p == SavedPath(i)
           file == disk[p]
           same == {j \in Sharing(i) : Wrote(j)}
<1>1. DiskOK(pool, disk)
  BY DEF Saves
<1>2. same = WrittenTo(pool, p) /\ i \in same
  BY DEF Sharing, Wrote, WrittenTo
<1>3. PendingAt(pool, p) = {}
  <2>1. ASSUME NEW j \in PendingAt(pool, p) PROVE FALSE
    <3>1. j \in DOMAIN pool /\ pool[j] \in {"open", "failed"} /\ SavedPath(j) = SavedPath(i)
      BY <2>1 DEF PendingAt
    <3>2. pool[j] # "open"
      BY <3>1 DEF Working
    <3>3. j \in Sharing(i)
      BY <3>1 DEF Sharing
    <3> QED BY <3>1, <3>2, <3>3
  <2> QED BY <2>1
<1>4. p \in DOMAIN disk
  BY <1>1 DEF DiskOK, Wrote
<1> HIDE DEF p, same
<1>5. FileOK(pool, file, p) /\ (table.threads = 1 => AloneOK(pool, file, p))
  BY <1>1, <1>4 DEF DiskOK
<1> HIDE DEF file
<1>6. DOMAIN file = 1..Len(file)
  BY <1>5, LenProperties DEF FileOK
<1>7. \E j \in same : IsPrefix(FileData(j), file)
  BY <1>2, <1>3, <1>5 DEF FileOK
<1>8. \A n \in DOMAIN file : \E j \in same : n <= Len(FileData(j)) /\ file[n] = FileData(j)[n]
  BY <1>2, <1>5, <1>6 DEF FileOK
<1>9. table.threads = 1 => \E j \in same : file = FileData(j) /\ \A l \in same : l <= j
  BY <1>2, <1>3, <1>5 DEF AloneOK
<1> QED BY <1>7, <1>8, <1>9, Zenon DEF file, p, same

\* The command begins with nothing read, and what it has read and saved is right.
MftKept ==
  /\ mstep = "walk" => table \in MftTables /\ MftOff
  /\ MftWalked => Saves

\* Nothing that is known of the files depends on more than the candidates, their states and the disk.
LEMMA SavesSame ==
  ASSUME Saves, UNCHANGED <<table, records, chosen>>, DOMAIN pool' = DOMAIN pool, DiskOK(pool', disk')
  PROVE  Saves'
<1>1. (\A i : FileData(i)' = FileData(i)) /\ \A i : SavedPath(i)' = SavedPath(i)
  BY DEF FileData, RunsData, SavedPath
<1>2. Words' = Words
  BY <1>1 DEF Words
<1>3. \A st, p : WrittenTo(st, p)' = WrittenTo(st, p) /\ PendingAt(st, p)' = PendingAt(st, p)
  BY <1>1 DEF WrittenTo, PendingAt
<1>4. \A st, f, p : FileOK(st, f, p)' = FileOK(st, f, p) /\ AloneOK(st, f, p)' = AloneOK(st, f, p)
  BY <1>1, <1>2, <1>3 DEF FileOK, AloneOK
<1>5. \A st, d : DiskOK(st, d) => DiskOK(st, d)'
  BY <1>1, <1>4 DEF DiskOK, OneByOne
<1>6. \E st \in {pool'} : \E d \in {disk'} : DiskOK(st, d)'
  BY <1>5
<1>7. Chosen'
  <2>1. WalkMft' = WalkMft /\ Size' = Size /\ \A r : Candidate(r)' = Candidate(r)
    BY DEF WalkMft, SlotsWalked, TotalRecords, Size, IsRecord, Walkable, RecordAtSlot, Candidate
  <2> QED BY <2>1 DEF Saves, Chosen, TableWalked
<1> QED BY <1>6, <1>7 DEF Saves

\* Every step keeps what is known, whichever thread takes it.
LEMMA MftKeptSteps == MftKept /\ [MftNext]_mftVars => MftKept'
<1> SUFFICES ASSUME MftKept, [MftNext]_mftVars PROVE MftKept'
  OBVIOUS
<1>1. CASE UNCHANGED mftVars
  <2>1. UNCHANGED <<table, mstep, records, chosen, pool, disk, recovered_list>>
    BY <1>1 DEF mftVars
  <2>2. MftWalked' = MftWalked /\ (MftOff => MftOff')
    BY <2>1 DEF MftWalked, MftOff
  <2>3. MftWalked => Saves'
    BY <2>1, SavesSame DEF MftKept, Saves
  <2> QED BY <2>1, <2>2, <2>3 DEF MftKept
<1>2. CASE WalkRaises
  BY <1>2 DEF WalkRaises, MftKept, MftWalked
<1>3. CASE Walk
  <2>1. /\ mstep = "walk" /\ (Size > 0 \/ table.limit > 0) /\ mstep' # "walk"
        /\ records' = WalkMft
        /\ chosen' = Those(records', {r \in Range(records') : Candidate(r)})
        /\ pool' = [i \in DOMAIN chosen' |-> "waiting"]
        /\ UNCHANGED <<table, disk, recovered_list>>
    BY <1>3 DEF Walk
  <2>2. table \in MftTables /\ disk' = <<>>
    BY <2>1 DEF MftKept, MftOff
  <2>3. Chosen'
    <3>1. WalkMft' = WalkMft /\ Size' = Size /\ \A r : Candidate(r)' = Candidate(r)
      BY <2>1 DEF WalkMft, SlotsWalked, TotalRecords, Size, IsRecord, Walkable, RecordAtSlot, Candidate
    <3> QED BY <2>1, <2>2, <3>1 DEF Chosen, TableWalked
  <2>4. \E st \in {pool'} : \E d \in {disk'} : DiskOK(st, d)'
    <3>1. \A st, d : (DOMAIN d = {} /\ \A i \in DOMAIN st : st[i] = "waiting") => DiskOK(st, d)'
      BY DEF DiskOK, OneByOne
    <3>2. DOMAIN disk' = {} /\ \A i \in DOMAIN pool' : pool'[i] = "waiting"
      BY <2>1, <2>2
    <3> QED BY <3>1, <3>2
  <2> QED BY <2>1, <2>3, <2>4 DEF MftKept, Saves
<1>4. CASE RecoverOver
  <2>1. mstep = "recover" /\ mstep' = "done" /\ UNCHANGED <<table, records, chosen, pool, disk, recovered_list>>
    BY <1>4 DEF RecoverOver
  <2>2. Saves
    BY <2>1 DEF MftKept, MftWalked
  <2>3. Saves'
    BY <2>1, <2>2, SavesSame DEF Saves
  <2> QED BY <2>1, <2>3 DEF MftKept
<1>5. ASSUME NEW i \in 1..MaxRecords, FileStep(i), MftWalked, MftWalked' PROVE Saves'
  <2>1. Saves
    BY <1>5 DEF MftKept
  <2>2. DiskOK(pool, disk) /\ \A j \in DOMAIN pool : FileData(j) \in Seq(Words)
    BY <2>1, DataChosen DEF Saves, Choosing
  <2>3. PICK l \in Nat : DOMAIN pool = 1..l
    BY <2>1, ChosenFrom DEF Saves
  <2>4. NextFile(i) =>
          /\ i \in DOMAIN pool /\ pool[i] = "waiting"
          /\ table.threads = 1 => \A j \in DOMAIN pool : j < i => pool[j] \in {"listed", "passed"}
    <3>1. \A j \in 1..l : i \in 1..l /\ j < i => j \in 1..(i - 1)
      OBVIOUS
    <3> QED BY <2>3, <3>1 DEF NextFile
  <2>5. i \in Working => i \in DOMAIN pool /\ pool[i] = "open"
    BY DEF Working
  <2>6. ASSUME i \in DOMAIN pool, pool[i] \notin {"listed", "passed"}, NEW s,
               pool[i] = "waiting" => NextFile(i), table.threads = 1
        PROVE  OneByOne([pool EXCEPT ![i] = s])
    <3>1. OneByOne(pool)
      BY <2>2, <2>6 DEF DiskOK
    <3>2. pool[i] = "waiting" => \A j \in DOMAIN pool : j < i => pool[j] \in {"listed", "passed"}
      BY <2>4, <2>6
    <3> QED BY <2>3, <2>6, <3>1, <3>2, OrderKept
  <2>7. CASE SkipFile(i)
    <3>1. NextFile(i) /\ pool' = [pool EXCEPT ![i] = "skipped"] /\ UNCHANGED <<table, records, chosen, disk>>
      BY <2>7 DEF SkipFile, MoveTo
    <3>2. DiskOK(pool', disk)
      BY <2>2, <2>4, <2>6, <3>1, QuietStep
    <3> QED BY <2>1, <3>1, <3>2, SavesSame
  <2>8. CASE OpenFile(i)
    <3>1. /\ NextFile(i) /\ pool' = [pool EXCEPT ![i] = "open"] /\ FileData(i) # <<>>
          /\ disk' = [p \in DOMAIN disk \union {SavedPath(i)} |-> IF p = SavedPath(i) THEN <<>> ELSE disk[p]]
          /\ UNCHANGED <<table, records, chosen>>
      BY <2>8 DEF OpenFile, MoveTo
    <3>2. DiskOK(pool', disk')
      BY <2>2, <2>4, <2>6, <3>1, OpenStep
    <3> QED BY <2>1, <3>1, <3>2, SavesSame
  <2>9. CASE WriteFile(i)
    <3>1. /\ i \in Working /\ pool' = [pool EXCEPT ![i] = "saved"]
          /\ disk' = [disk EXCEPT ![SavedPath(i)] = FileData(i) \o SubSeq(@, Len(FileData(i)) + 1, Len(@))]
          /\ UNCHANGED <<table, records, chosen>>
      BY <2>9 DEF WriteFile, MoveTo
    <3>2. DiskOK(pool', disk')
      BY <2>2, <2>3, <2>5, <3>1, WriteStep
    <3> QED BY <2>1, <3>1, <3>2, SavesSame
  <2>10. CASE SaveFails(i)
    <3>1. i \in Working /\ pool' = [pool EXCEPT ![i] = "failed"] /\ UNCHANGED <<table, records, chosen, disk>>
      BY <2>10 DEF SaveFails, MoveTo
    <3>2. DiskOK(pool', disk)
      BY <2>2, <2>5, <2>6, <3>1, QuietStep
    <3> QED BY <2>1, <3>1, <3>2, SavesSame
  <2>11. CASE List(i)
    <3>1. /\ i \in DOMAIN pool /\ pool[i] = "saved" /\ pool' = [pool EXCEPT ![i] = "listed"]
          /\ UNCHANGED <<table, records, chosen, disk>>
      BY <2>11 DEF List, MoveTo
    <3>2. DiskOK(pool', disk)
      BY <2>2, <2>6, <3>1, QuietStep
    <3> QED BY <2>1, <3>1, <3>2, SavesSame
  <2>12. CASE Pass(i)
    <3>1. /\ i \in DOMAIN pool /\ pool[i] = "skipped" /\ pool' = [pool EXCEPT ![i] = "passed"]
          /\ UNCHANGED <<table, records, chosen, disk>>
      BY <2>12 DEF Pass, MoveTo
    <3>2. DiskOK(pool', disk)
      BY <2>2, <2>6, <3>1, QuietStep
    <3> QED BY <2>1, <3>1, <3>2, SavesSame
  <2>13. CASE RecoverRaises(i)
    BY <1>5, <2>13 DEF RecoverRaises, MftWalked
  <2> QED BY <1>5, <2>7, <2>8, <2>9, <2>10, <2>11, <2>12, <2>13 DEF FileStep
<1>6. ASSUME NEW i \in 1..MaxRecords, FileStep(i) PROVE (MftWalked' => MftWalked) /\ mstep' # "walk"
  <2>1. (mstep' = mstep /\ (Submitted \/ i \in Working \/ mstep = "recover")) \/ mstep' = "raised"
    BY <1>6 DEF FileStep, SkipFile, OpenFile, WriteFile, SaveFails, List, Pass, RecoverRaises, NextFile
  <2>2. mstep = "walk" => Working = {} /\ ~Submitted
    BY DEF MftKept, MftOff, Working, Submitted
  <2> QED BY <2>1, <2>2 DEF MftWalked
<1>7. ASSUME NEW i \in 1..MaxRecords, FileStep(i) PROVE MftKept'
  BY <1>5, <1>6, <1>7 DEF MftKept
<1> QED BY <1>1, <1>2, <1>3, <1>4, <1>7 DEF MftNext

\* And from what is known, records are found, read and saved as they are.
LEMMA MftKeptRight == MftKept => MftRight
<1> SUFFICES ASSUME MftKept PROVE MftRight
  OBVIOUS
<1>1. MftWalked => TableWalked /\ Saves
  BY DEF MftKept, Saves, Chosen
<1> QED BY <1>1, WalkIsRight, StreamsAreRight, SavesRight DEF MftRight

\* The walk over the master file table finds the records that are whole and good, each once and in
\* order; every reader takes a stream of a sound record whole and mixes no two; and what `ntfs recover`
\* and `ntfs resident` say they saved is on the disk, whatever order the threads write in.
THEOREM RecordsRecovered == MftSpec => []MftRight
<1>1. MftInit => MftKept
  BY DEF MftInit, MftKept, MftWalked
<1>2. MftSpec => []MftKept
  BY <1>1, MftKeptSteps, PTL DEF MftSpec
<1> QED BY <1>2, MftKeptRight, PTL

=============================================================================
