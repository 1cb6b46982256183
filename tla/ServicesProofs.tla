---------------------------- MODULE ServicesProofs ----------------------------
(***************************************************************************)
(* What the services of the scanner promise: the cases and their log, the  *)
(* recovered files and their hashes, the scan command and its interrupts,  *)
(* and the forensic index; and the objects that live as long as their      *)
(* callers like: the caches of the index and of the optimizer, the worker, *)
(* the acquisition sessions, the helpers of core/performance and the       *)
(* plugins.  Each has an inductive invariant of its own, a conjunction of  *)
(* named parts with one lemma for each part that says that every step      *)
(* keeps it.                                                               *)
(***************************************************************************)
EXTENDS Recovery, Scanning, Index, Cases, Caches, Worker, Acquisition, Performance, Plugins,
        DataLemmas, SequenceTheorems, FiniteSetTheorems, TLAPS

-----------------------------------------------------------------------------
(* The database of the cases (Cases).                                          *)

\* The latest of places of the log is one of them, or 0 if there are none.
LEMMA LatestRight ==
  ASSUME NEW n \in Nat, NEW P \in SUBSET (1..n)
  PROVE  /\ Latest(P) \in 0..n
         /\ \A p \in P : p <= Latest(P)
         /\ Latest(P) = 0 \/ Latest(P) \in P
<1> DEFINE S == {0} \union P
<1>0. \A p \in P : p \in 1..n
  OBVIOUS
<1>1. S \in SUBSET Nat /\ S # {} /\ \A s \in S : s <= n
  BY <1>0
<1>2. \E m \in S : \A p \in S : m >= p
  BY <1>1, GreatestNatural
<1>3. Latest(P) \in S /\ \A p \in S : Latest(P) >= p
  BY <1>2 DEF Latest, Max
<1>4. \A s \in S : s \in 0..n
  BY <1>0
<1> QED BY <1>3, <1>4

\* A place at the end of the log is the latest.
LEMMA LatestNew ==
  ASSUME NEW n \in Nat, NEW P \in SUBSET (1..n)
  PROVE  Latest(P \union {n + 1}) = n + 1
<1>1. P \union {n + 1} \in SUBSET (1..(n + 1)) /\ n + 1 \in Nat
  OBVIOUS
<1> QED BY <1>1, LatestRight

\* The calls a log holds.
Operation ==
  [op : {"create", "close", "reopen", "delete", "note"}, case : Nat]
  \union [op : {"add"}, case : Nat, kind : {"bookmark", "query"}]
  \union [op : {"remove"}, case : Nat, id : Nat]
  \union [op : {"tag"}, case : Nat, artifact : Artifacts, source : Sources]
  \union [op : {"untag"}, case : Nat, artifact : Artifacts]

\* The inductive invariant: what CasesRight says, and that every row of the log
\* is an operation on a case that was created, a remove one of a row that was added.
CasesInv ==
  /\ oplog \in Seq(Operation)
  /\ CasesTypeOK
  /\ \A i \in DOMAIN oplog : oplog[i].case \in DOMAIN objects
  /\ \A j \in Numbered("remove") : oplog[j].id \in Numbered("add")
  /\ CasesRight

\* The place of the next operation in the log.
Place == Len(oplog) + 1

\* An operation is put at the end of the log and leaves the others where they are.
LEMMA LogStep ==
  ASSUME oplog \in Seq(Operation), NEW e \in Operation, Did(e)
  PROVE  /\ Len(oplog) \in Nat /\ DOMAIN oplog = 1..Len(oplog)
         /\ DOMAIN oplog' = 1..Place /\ oplog' \in Seq(Operation)
         /\ \A i \in DOMAIN oplog : oplog'[i] = oplog[i]
         /\ oplog'[Place] = e
         /\ \A op : Numbered(op)' = IF e.op = op THEN Numbered(op) \union {Place} ELSE Numbered(op)
<1>1. /\ Len(oplog) \in Nat /\ DOMAIN oplog = 1..Len(oplog)
      /\ DOMAIN oplog' = 1..Place /\ oplog' \in Seq(Operation)
      /\ \A i \in DOMAIN oplog : oplog'[i] = oplog[i]
      /\ oplog'[Place] = e
  BY AppendProperties, LenProperties DEF Did, Place
<1>2. ASSUME NEW op
      PROVE  Numbered(op)' = IF e.op = op THEN Numbered(op) \union {Place} ELSE Numbered(op)
  <2>1. DOMAIN oplog' = DOMAIN oplog \union {Place}
    BY <1>1 DEF Place
  <2>2. ASSUME NEW i PROVE i \in Numbered(op)' <=> i \in Numbered(op) \/ (i = Place /\ e.op = op)
    <3>1. Place \notin DOMAIN oplog
      BY <1>1 DEF Place
    <3> QED BY <1>1, <2>1, <3>1 DEF Numbered
  <2> QED BY <2>2
<1> QED BY <1>1, <1>2

\* What the log says of a case grows by the operation itself.
LEMMA OfStep ==
  ASSUME oplog \in Seq(Operation), NEW e \in Operation, Did(e), NEW op, NEW c
  PROVE  /\ Of(op, c) \in SUBSET (1..Len(oplog))
         /\ Of(op, c)' = IF e.op = op /\ e.case = c THEN Of(op, c) \union {Place} ELSE Of(op, c)
<1>1. Of(op, c) \in SUBSET (1..Len(oplog))
  BY LogStep DEF Of, Numbered
<1>2. ASSUME NEW i
      PROVE  i \in Of(op, c)' <=> i \in Of(op, c) \/ (i = Place /\ e.op = op /\ e.case = c)
  <2>1. i \in Of(op, c)' <=> i \in Numbered(op)' /\ oplog'[i].case = c
    BY DEF Of
  <2>2. i \in Of(op, c) <=> i \in Numbered(op) /\ oplog[i].case = c
    BY DEF Of
  <2>3. i \in Numbered(op) => i \in DOMAIN oplog /\ oplog'[i] = oplog[i] /\ i # Place
    BY LogStep DEF Numbered, Place
  <2>4. i \in Numbered(op)' <=> i \in Numbered(op) \/ (i = Place /\ e.op = op)
    BY LogStep
  <2>5. oplog'[Place] = e
    BY LogStep
  <2> QED BY <2>1, <2>2, <2>3, <2>4, <2>5
<1> QED BY <1>1, <1>2

\* The latest operation of a kind on a case is the one appended, or the one before.
LEMMA LatestOf ==
  ASSUME oplog \in Seq(Operation), NEW e \in Operation, Did(e), NEW op, NEW c
  PROVE  /\ Latest(Of(op, c)) \in 0..Len(oplog)
         /\ Latest(Of(op, c)') = IF e.op = op /\ e.case = c THEN Place ELSE Latest(Of(op, c))
<1>1. Len(oplog) \in Nat
  BY LogStep
<1>2. Of(op, c) \in SUBSET (1..Len(oplog))
  BY OfStep
<1>3. Latest(Of(op, c) \union {Place}) = Place
  BY <1>1, <1>2, LatestNew DEF Place
<1>4. Of(op, c)' = IF e.op = op /\ e.case = c THEN Of(op, c) \union {Place} ELSE Of(op, c)
  BY OfStep
<1>5. Latest(Of(op, c)) \in 0..Len(oplog)
  BY <1>1, <1>2, LatestRight
<1> QED BY <1>3, <1>4, <1>5

\* Deletions are operations like others.
LEMMA DeletionsOf == \A c : Deletions(c) = Of("delete", c) /\ Deletions(c)' = Of("delete", c)'
BY DEF Deletions, Of

\* close, reopen and delete change the status of their case as the log then says.
LEMMA StatusStep ==
  ASSUME CasesInv, NEW c \in DOMAIN objects,
         NEW op \in {"close", "reopen", "delete"}, NEW e \in Operation, e = [op |-> op, case |-> c],
         Did(e), UNCHANGED objects,
         IF op = "delete"
         THEN case_metadata' = [k \in DOMAIN case_metadata \ {c} |-> case_metadata[k]]
         ELSE case_metadata' = [k \in DOMAIN case_metadata |->
                IF k = c THEN IF op = "close" THEN "closed" ELSE "open" ELSE case_metadata[k]]
  PROVE  StatusRight'
<1> SUFFICES ASSUME NEW k \in DOMAIN objects
             PROVE  /\ (k \in DOMAIN case_metadata')  <=> Deletions(k)' = {}
                    /\ k \in DOMAIN case_metadata' =>
                        (case_metadata'[k] = "closed" <=> Latest(Of("close", k)') > Latest(Of("reopen", k)'))
  BY DEF StatusRight
<1>1. /\ k \in DOMAIN case_metadata  <=> Deletions(k) = {}
      /\ k \in DOMAIN case_metadata =>
             (case_metadata[k] = "closed" <=> Latest(Of("close", k)) > Latest(Of("reopen", k)))
  BY DEF CasesInv, CasesRight, StatusRight
<1>2. /\ Deletions(k)' = IF op = "delete" /\ c = k THEN Deletions(k) \union {Place} ELSE Deletions(k)
      /\ Latest(Of("close", k)') = IF op = "close" /\ c = k THEN Place ELSE Latest(Of("close", k))
      /\ Latest(Of("reopen", k)') = IF op = "reopen" /\ c = k THEN Place ELSE Latest(Of("reopen", k))
      /\ Latest(Of("close", k)) \in 0..Len(oplog) /\ Latest(Of("reopen", k)) \in 0..Len(oplog)
      /\ Len(oplog) \in Nat
  BY OfStep, LatestOf, LogStep, DeletionsOf DEF CasesInv
<1>3. CASE op = "delete"
  <2>1. DOMAIN case_metadata' = DOMAIN case_metadata \ {c}
    BY <1>3
  <2>2. k # c /\ k \in DOMAIN case_metadata => case_metadata'[k] = case_metadata[k]
    BY <1>3
  <2> QED BY <1>1, <1>2, <1>3, <2>1, <2>2
<1>4. CASE op = "close"
  <2>1. DOMAIN case_metadata' = DOMAIN case_metadata
    BY <1>4
  <2>2. k \in DOMAIN case_metadata => case_metadata'[k] = IF k = c THEN "closed" ELSE case_metadata[k]
    BY <1>4
  <2> QED BY <1>1, <1>2, <1>4, <2>1, <2>2 DEF Place
<1>5. CASE op = "reopen"
  <2>1. DOMAIN case_metadata' = DOMAIN case_metadata
    BY <1>5
  <2>2. k \in DOMAIN case_metadata => case_metadata'[k] = IF k = c THEN "open" ELSE case_metadata[k]
    BY <1>5
  <2> QED BY <1>1, <1>2, <1>5, <2>1, <2>2 DEF Place
<1> QED BY <1>3, <1>4, <1>5

\* Any other operation leaves the status of the cases as it is.
LEMMA StatusKept ==
  ASSUME CasesInv, NEW e \in Operation, Did(e), e.op \notin {"close", "reopen", "delete"},
         UNCHANGED <<objects, case_metadata>>
  PROVE  StatusRight'
<1>1. \A k : /\ Deletions(k)' = Deletions(k)
             /\ Of("close", k)' = Of("close", k) /\ Of("reopen", k)' = Of("reopen", k)
  BY OfStep, DeletionsOf DEF CasesInv
<1> QED BY <1>1 DEF CasesInv, CasesRight, StatusRight

\* The number of the next case is not zero.
LEMMA NewCaseType ==
  ASSUME oplog \in Seq(Operation), NEW op
  PROVE  /\ Numbered(op) \in SUBSET (1..Len(oplog)) /\ Len(oplog) \in Nat
         /\ IsFiniteSet(Numbered(op)) /\ Cardinality(Numbered(op)) \in Nat
         /\ NewCase \in Nat \ {0}
<1>1. ASSUME NEW o
      PROVE  /\ Numbered(o) \in SUBSET (1..Len(oplog)) /\ Len(oplog) \in Nat
             /\ IsFiniteSet(Numbered(o)) /\ Cardinality(Numbered(o)) \in Nat
  <2>1. Numbered(o) \in SUBSET (1..Len(oplog)) /\ Len(oplog) \in Nat
    BY LenProperties DEF Numbered
  <2>2. IsFiniteSet(1..Len(oplog))
    <3>1. 1 \in Int /\ Len(oplog) \in Int
      BY <2>1
    <3> QED BY <3>1, FS_Interval
  <2> QED BY <2>1, <2>2, FS_Subset, FS_CardinalityType
<1>2. NewCase \in Nat \ {0}
  BY <1>1 DEF NewCase
<1> QED BY <1>1, <1>2

\* One more create, or none, gives the next number, or the same.
LEMMA CountStep ==
  ASSUME oplog \in Seq(Operation), NEW e \in Operation, Did(e), NEW op
  PROVE  Cardinality(Numbered(op)') =
            IF e.op = op THEN Cardinality(Numbered(op)) + 1 ELSE Cardinality(Numbered(op))
<1>1. Numbered(op)' = IF e.op = op THEN Numbered(op) \union {Place} ELSE Numbered(op)
  BY LogStep
<1>2. Place \notin Numbered(op)
  BY NewCaseType DEF Place
<1>3. Cardinality(Numbered(op) \union {Place}) = Cardinality(Numbered(op)) + 1
  BY <1>2, NewCaseType, FS_AddElement
<1> QED BY <1>1, <1>3

\* A case that is created now is in no operation before.
LEMMA FirstOfCase ==
  ASSUME CasesInv
  PROVE  \A op : Of(op, NewCase) = {}
<1>1. NewCase \notin DOMAIN objects
  <2>1. NewCase \in Int
    BY NewCaseType DEF CasesInv
  <2> QED BY <2>1 DEF CasesInv, CasesTypeOK
<1> QED BY <1>1 DEF CasesInv, Of, Numbered

\* No place is the latest of none.
LEMMA LatestNone == Latest({}) = 0
<1>1. {} \in SUBSET (1..0) /\ 0 \in Nat
  OBVIOUS
<1> QED BY <1>1, LatestRight

\* A new case is there and open, and the others are as they were.
LEMMA CreateStep ==
  ASSUME CasesInv, CreateCase
  PROVE  StatusRight' /\ DOMAIN objects' = DOMAIN objects \union {NewCase}
<1> DEFINE e == [op |-> "create", case |-> NewCase]
<1>1. e \in Operation /\ Did(e)
  BY NewCaseType DEF CreateCase, CasesInv, Operation
<1>2. /\ DOMAIN case_metadata' = DOMAIN case_metadata \union {NewCase}
      /\ DOMAIN objects' = DOMAIN objects \union {NewCase}
      /\ \A k \in DOMAIN case_metadata' :
            case_metadata'[k] = IF k = NewCase THEN "open" ELSE case_metadata[k]
  BY DEF CreateCase, Placed
<1>3. \A k : /\ Deletions(k)' = Deletions(k)
             /\ Of("close", k)' = Of("close", k) /\ Of("reopen", k)' = Of("reopen", k)
  BY <1>1, OfStep, DeletionsOf DEF CasesInv
<1>4. Deletions(NewCase) = {} /\ Latest(Of("close", NewCase)) = 0 /\ Latest(Of("reopen", NewCase)) = 0
  BY FirstOfCase, LatestNone, DeletionsOf
<1>5. ASSUME NEW k \in DOMAIN objects'
      PROVE  /\ (k \in DOMAIN case_metadata')  <=> Deletions(k)' = {}
             /\ k \in DOMAIN case_metadata' =>
                    (case_metadata'[k] = "closed" <=> Latest(Of("close", k)') > Latest(Of("reopen", k)'))
  <2>1. CASE k = NewCase
    BY <1>2, <1>3, <1>4, <2>1
  <2>2. CASE k # NewCase
    BY <1>2, <1>3, <2>2 DEF CasesInv, CasesRight, StatusRight
  <2> QED BY <2>1, <2>2
<1> QED BY <1>2, <1>5 DEF StatusRight

-----------------------------------------------------------------------------
\* The adds and the notes of which the rows are still there.
Kept(i) == Stays(i) /\ \A j \in Numbered("remove") : oplog[j].id # i
\* The additions and notes of the log that still count.
Adds == {k \in Numbered("add") : Kept(k)}
Notes == {k \in Numbered("note") : Stays(k)}

\* What an operation does to the rows that are there, of whatever kind it is.
LEMMA StaysStep ==
  ASSUME oplog \in Seq(Operation), NEW e \in Operation, Did(e), NEW i \in 1..Place
  PROVE  Stays(i)' <=> /\ e.op = "delete" => i # Place /\ e.case # oplog[i].case
                       /\ i # Place => Stays(i)
<1>1. PICK c : c = oplog'[i].case
  OBVIOUS
<1>2. Len(oplog) \in Nat /\ i \in Nat
  BY LogStep DEF Place
<1>3. Latest(Deletions(c)') = IF e.op = "delete" /\ e.case = c THEN Place ELSE Latest(Deletions(c))
  BY LatestOf, DeletionsOf
<1>4. Latest(Deletions(c)) \in 0..Len(oplog)
  BY LatestOf, DeletionsOf
<1>5. Stays(i)' <=> Latest(Deletions(c)') < i
  BY <1>1 DEF Stays
<1>6. CASE i = Place
  <2>1. c = e.case
    BY <1>1, <1>6, LogStep
  <2> QED BY <1>2, <1>3, <1>4, <1>5, <1>6, <2>1 DEF Place
<1>7. CASE i # Place
  <2>1. i \in DOMAIN oplog
    BY <1>2, <1>7, LogStep DEF Place
  <2>2. c = oplog[i].case
    BY <1>1, <2>1, LogStep
  <2>3. Stays(i) <=> Latest(Deletions(c)) < i
    BY <2>2 DEF Stays
  <2> QED BY <1>2, <1>3, <1>4, <1>5, <1>7, <2>2, <2>3 DEF Place
<1> QED BY <1>6, <1>7

\* A row of the log is the same after one more operation.
LEMMA RowStep ==
  ASSUME oplog \in Seq(Operation), NEW e \in Operation, Did(e), NEW i \in 1..Place
  PROVE  /\ i # Place => Item(i)' = Item(i) /\ Note(i)' = Note(i)
         /\ i = Place => Item(i)' = [kind |-> e.kind, case |-> e.case, id |-> i]
         /\ i = Place /\ e.op = "note" =>
                Note(i)' = [case |-> e.case, number |-> Cardinality(Numbered("note")) + 1]
<1>1. Len(oplog) \in Nat /\ i \in Nat
  BY LogStep DEF Place
<1>2. CASE i # Place
  <2>1. i \in DOMAIN oplog /\ oplog'[i] = oplog[i]
    BY <1>1, <1>2, LogStep DEF Place
  <2>2. {j \in Numbered("note")' : j <= i} = {j \in Numbered("note") : j <= i}
    <3>1. ASSUME NEW j PROVE (j \in Numbered("note")' /\ j <= i) <=> (j \in Numbered("note") /\ j <= i)
      <4>1. ~(Place <= i)
        BY <1>1, <1>2 DEF Place
      <4> QED BY <4>1, LogStep
    <3> QED BY <3>1
  <2> QED BY <1>2, <2>1, <2>2 DEF Item, Note
<1>3. CASE i = Place
  <2>1. oplog'[i] = e
    BY <1>3, LogStep
  <2>2. {j \in Numbered("note")' : j <= i} = Numbered("note")'
    <3>1. \A j \in Numbered("note")' : j <= i
      BY <1>1, <1>3, LogStep, NewCaseType DEF Place
    <3> QED BY <3>1
  <2>3. e.op = "note" => Cardinality(Numbered("note")') = Cardinality(Numbered("note")) + 1
    BY CountStep
  <2> QED BY <1>3, <2>1, <2>2, <2>3 DEF Item, Note
<1> QED BY <1>2, <1>3

\* The bookmarks and queries.
LEMMA AddsStep ==
  ASSUME CasesInv, NEW e \in Operation, Did(e)
  PROVE  \A i : i \in Adds' <=>
            \/ i \in Adds /\ (e.op = "delete" => e.case # oplog[i].case) /\ (e.op = "remove" => e.id # i)
            \/ i = Place /\ e.op = "add"
<1> USE DEF CasesInv
<1>1. Len(oplog) \in Nat /\ DOMAIN oplog = 1..Len(oplog)
  BY LogStep
<1>2. Numbered("add") \in SUBSET (1..Len(oplog)) /\ Numbered("add")' =
         IF e.op = "add" THEN Numbered("add") \union {Place} ELSE Numbered("add")
  BY LogStep, NewCaseType
<1>3. SUFFICES ASSUME NEW i \in 1..Place, e.op = "add" \/ i # Place
               PROVE  i \in Adds' <=>
                        \/ i \in Adds /\ (e.op = "delete" => e.case # oplog[i].case) /\ (e.op = "remove" => e.id # i)
                        \/ i = Place /\ e.op = "add"
  BY <1>1, <1>2 DEF Adds, Place
<1>4. (\A j \in Numbered("remove")' : oplog'[j].id # i) <=>
            /\ \A j \in Numbered("remove") : oplog[j].id # i
            /\ e.op = "remove" => e.id # i
  <2>1. \A j \in Numbered("remove") : j \in DOMAIN oplog /\ oplog'[j] = oplog[j]
    BY LogStep DEF Numbered
  <2>2. Numbered("remove")' = IF e.op = "remove" THEN Numbered("remove") \union {Place} ELSE Numbered("remove")
    BY LogStep
  <2> QED BY <2>1, <2>2, LogStep
<1>5. Stays(i)' <=> /\ e.op = "delete" => i # Place /\ e.case # oplog[i].case
                    /\ i # Place => Stays(i)
  BY StaysStep
<1>6. i = Place => \A j \in Numbered("remove") : oplog[j].id # i
  BY <1>1, <1>2 DEF Place
<1>7. i \in Adds' <=> i \in Numbered("add")' /\ Stays(i)' /\ (\A j \in Numbered("remove")' : oplog'[j].id # i)
  BY DEF Adds, Kept
<1>8. i \in Adds <=> i \in Numbered("add") /\ Stays(i) /\ (\A j \in Numbered("remove") : oplog[j].id # i)
  BY DEF Adds, Kept
<1>9. i = Place => i \notin Numbered("add") /\ i \notin Numbered("remove")
  BY <1>1, <1>2, NewCaseType DEF Place
<1>10. CASE i = Place
  <2>1. e.op = "add" /\ i \notin Adds
    BY <1>3, <1>8, <1>9, <1>10
  <2> QED BY <1>2, <1>4, <1>5, <1>6, <1>7, <1>10, <2>1
<1>11. CASE i # Place
  BY <1>2, <1>4, <1>5, <1>7, <1>8, <1>11
<1> QED BY <1>10, <1>11

\* The notes, likewise: no number is given twice.
LEMMA NotesStep ==
  ASSUME CasesInv, NEW e \in Operation, Did(e)
  PROVE  \A i : i \in Notes' <=>
            \/ i \in Notes /\ (e.op = "delete" => e.case # oplog[i].case)
            \/ i = Place /\ e.op = "note"
<1> USE DEF CasesInv
<1>1. Len(oplog) \in Nat
  BY LogStep
<1>2. Numbered("note") \in SUBSET (1..Len(oplog)) /\ Numbered("note")' =
         IF e.op = "note" THEN Numbered("note") \union {Place} ELSE Numbered("note")
  BY LogStep, NewCaseType
<1>3. SUFFICES ASSUME NEW i \in 1..Place, e.op = "note" \/ i # Place
               PROVE  i \in Notes' <=>
                        \/ i \in Notes /\ (e.op = "delete" => e.case # oplog[i].case)
                        \/ i = Place /\ e.op = "note"
  BY <1>1, <1>2 DEF Notes, Place
<1>4. Stays(i)' <=> /\ e.op = "delete" => i # Place /\ e.case # oplog[i].case
                    /\ i # Place => Stays(i)
  BY StaysStep
<1>5. i = Place => i \notin Numbered("note")
  BY <1>1, <1>2 DEF Place
<1> QED BY <1>2, <1>3, <1>4, <1>5 DEF Notes

\* The tables after an operation, as the actions write them.
ItemsAfter(e) ==
  IF e.op = "delete" THEN {b \in case_items : b.case # e.case}
  ELSE IF e.op = "remove" THEN {b \in case_items : b.id # e.id}
  ELSE IF e.op = "add" THEN case_items \union {[kind |-> e.kind, case |-> e.case, id |-> Place]}
  ELSE case_items

\* The notes after an operation.
NotesAfter(e) ==
  IF e.op = "delete" THEN {n \in case_notes : n.case # e.case}
  ELSE IF e.op = "note"
  THEN case_notes \union {[case |-> e.case, number |-> Cardinality(Numbered("note")) + 1]}
  ELSE case_notes

\* What the operation does to the rows is what RowsRight says of the longer log.
LEMMA RowsStep ==
  ASSUME CasesInv, NEW e \in Operation, Did(e),
         case_items' = ItemsAfter(e), case_notes' = NotesAfter(e)
  PROVE  RowsRight'
<1> USE DEF CasesInv
<1>0. /\ case_items = {Item(i) : i \in Adds} /\ case_notes = {Note(i) : i \in Notes}
      /\ \A m, n \in case_notes : m.number = n.number => m = n
  BY DEF CasesRight, RowsRight, Adds, Notes, Kept
<1>1. Len(oplog) \in Nat /\ \A op : Numbered(op) \in SUBSET (1..Len(oplog))
  BY NewCaseType
<1>2. Adds \in SUBSET (1..Len(oplog)) /\ Notes \in SUBSET (1..Len(oplog))
  BY <1>1 DEF Adds, Notes
<1>3. \A i \in Adds : Item(i)' = Item(i)
  BY <1>1, <1>2, RowStep DEF Place
<1>4. \A i \in Notes : Note(i)' = Note(i)
  BY <1>1, <1>2, RowStep DEF Place
<1>5. case_items' = {Item(i)' : i \in Adds'}
  <2>1. ASSUME NEW b PROVE b \in case_items' <=> \E i \in Adds' : b = Item(i)'
    <3>1. (\E i \in Adds' : b = Item(i)') <=>
            \/ \E i \in Adds : /\ e.op = "delete" => e.case # oplog[i].case
                               /\ e.op = "remove" => e.id # i
                               /\ b = Item(i)
            \/ e.op = "add" /\ b = [kind |-> e.kind, case |-> e.case, id |-> Place]
      <4>1. \A i : i = Place => Item(i)' = [kind |-> e.kind, case |-> e.case, id |-> i]
        BY <1>1, RowStep DEF Place
      <4> QED BY <4>1, <1>3, AddsStep
    <3>2. \A i : Item(i).case = oplog[i].case /\ Item(i).id = i
      BY DEF Item
    <3> QED BY <1>0, <3>1, <3>2 DEF ItemsAfter
  <2> QED BY <2>1
<1>6. case_notes' = {Note(i)' : i \in Notes'}
  <2>1. ASSUME NEW b PROVE b \in case_notes' <=> \E i \in Notes' : b = Note(i)'
    <3>1. (\E i \in Notes' : b = Note(i)') <=>
            \/ \E i \in Notes : /\ e.op = "delete" => e.case # oplog[i].case
                                /\ b = Note(i)
            \/ e.op = "note" /\ b = [case |-> e.case, number |-> Cardinality(Numbered("note")) + 1]
      <4>1. \A i : i = Place /\ e.op = "note" =>
                     Note(i)' = [case |-> e.case, number |-> Cardinality(Numbered("note")) + 1]
        BY <1>1, RowStep DEF Place
      <4> QED BY <4>1, <1>4, NotesStep
    <3>2. \A i : Note(i).case = oplog[i].case
      BY DEF Note
    <3> QED BY <1>0, <3>1, <3>2 DEF NotesAfter
  <2> QED BY <2>1
<1>7. \A m, n \in case_notes' : m.number = n.number => m = n
  <2>1. \A n \in case_notes : n.number \in Nat /\ n.number <= Cardinality(Numbered("note"))
    <3>1. SUFFICES ASSUME NEW i \in Notes
                   PROVE  Note(i).number \in Nat /\ Note(i).number <= Cardinality(Numbered("note"))
      BY <1>0
    <3>2. {j \in Numbered("note") : j <= i} \in SUBSET Numbered("note")
      OBVIOUS
    <3> QED BY <3>2, NewCaseType, FS_Subset, FS_CardinalityType DEF Note
  <2>2. Cardinality(Numbered("note")) \in Nat
    BY NewCaseType
  <2> QED BY <1>0, <2>1, <2>2 DEF NotesAfter
<1> QED BY <1>5, <1>6, <1>7 DEF RowsRight, Adds, Notes, Kept

-----------------------------------------------------------------------------
\* The parts of TagsRight by name.
Untags(a) == {i \in Numbered("untag") : oplog[i].artifact = a}
\* When the tag of an artifact in a case was last removed, the tags since, what the
\* table has of it, and what it should have: the first source since.
Gone(c, a) == Latest(Deletions(c) \union Untags(a))
TagPlaces(c, a) == {i \in Of("tag", c) : i > Gone(c, a) /\ oplog[i].artifact = a}
SourcesOf(c, a) == {t.source : t \in {u \in case_tags : u.case = c /\ u.artifact = a}}
FirstSource(c, a) == IF TagPlaces(c, a) = {} THEN {} ELSE {oplog[Min(TagPlaces(c, a))].source}
TagRight(c, a) == SourcesOf(c, a) = FirstSource(c, a)

\* TagsRight, case by case and artifact by artifact.
LEMMA TagsRightIs == TagsRight <=> \A c \in DOMAIN objects : \A a \in Artifacts : TagRight(c, a)
BY DEF TagsRight, TagRight, SourcesOf, FirstSource, TagPlaces, Gone, Untags

\* The first of places of the log is one of them.
LEMMA FirstPlace ==
  ASSUME NEW n \in Nat, NEW P \in SUBSET (1..n), P # {}
  PROVE  Min(P) \in P /\ (\A p \in P : Min(P) <= p) /\ Min(P \union {n + 1}) = Min(P)
<1>0. \A p \in P : p \in 1..n
  OBVIOUS
<1>1. P \in SUBSET Nat
  BY <1>0
<1>2. \E x \in P : \A y \in P : x <= y
  BY <1>1, LeastNatural
<1>3. Min(P) \in P /\ \A p \in P : Min(P) <= p
  BY <1>2 DEF Min
<1>6. Min(P) \in 1..n
  BY <1>0, <1>3
<1>4. \A q \in P \union {n + 1} : Min(P) <= q
  BY <1>0, <1>3, <1>6
<1>5. /\ Min(P \union {n + 1}) \in P \union {n + 1}
      /\ \A q \in P \union {n + 1} : Min(P \union {n + 1}) <= q
  BY <1>3, <1>4 DEF Min
<1>7. Min(P \union {n + 1}) # n + 1
  BY <1>3, <1>5, <1>6
<1>8. Min(P \union {n + 1}) \in P
  BY <1>5, <1>7
<1>9. Min(P \union {n + 1}) \in 1..n /\ Min(P \union {n + 1}) <= Min(P) /\ Min(P) <= Min(P \union {n + 1})
  BY <1>0, <1>3, <1>5, <1>8
<1> QED BY <1>3, <1>6, <1>9

\* Which operations remove a tag and which set one.
Removes(e, c, a) == (e.op = "delete" /\ e.case = c) \/ (e.op = "untag" /\ e.artifact = a)
Tags(e, c, a) == e.op = "tag" /\ e.case = c /\ e.artifact = a

\* The place from which the tags of an artifact in a case count.
LEMMA GoneStep ==
  ASSUME oplog \in Seq(Operation), NEW e \in Operation, Did(e), NEW c, NEW a
  PROVE  /\ Gone(c, a) \in 0..Len(oplog)
         /\ Gone(c, a)' = IF Removes(e, c, a) THEN Place ELSE Gone(c, a)
<1> DEFINE D == Deletions(c) \union Untags(a)
<1>1. Len(oplog) \in Nat
  BY LogStep
<1>2. Deletions(c) \in SUBSET (1..Len(oplog)) /\ Untags(a) \in SUBSET (1..Len(oplog))
  BY OfStep, DeletionsOf, NewCaseType DEF Untags
<1>3. Untags(a)' = IF e.op = "untag" /\ e.artifact = a THEN Untags(a) \union {Place} ELSE Untags(a)
  <2>1. ASSUME NEW i
        PROVE  i \in Untags(a)' <=> i \in Untags(a) \/ (i = Place /\ e.op = "untag" /\ e.artifact = a)
    <3>1. i \in Untags(a)' <=> i \in Numbered("untag")' /\ oplog'[i].artifact = a
      BY DEF Untags
    <3>2. i \in Numbered("untag") => i \in DOMAIN oplog /\ i # Place
      BY LogStep DEF Numbered, Place
    <3> QED BY <3>1, <3>2, LogStep DEF Untags
  <2> QED BY <2>1
<1>4. Deletions(c)' = IF e.op = "delete" /\ e.case = c THEN Deletions(c) \union {Place} ELSE Deletions(c)
  BY OfStep, DeletionsOf
<1>5. D \in SUBSET (1..Len(oplog))
  BY <1>2
<1>6. Latest(D) \in 0..Len(oplog) /\ Latest(D \union {Place}) = Place
  BY <1>1, <1>5, LatestRight, LatestNew DEF Place
<1>7. Deletions(c)' \union Untags(a)' = IF Removes(e, c, a) THEN D \union {Place} ELSE D
  BY <1>3, <1>4 DEF Removes
<1> QED BY <1>6, <1>7 DEF Gone

\* The source that counts: of the first tag since then.
LEMMA FirstSourceStep ==
  ASSUME oplog \in Seq(Operation), NEW e \in Operation, Did(e), NEW c, NEW a
  PROVE  FirstSource(c, a)' =
            IF Removes(e, c, a) THEN {}
            ELSE IF Tags(e, c, a) /\ FirstSource(c, a) = {} THEN {e.source}
            ELSE FirstSource(c, a)
<1> DEFINE P == TagPlaces(c, a)
<1>1. Len(oplog) \in Nat /\ DOMAIN oplog = 1..Len(oplog) /\ oplog'[Place] = e
  BY LogStep
<1>2. P \in SUBSET (1..Len(oplog)) /\ Of("tag", c) \in SUBSET (1..Len(oplog))
  BY OfStep DEF TagPlaces
<1>3. Gone(c, a) \in 0..Len(oplog) /\ Gone(c, a)' = IF Removes(e, c, a) THEN Place ELSE Gone(c, a)
  BY GoneStep
<1>4. P' = IF Removes(e, c, a) THEN {} ELSE IF Tags(e, c, a) THEN P \union {Place} ELSE P
  <2>1. ASSUME NEW i
        PROVE  i \in P' <=> ~Removes(e, c, a) /\ (i \in P \/ (i = Place /\ Tags(e, c, a)))
    <3>1. i \in P' <=> i \in Of("tag", c)' /\ i > Gone(c, a)' /\ oplog'[i].artifact = a
      BY DEF TagPlaces
    <3>2. i \in Of("tag", c)' <=> i \in Of("tag", c) \/ (i = Place /\ e.op = "tag" /\ e.case = c)
      BY OfStep
    <3>3. i \in Of("tag", c) => i \in 1..Len(oplog) /\ oplog'[i] = oplog[i] /\ i # Place
      BY <1>1, <1>2, LogStep DEF Place
    <3>4. CASE i \in Of("tag", c)
      BY <1>1, <1>3, <3>1, <3>2, <3>3, <3>4 DEF TagPlaces, Place
    <3>5. CASE i \notin Of("tag", c)
      BY <1>1, <1>3, <3>1, <3>2, <3>5 DEF TagPlaces, Place, Tags
    <3> QED BY <3>4, <3>5
  <2> QED BY <2>1
<1>5. FirstSource(c, a)' = IF P' = {} THEN {} ELSE {oplog'[Min(P')].source}
  BY DEF FirstSource
<1>6. FirstSource(c, a) = IF P = {} THEN {} ELSE {oplog[Min(P)].source}
  BY DEF FirstSource
<1>7. Min({Place}) = Place
  BY <1>1 DEF Min, Place
<1>8. P # {} => Min(P) \in 1..Len(oplog) /\ Min(P \union {Place}) = Min(P)
  BY <1>1, <1>2, FirstPlace DEF Place
<1>9. P # {} => oplog'[Min(P)] = oplog[Min(P)]
  BY <1>1, <1>8, LogStep
<1>10. P = {} => P \union {Place} = {Place}
  OBVIOUS
<1> QED BY <1>1, <1>4, <1>5, <1>6, <1>7, <1>8, <1>9, <1>10

\* The source of a tag after an operation.
SourcesAfter(e, c, a) ==
  IF Removes(e, c, a) THEN {}
  ELSE IF Tags(e, c, a) /\ SourcesOf(c, a) = {} THEN {e.source}
  ELSE SourcesOf(c, a)

\* What each operation does to the tags of every case, in terms of their sources.
LEMMA TagsStep ==
  ASSUME CasesInv, NEW e \in Operation, Did(e), DOMAIN objects' = DOMAIN objects,
         \A c \in DOMAIN objects : \A a \in Artifacts : SourcesOf(c, a)' = SourcesAfter(e, c, a)
  PROVE  TagsRight'
<1>1. ASSUME NEW c \in DOMAIN objects, NEW a \in Artifacts
      PROVE  SourcesOf(c, a)' = FirstSource(c, a)'
  <2>1. SourcesOf(c, a) = FirstSource(c, a)
    BY TagsRightIs DEF CasesInv, CasesRight, TagRight
  <2> QED BY <2>1, FirstSourceStep DEF CasesInv, SourcesAfter
<1>2. TagsRight' <=> \A c \in DOMAIN objects' : \A a \in Artifacts : SourcesOf(c, a)' = FirstSource(c, a)'
  BY DEF TagsRight, SourcesOf, FirstSource, TagPlaces, Gone, Untags
<1> QED BY <1>1, <1>2

\* The table of the tags after an operation.
TagsAfter(e) ==
  IF e.op = "delete" THEN {t \in case_tags : t.case # e.case}
  ELSE IF e.op = "untag" THEN {t \in case_tags : t.artifact # e.artifact}
  ELSE IF e.op = "tag" /\ ~\E t \in case_tags : t.case = e.case /\ t.artifact = e.artifact
  THEN case_tags \union {[artifact |-> e.artifact, case |-> e.case, source |-> e.source]}
  ELSE case_tags

\* The sources in the table, after the operation.
LEMMA SourcesStep ==
  ASSUME NEW e \in Operation, case_tags' = TagsAfter(e), NEW c, NEW a
  PROVE  SourcesOf(c, a)' = SourcesAfter(e, c, a)
<1>1. SourcesOf(c, a)' = {t.source : t \in {u \in TagsAfter(e) : u.case = c /\ u.artifact = a}}
  BY DEF SourcesOf
<1>2. CASE e.op = "delete"
  BY <1>1, <1>2 DEF TagsAfter, SourcesAfter, Removes, Tags, SourcesOf
<1>3. CASE e.op = "untag"
  BY <1>1, <1>3 DEF TagsAfter, SourcesAfter, Removes, Tags, SourcesOf
<1>4. CASE e.op = "tag"
  <2> DEFINE new == [artifact |-> e.artifact, case |-> e.case, source |-> e.source]
             Here(T) == {u \in T : u.case = c /\ u.artifact = a}
  <2>1. SourcesOf(c, a)' = {t.source : t \in Here(TagsAfter(e))}
    BY <1>1
  <2>2. Here(case_tags) = {} <=> SourcesOf(c, a) = {}
    BY DEF SourcesOf
  <2>3. CASE Tags(e, c, a) /\ Here(case_tags) = {}
    <3>1. TagsAfter(e) = case_tags \union {new}
      BY <1>4, <2>3 DEF TagsAfter, Tags
    <3>2. Here(TagsAfter(e)) = {new}
      BY <2>3, <3>1 DEF Tags
    <3>3. new.source = e.source
      OBVIOUS
    <3>4. ~Removes(e, c, a)
      BY <1>4 DEF Removes
    <3> HIDE DEF new, Here
    <3>5. SourcesOf(c, a)' = {new.source}
      BY <2>1, <3>2
    <3> QED BY <2>2, <2>3, <3>3, <3>4, <3>5 DEF SourcesAfter
  <2>4. CASE ~(Tags(e, c, a) /\ Here(case_tags) = {})
    <3>1. Here(TagsAfter(e)) = Here(case_tags)
      BY <1>4, <2>4 DEF TagsAfter, Tags
    <3>2. SourcesOf(c, a)' = SourcesOf(c, a)
      BY <2>1, <3>1 DEF SourcesOf
    <3> QED BY <1>4, <2>2, <2>4, <3>2 DEF SourcesAfter, Removes
  <2> QED BY <2>3, <2>4
<1>5. CASE e.op \notin {"delete", "untag", "tag"}
  BY <1>1, <1>5 DEF TagsAfter, SourcesAfter, Removes, Tags, SourcesOf
<1> QED BY <1>2, <1>3, <1>4, <1>5

\* An operation on a case that was created keeps the invariant if it does to the
\* rows and the tags what it says.
LEMMA OperationStep ==
  ASSUME CasesInv, NEW e \in Operation, Did(e), e.op # "create", e.case \in DOMAIN objects,
         e.op = "remove" => e.id \in Numbered("add"),
         objects' = objects, DOMAIN case_metadata' \subseteq DOMAIN case_metadata, StatusRight',
         case_items' = ItemsAfter(e), case_notes' = NotesAfter(e), case_tags' = TagsAfter(e)
  PROVE  CasesInv'
<1> USE DEF CasesInv
<1>1. CasesRight'
  BY RowsStep, TagsStep, SourcesStep DEF CasesRight
<1>2. NewCase' = NewCase
  BY CountStep DEF NewCase
<1>3. CasesTypeOK'
  BY <1>2 DEF CasesTypeOK, ItemsAfter, TagsAfter
<1>4. \A i \in DOMAIN oplog' : oplog'[i].case \in DOMAIN objects'
  BY LogStep DEF Place
<1>5. \A j \in Numbered("remove")' : oplog'[j].id \in Numbered("add")'
  <2>1. \A j \in Numbered("remove") : j \in DOMAIN oplog /\ oplog'[j] = oplog[j]
    BY LogStep DEF Numbered
  <2> QED BY <2>1, LogStep
<1> QED BY <1>1, <1>3, <1>4, <1>5, LogStep

\* create_case keeps the invariant.
LEMMA CreateInv == CasesInv /\ CreateCase => CasesInv'
<1> SUFFICES ASSUME CasesInv, CreateCase PROVE CasesInv'
  OBVIOUS
<1> USE DEF CasesInv
<1>0. PICK e \in Operation : e = [op |-> "create", case |-> NewCase] /\ Did(e)
  BY NewCaseType DEF CreateCase, Operation
<1>1. StatusRight' /\ DOMAIN objects' = DOMAIN objects \union {NewCase}
  BY CreateStep
<1>2. UNCHANGED <<case_items, case_tags, case_notes>>
  BY DEF CreateCase
<1>3. RowsRight'
  BY <1>0, <1>2, RowsStep DEF ItemsAfter, NotesAfter
<1>4. TagsRight'
  <2>1. ASSUME NEW c \in DOMAIN objects', NEW a \in Artifacts
        PROVE  SourcesOf(c, a)' = FirstSource(c, a)'
    <3>1. SourcesOf(c, a)' = SourcesOf(c, a)
      BY <1>2 DEF SourcesOf
    <3>2. FirstSource(c, a)' = FirstSource(c, a)
      BY <1>0, FirstSourceStep DEF Removes, Tags
    <3>3. CASE c \in DOMAIN objects
      BY <3>1, <3>2, <3>3, TagsRightIs DEF CasesRight, TagRight
    <3>4. CASE c = NewCase
      <4>1. TagPlaces(c, a) = {}
        BY <3>4, FirstOfCase DEF TagPlaces
      <4>2. c \notin DOMAIN objects
        BY <3>4, NewCaseType DEF CasesTypeOK
      <4>3. SourcesOf(c, a) = {}
        BY <4>2 DEF SourcesOf, CasesTypeOK
      <4> QED BY <3>1, <3>2, <4>1, <4>3 DEF FirstSource
    <3> QED BY <1>1, <3>3, <3>4
  <2> QED BY <2>1 DEF TagsRight, SourcesOf, FirstSource, TagPlaces, Gone, Untags
<1>5. NewCase' = NewCase + 1 /\ NewCase \in Nat \ {0}
  BY <1>0, CountStep, NewCaseType DEF NewCase
<1>6. CasesTypeOK'
  <2>1. DOMAIN objects' = 1..(NewCase' - 1)
    BY <1>1, <1>5 DEF CasesTypeOK
  <2>2. DOMAIN case_metadata' \subseteq DOMAIN objects'
    BY <1>1 DEF CreateCase, Placed, CasesTypeOK
  <2> QED BY <1>1, <1>2, <2>1, <2>2 DEF CasesTypeOK
<1>7. \A i \in DOMAIN oplog' : oplog'[i].case \in DOMAIN objects'
  BY <1>0, <1>1, LogStep DEF Place
<1>8. \A j \in Numbered("remove")' : oplog'[j].id \in Numbered("add")'
  <2>1. \A j \in Numbered("remove") : j \in DOMAIN oplog /\ oplog'[j] = oplog[j]
    BY <1>0, LogStep DEF Numbered
  <2> QED BY <1>0, <2>1, LogStep
<1> QED BY <1>0, <1>1, <1>3, <1>4, <1>6, <1>7, <1>8, LogStep DEF CasesRight

\* So does what reads only.
LEMMA ReadStep ==
  ASSUME CasesInv, DOMAIN objects' = DOMAIN objects,
         UNCHANGED <<oplog, case_metadata, case_items, case_tags, case_notes>>
  PROVE  CasesInv'
<1> USE DEF CasesInv
<1>1. \A op : Numbered(op)' = Numbered(op)
  BY DEF Numbered
<1>2. NewCase' = NewCase
  BY DEF NewCase, Numbered
<1>3. \A c : Deletions(c)' = Deletions(c)
  BY DEF Deletions, Numbered
<1>4. StatusRight'
  <2>1. \A op, c : Of(op, c)' = Of(op, c)
    BY DEF Of, Numbered
  <2> QED BY <1>3, <2>1 DEF CasesRight, StatusRight
<1>5. RowsRight'
  <2>1. \A i : Item(i)' = Item(i) /\ Note(i)' = Note(i) /\ Stays(i)' = Stays(i)
    BY DEF Item, Note, Stays, Deletions, Numbered
  <2> QED BY <1>1, <2>1 DEF CasesRight, RowsRight
<1>6. TagsRight'
  <2>1. \A c, a : FirstSource(c, a)' = FirstSource(c, a) /\ SourcesOf(c, a)' = SourcesOf(c, a)
    BY DEF FirstSource, SourcesOf, TagPlaces, Gone, Untags, Deletions, Of, Numbered
  <2>2. TagsRight' <=> \A c \in DOMAIN objects' : \A a \in Artifacts : SourcesOf(c, a)' = FirstSource(c, a)'
    BY DEF TagsRight, SourcesOf, FirstSource, TagPlaces, Gone, Untags
  <2> QED BY <2>1, <2>2, TagsRightIs DEF CasesRight, TagRight
<1> QED BY <1>1, <1>2, <1>4, <1>5, <1>6 DEF CasesRight, CasesTypeOK

\* Every operation keeps the invariant.
LEMMA CasesNextInv == CasesInv /\ [CasesNext]_caseVars => CasesInv'
<1> SUFFICES ASSUME CasesInv, [CasesNext]_caseVars PROVE CasesInv'
  OBVIOUS
<1>1. CASE CreateCase
  BY <1>1, CreateInv
<1>2. ASSUME NEW c \in DOMAIN objects, GetCase(c) PROVE CasesInv'
  <2>1. DOMAIN objects' = DOMAIN objects /\ UNCHANGED <<oplog, case_metadata, case_items, case_tags, case_notes>>
    BY <1>2 DEF GetCase, Placed
  <2> QED BY <2>1, ReadStep
<1>3. ASSUME NEW c \in DOMAIN objects PROVE c \in Nat
  BY <1>3, NewCaseType DEF CasesInv, CasesTypeOK
<1>4. ASSUME NEW c \in DOMAIN objects, CloseCase(c) \/ ReopenCase(c) PROVE CasesInv'
  <2>1. PICK op \in {"close", "reopen"} :
            SetStatus(c, op, IF op = "close" THEN "closed" ELSE "open")
    BY <1>4 DEF CloseCase, ReopenCase
  <2>2. PICK e \in Operation : e = [op |-> op, case |-> c]
    BY <1>3 DEF Operation
  <2>3. StatusRight'
    BY <2>1, <2>2, StatusStep DEF SetStatus
  <2> QED BY <2>1, <2>2, <2>3, OperationStep DEF SetStatus, ItemsAfter, NotesAfter, TagsAfter
<1>5. ASSUME NEW c \in DOMAIN objects, DeleteCase(c) PROVE CasesInv'
  <2>1. PICK e \in Operation : e = [op |-> "delete", case |-> c]
    BY <1>3 DEF Operation
  <2>2. StatusRight'
    BY <1>5, <2>1, StatusStep DEF DeleteCase
  <2> QED BY <1>5, <2>1, <2>2, OperationStep DEF DeleteCase, ItemsAfter, NotesAfter, TagsAfter
<1>6. ASSUME NEW c \in DOMAIN objects, AddNote(c) PROVE CasesInv'
  <2>1. PICK e \in Operation : e = [op |-> "note", case |-> c]
    BY <1>3 DEF Operation
  <2>2. StatusRight'
    BY <1>6, <2>1, StatusKept DEF AddNote
  <2> QED BY <1>6, <2>1, <2>2, OperationStep DEF AddNote, ItemsAfter, NotesAfter, TagsAfter
<1>7. ASSUME NEW c \in DOMAIN objects, NEW kind \in {"bookmark", "query"}, AddItem(c, kind) PROVE CasesInv'
  <2>1. PICK e \in Operation : e = [op |-> "add", case |-> c, kind |-> kind]
    BY <1>3 DEF Operation
  <2>2. StatusRight'
    BY <1>7, <2>1, StatusKept DEF AddItem
  <2> QED BY <1>7, <2>1, <2>2, OperationStep DEF AddItem, ItemsAfter, NotesAfter, TagsAfter, Place
<1>8. ASSUME NEW c \in DOMAIN objects, NEW b \in case_items, RemoveItem(c, b) PROVE CasesInv'
  <2>1. b.id \in Numbered("add") /\ b.id \in Nat
    <3>1. PICK i \in Numbered("add") : b = Item(i)
      BY DEF CasesInv, CasesRight, RowsRight
    <3> QED BY <3>1, NewCaseType DEF Item, CasesInv
  <2>2. PICK e \in Operation : e = [op |-> "remove", case |-> c, id |-> b.id]
    BY <1>3, <2>1 DEF Operation
  <2>3. StatusRight'
    BY <1>8, <2>2, StatusKept DEF RemoveItem
  <2> QED BY <1>8, <2>1, <2>2, <2>3, OperationStep DEF RemoveItem, ItemsAfter, NotesAfter, TagsAfter
<1>9. ASSUME NEW c \in DOMAIN objects, NEW a \in Artifacts, RemoveTag(c, a) PROVE CasesInv'
  <2>1. PICK e \in Operation : e = [op |-> "untag", case |-> c, artifact |-> a]
    BY <1>3 DEF Operation
  <2>2. StatusRight'
    BY <1>9, <2>1, StatusKept DEF RemoveTag
  <2> QED BY <1>9, <2>1, <2>2, OperationStep DEF RemoveTag, ItemsAfter, NotesAfter, TagsAfter
<1>10. ASSUME NEW c \in DOMAIN objects, NEW a \in Artifacts, NEW s \in Sources, TagArtifact(c, a, s)
       PROVE  CasesInv'
  <2>1. PICK e \in Operation : e = [op |-> "tag", case |-> c, artifact |-> a, source |-> s]
    BY <1>3 DEF Operation
  <2>2. StatusRight'
    BY <1>10, <2>1, StatusKept DEF TagArtifact
  <2> QED BY <1>10, <2>1, <2>2, OperationStep DEF TagArtifact, ItemsAfter, NotesAfter, TagsAfter
<1>11. CASE UNCHANGED caseVars
  BY <1>11, ReadStep DEF caseVars
<1> QED BY <1>1, <1>2, <1>4, <1>5, <1>6, <1>7, <1>8, <1>9, <1>10, <1>11 DEF CasesNext

\* It holds of an empty database.
LEMMA CasesInitInv == CasesInit => CasesInv
<1> SUFFICES ASSUME CasesInit PROVE CasesInv
  OBVIOUS
<1>1. oplog = <<>> /\ oplog \in Seq(Operation) /\ DOMAIN oplog = {}
  BY DEF CasesInit
<1>2. \A op : Numbered(op) = {}
  BY <1>1 DEF Numbered
<1>3. NewCase = 1
  BY <1>2, FS_EmptySet DEF NewCase
<1>4. DOMAIN objects = {} /\ DOMAIN case_metadata = {} /\ case_items = {} /\ case_tags = {} /\ case_notes = {}
  BY DEF CasesInit, CasesEmpty
<1> QED BY <1>1, <1>2, <1>3, <1>4 DEF CasesInv, CasesTypeOK, CasesRight, StatusRight, RowsRight, TagsRight

\* The database holds what the operations on its cases left in it, whatever the
\* operations were.
THEOREM CasesDetermined == CasesSpec => []CasesRight
<1>1. CasesSpec => []CasesInv
  BY CasesInitInv, CasesNextInv, PTL DEF CasesSpec
<1> QED BY <1>1, PTL DEF CasesInv

-----------------------------------------------------------------------------
(* Recovered files and the hash database (Recovery).                           *)

\* The count of a digest, 0 if it is not there.
CountIn(h, d) == IF d \in DOMAIN h THEN h[d].count ELSE 0

\* A database: entries of a path and a count for some of the digests.
IsHashes(h) ==
  /\ DOMAIN h \subseteq Digests
  /\ \A d \in DOMAIN h : h[d] = [path |-> h[d].path, count |-> h[d].count] /\ h[d].count \in Nat

\* Where a scan is, and that its copy of the database is one.
ScanShape(s) ==
  /\ stage[s] \in {"waiting", "save", "add", "write", "done", "dead"}
  /\ at[s] \in 1..Len(world.finds[s]) + 1
  /\ stage[s] \in {"add", "write"} => at[s] <= Len(world.finds[s])
  /\ \A e \in DOMAIN counter[s] : counter[s][e] \in Nat
  /\ IsHashes(hashes[s])

\* What the steps of a scan need to know of the shape of the state.
RecoveryShape ==
  /\ world \in Worlds
  /\ DOMAIN stage = Scans /\ DOMAIN at = Scans /\ DOMAIN counter = Scans /\ DOMAIN hashes = Scans
  /\ added \in [Digests -> Nat]
  /\ hashdb.state \in {"absent", "torn", "whole"} /\ IsHashes(hashdb.hashes)
  /\ \A s \in Scans : ScanShape(s)

\* Entries that make up nothing: no digest is counted more often than it was added.
Covered(h, extra) == \A d \in Digests : CountIn(h, d) <= added[d] + (IF d \in extra THEN 1 ELSE 0)

\* What a scan that is writing has counted and not yet returned for.
BeingAdded(s) == IF stage[s] = "write" THEN {File(s).data} ELSE {}

\* No copy that may still be written counts what was not added, nor does the file.
RecoveryCovered ==
  /\ Covered(hashdb.hashes, {})
  /\ \A s \in Scans : Running(s) => Covered(hashes[s], BeingAdded(s))
  /\ ~world.overlap => \A s, t \in Scans : Running(s) /\ Running(t) => s = t

\* Exactly what was added, of scans that run one after the other.
Exact(h, extra) == \A d \in Digests : CountIn(h, d) = added[d] + (IF d \in extra THEN 1 ELSE 0)
\* Scans one after the other that are never cut off count every file once.
RecoveryExact ==
  ~world.overlap /\ ~world.faults =>
     /\ (\A s \in Scans : stage[s] # "write") => Exact(hashdb.hashes, {})
     /\ \A s \in Scans : Running(s) => Exact(hashes[s], BeingAdded(s))
     /\ \A s \in Scans : stage[s] = "write" => hashdb.state = "torn"

\* The paths of entries lead to files with their digests.
Leads(h) == \A d \in DOMAIN h : h[d].path \in DOMAIN saved /\ saved[h[d].path] = d

\* Files are saved under numbers that their scan has given.
RecoveryPaths ==
  (\A s, t \in Scans : world.dir[s] = world.dir[t] => s = t) =>
     /\ Leads(hashdb.hashes) /\ \A s \in Scans : Leads(hashes[s])
     /\ \A p \in DOMAIN saved : \E t \in Scans : \E e, n :
           p = <<world.dir[t], e, n>> /\ n \in Nat /\ n <= Get(counter[t], e)
     /\ \A s \in Scans : stage[s] = "add" =>
           /\ File(s).ext \in DOMAIN counter[s]
           /\ PathOf(s, counter[s][File(s).ext]) \in DOMAIN saved
           /\ saved[PathOf(s, counter[s][File(s).ext])] = File(s).data

\* The digest of the file that a scan deals with is one of the digests.
LEMMA DigestKnown ==
  ASSUME RecoveryShape, NEW s \in Scans, at[s] <= Len(world.finds[s])
  PROVE  File(s).data \in Digests
<1>1. at[s] \in DOMAIN world.finds[s]
  BY RecoveryAssumption DEF RecoveryShape, ScanShape, Scans
<1> QED BY <1>1 DEF Digests, File

\* BeingAdded one occurrence more.
LEMMA CountedRight ==
  ASSUME RecoveryShape, NEW s \in Scans, at[s] <= Len(world.finds[s])
  PROVE  /\ IsHashes(Counted(s))
         /\ \A d \in Digests : CountIn(Counted(s), d) =
               CountIn(hashes[s], d) + (IF d \in {File(s).data} THEN 1 ELSE 0)
         /\ \A d \in Digests : CountIn(hashes[s], d) \in Nat
         /\ DOMAIN Counted(s) = DOMAIN hashes[s] \union {File(s).data}
         /\ \A d \in DOMAIN hashes[s] : Counted(s)[d].path = hashes[s][d].path
         /\ File(s).data \notin DOMAIN hashes[s] =>
               Counted(s)[File(s).data].path = PathOf(s, counter[s][File(s).ext])
<1> DEFINE h == hashes[s]
           f == File(s).data
           g == Counted(s)
<1>1. f \in Digests /\ IsHashes(h)
  BY DigestKnown DEF RecoveryShape, ScanShape
<1>2. g = IF f \in DOMAIN h THEN [h EXCEPT ![f].count = @ + 1]
          ELSE Bind(h, f, [path |-> PathOf(s, counter[s][File(s).ext]), count |-> 1])
  BY DEF Counted
<1> HIDE DEF f, g, h
<1>3. CASE f \in DOMAIN h
  <2>1. DOMAIN g = DOMAIN h /\ \A d \in DOMAIN h : d # f => g[d] = h[d]
    BY <1>2, <1>3
  <2>2. g[f] = [path |-> h[f].path, count |-> h[f].count + 1]
    <3>1. g[f] = [h[f] EXCEPT !.count = h[f].count + 1]
      BY <1>2, <1>3
    <3>2. h[f] = [path |-> h[f].path, count |-> h[f].count]
      BY <1>1, <1>3 DEF IsHashes
    <3> QED BY <3>1, <3>2
  <2>3. g[f].path = h[f].path /\ g[f].count = h[f].count + 1 /\ h[f].count \in Nat
    BY <1>1, <1>3, <2>2 DEF IsHashes
  <2>4. IsHashes(g)
    BY <1>1, <2>1, <2>2, <2>3 DEF IsHashes
  <2>5. \A d \in Digests : CountIn(h, d) \in Nat /\ CountIn(g, d) = CountIn(h, d) + (IF d \in {f} THEN 1 ELSE 0)
    BY <1>1, <1>3, <2>1, <2>3 DEF IsHashes, CountIn
  <2> QED BY <1>3, <2>1, <2>3, <2>4, <2>5 DEF f, g, h
<1>4. CASE f \notin DOMAIN h
  <2> DEFINE e == [path |-> PathOf(s, counter[s][File(s).ext]), count |-> 1]
  <2>1. e.path = PathOf(s, counter[s][File(s).ext]) /\ e.count = 1 /\ e = [path |-> e.path, count |-> e.count]
    OBVIOUS
  <2>2. g = Bind(h, f, e)
    BY <1>2, <1>4
  <2> HIDE DEF e
  <2>3. DOMAIN g = DOMAIN h \union {f} /\ g[f] = e /\ \A d \in DOMAIN h : g[d] = h[d]
    BY <1>4, <2>2 DEF Bind
  <2>4. IsHashes(g)
    BY <1>1, <2>1, <2>3 DEF IsHashes
  <2>5. \A d \in Digests : CountIn(h, d) \in Nat /\ CountIn(g, d) = CountIn(h, d) + (IF d \in {f} THEN 1 ELSE 0)
    BY <1>1, <1>4, <2>1, <2>3 DEF IsHashes, CountIn
  <2> QED BY <1>4, <2>1, <2>3, <2>4, <2>5 DEF f, g, h
<1> QED BY <1>3, <1>4
\* The shape is that of the initial state, and every step keeps it.
LEMMA ShapeInit == RecoveryInit => RecoveryShape
<1> SUFFICES ASSUME RecoveryInit PROVE RecoveryShape
  OBVIOUS
<1>1. /\ world \in Worlds /\ stage = [s \in Scans |-> "waiting"] /\ at = [s \in Scans |-> 1]
      /\ counter = [s \in Scans |-> NoHashes] /\ hashes = [s \in Scans |-> NoHashes]
      /\ hashdb = Missing /\ added = [d \in Digests |-> 0]
  BY DEF RecoveryInit
<1>2. DOMAIN NoHashes = {}
  BY DEF NoHashes
<1>3. IsHashes(NoHashes)
  BY <1>2 DEF IsHashes
<1>4. hashdb.state = "absent" /\ hashdb.hashes = NoHashes
  BY <1>1 DEF Missing
<1>5. ASSUME NEW s \in Scans PROVE ScanShape(s)
  <2>1. Len(world.finds[s]) \in Nat
    BY <1>1, RecoveryAssumption DEF Scans
  <2> QED BY <1>1, <1>2, <1>3, <2>1 DEF ScanShape
<1> QED BY <1>1, <1>3, <1>4, <1>5 DEF RecoveryShape

\* Every step keeps the shape of the scans and of the database.
LEMMA ShapeNext == RecoveryShape /\ [RecoveryNext]_recoveryVars => RecoveryShape'
<1> SUFFICES ASSUME RecoveryShape, [RecoveryNext]_recoveryVars PROVE RecoveryShape'
  OBVIOUS
<1>0. world' = world => Scans' = Scans /\ Digests' = Digests /\ \A h : IsHashes(h)' <=> IsHashes(h)
  BY DEF Scans, Digests, IsHashes
<1>1. /\ world \in Worlds
      /\ DOMAIN stage = Scans /\ DOMAIN at = Scans /\ DOMAIN counter = Scans /\ DOMAIN hashes = Scans
      /\ added \in [Digests -> Nat]
      /\ hashdb.state \in {"absent", "torn", "whole"} /\ IsHashes(hashdb.hashes)
      /\ \A s \in Scans : ScanShape(s)
  BY DEF RecoveryShape
<1>2. \A s \in Scans : Len(world.finds[s]) \in Nat
  BY <1>1, RecoveryAssumption DEF Scans
<1>3. IsHashes(NoHashes) /\ DOMAIN NoHashes = {}
  BY DEF IsHashes, NoHashes
<1>4. /\ Torn.state = "torn" /\ Torn.hashes = NoHashes /\ Missing.state = "absent" /\ Missing.hashes = NoHashes
      /\ \A h : Whole(h).state = "whole" /\ Whole(h).hashes = h
  BY DEF Torn, Missing, Whole
<1>5. ASSUME UNCHANGED recoveryVars PROVE RecoveryShape'
  BY <1>0, <1>1, <1>5 DEF recoveryVars, RecoveryShape, ScanShape
<1>6. ASSUME NEW s \in Scans, Start(s) PROVE RecoveryShape'
  BY <1>0, <1>1, <1>6 DEF Start, RecoveryShape, ScanShape
<1>7. ASSUME NEW s \in Scans, SaveFile(s) PROVE RecoveryShape'
  <2> DEFINE n == Get(counter[s], File(s).ext) + 1
             table == Bind(counter[s], File(s).ext, n)
  <2>1. /\ stage[s] = "save" /\ at[s] <= Len(world.finds[s])
        /\ counter' = [counter EXCEPT ![s] = table] /\ stage' = [stage EXCEPT ![s] = "add"]
        /\ world' = world /\ at' = at /\ hashes' = hashes /\ hashdb' = hashdb /\ added' = added
    BY <1>7 DEF SaveFile, More
  <2>2. \A e \in DOMAIN table : table[e] \in Nat
    BY <1>1 DEF Bind, Get, ScanShape
  <2> HIDE DEF table
  <2> QED BY <1>0, <1>1, <2>1, <2>2 DEF RecoveryShape, ScanShape
<1>8. ASSUME NEW s \in Scans, AddHash(s) PROVE RecoveryShape'
  <2>1. at[s] <= Len(world.finds[s])
    BY <1>1, <1>8 DEF AddHash, ScanShape
  <2>2. IsHashes(Counted(s))
    BY <2>1, CountedRight
  <2> QED BY <1>0, <1>1, <1>3, <1>4, <1>8, <2>1, <2>2 DEF AddHash, RecoveryShape, ScanShape
<1>9. ASSUME NEW s \in Scans, at[s] <= Len(world.finds[s]), Returned(s) PROVE
        /\ DOMAIN at' = Scans /\ DOMAIN stage' = Scans /\ added' \in [Digests -> Nat]
        /\ \A t \in Scans : /\ stage'[t] \in {"waiting", "save", "add", "write", "done", "dead"}
                            /\ at'[t] \in 1..Len(world.finds[t]) + 1
                            /\ stage'[t] \in {"add", "write"} => at'[t] <= Len(world.finds[t])
  <2>1. at' = [at EXCEPT ![s] = at[s] + 1] /\ stage' = [stage EXCEPT ![s] = "save"]
        /\ added' = [added EXCEPT ![File(s).data] = added[File(s).data] + 1]
    BY <1>9 DEF Returned
  <2>2. added' \in [Digests -> Nat]
    BY <1>1, <1>9, <2>1, DigestKnown
  <2>3. at[s] + 1 \in 1..Len(world.finds[s]) + 1
    BY <1>1, <1>2, <1>9 DEF ScanShape
  <2> QED BY <1>1, <2>1, <2>2, <2>3 DEF ScanShape
<1>10. ASSUME NEW s \in Scans, AddUnsaved(s) PROVE RecoveryShape'
  <2>1. at[s] <= Len(world.finds[s])
    BY <1>1, <1>10 DEF AddUnsaved, ScanShape
  <2>2. IsHashes(Counted(s))
    BY <2>1, CountedRight
  <2> QED BY <1>0, <1>1, <1>9, <1>10, <2>1, <2>2 DEF AddUnsaved, RecoveryShape, ScanShape
<1>11. ASSUME NEW s \in Scans, stage[s] = "write", hashdb' = Whole(hashes[s]) \/ hashdb' = Torn, Returned(s),
              UNCHANGED <<world, counter, hashes, saved>>
       PROVE  RecoveryShape'
  <2>1. at[s] <= Len(world.finds[s])
    BY <1>1, <1>11 DEF ScanShape
  <2>2. IsHashes(hashdb'.hashes) /\ hashdb'.state \in {"absent", "torn", "whole"}
    BY <1>1, <1>3, <1>4, <1>11 DEF ScanShape
  <2> QED BY <1>0, <1>1, <1>9, <1>11, <2>1, <2>2 DEF RecoveryShape, ScanShape
<1>12. ASSUME NEW s \in Scans, Finish(s) \/ Crash(s) PROVE RecoveryShape'
  BY <1>0, <1>1, <1>12 DEF Finish, Crash, RecoveryShape, ScanShape
<1>13. ASSUME NEW s \in Scans, ClearHashes(s) PROVE RecoveryShape'
  BY <1>0, <1>1, <1>3, <1>4, <1>13 DEF ClearHashes, RecoveryShape, ScanShape
<1> QED BY <1>5, <1>6, <1>7, <1>8, <1>10, <1>11, <1>12, <1>13 DEF RecoveryNext, WriteBack, WriteFails
\* The counts of a state in numbers.
LEMMA CountsAreNat ==
  ASSUME RecoveryShape
  PROVE  /\ \A h : IsHashes(h) => \A d \in Digests : CountIn(h, d) \in Nat
         /\ \A d \in Digests : added[d] \in Nat
         /\ \A d : CountIn(NoHashes, d) = 0
BY DEF RecoveryShape, IsHashes, CountIn, NoHashes

\* Nothing is made up by any step.
LEMMA CoveredNext ==
  RecoveryShape /\ RecoveryCovered /\ [RecoveryNext]_recoveryVars => RecoveryCovered'
<1> SUFFICES ASSUME RecoveryShape, RecoveryCovered, [RecoveryNext]_recoveryVars PROVE RecoveryCovered'
  OBVIOUS
<1>1. /\ DOMAIN stage = Scans /\ DOMAIN at = Scans /\ DOMAIN hashes = Scans /\ added \in [Digests -> Nat]
      /\ IsHashes(hashdb.hashes) /\ \A s \in Scans : ScanShape(s)
  BY DEF RecoveryShape
<1>2. /\ \A d \in Digests : CountIn(hashdb.hashes, d) <= added[d] /\ CountIn(hashdb.hashes, d) \in Nat
      /\ \A s \in Scans : Running(s) => Covered(hashes[s], BeingAdded(s))
      /\ ~world.overlap => \A s, t \in Scans : Running(s) /\ Running(t) => s = t
      /\ \A d \in Digests : added[d] \in Nat
  BY <1>1, CountsAreNat DEF RecoveryCovered, Covered
<1>3. \A d \in Digests : CountIn(NoHashes, d) = 0
  BY CountsAreNat
<1>4. Torn.hashes = NoHashes /\ Missing.hashes = NoHashes /\ \A h : Whole(h).hashes = h
  BY DEF Torn, Missing, Whole
<1>5. world' = world => Scans' = Scans /\ Digests' = Digests
  BY DEF Scans, Digests
<1>6. ASSUME UNCHANGED recoveryVars PROVE RecoveryCovered'
  BY <1>6 DEF RecoveryCovered, Covered, BeingAdded, Running, File, Scans, Digests, recoveryVars, CountIn
<1> DEFINE Fits(s) == \A d \in Digests : CountIn(hashes'[s], d) <= added'[d] + (IF stage'[s] = "write" /\ d = world.finds[s][at'[s]].data THEN 1 ELSE 0)
<1>7. ASSUME world' = world,
             \A d \in Digests : CountIn(hashdb'.hashes, d) <= added'[d],
             \A d \in Digests : added'[d] \in Nat,
             \A s \in Scans : stage'[s] \in {"save", "add", "write"} => Fits(s),
             ~world.overlap => \A s, t \in Scans : stage'[s] \in {"save", "add", "write"} /\ stage'[t] \in {"save", "add", "write"} => s = t
      PROVE  RecoveryCovered'
  <2>1. \A s \in Scans : BeingAdded(s)' = IF stage'[s] = "write" THEN {world.finds[s][at'[s]].data} ELSE {}
    BY <1>7 DEF BeingAdded, File
  <2>2. ASSUME NEW s \in Scans, Fits(s) PROVE Covered(hashes[s], BeingAdded(s))'
    BY <1>5, <1>7, <2>1, <2>2 DEF Covered, CountIn
  <2>3. Covered(hashdb.hashes, {})'
    BY <1>5, <1>7 DEF Covered, CountIn
  <2> QED BY <1>5, <1>7, <2>2, <2>3 DEF RecoveryCovered, Running
<1>8. ASSUME NEW s \in Scans, Running(s)
      PROVE  \A d \in Digests : CountIn(hashes[s], d) <= added[d] + (IF stage[s] = "write" /\ d = world.finds[s][at[s]].data THEN 1 ELSE 0)
  BY <1>2, <1>8 DEF Covered, BeingAdded, File
<1>9. ASSUME NEW s \in Scans, Start(s) PROVE RecoveryCovered'
  <2>1. /\ world' = world /\ hashdb' = hashdb /\ added' = added /\ at' = at
        /\ stage' = [stage EXCEPT ![s] = "save"] /\ hashes' = [hashes EXCEPT ![s] = hashdb.hashes]
        /\ stage[s] = "waiting" /\ (world.overlap \/ \A t \in Scans : ~Running(t))
    BY <1>9 DEF Start
  <2>2. ASSUME NEW t \in Scans, stage'[t] \in {"save", "add", "write"} PROVE Fits(t)
    <3>1. CASE t = s
      BY <1>1, <1>2, <2>1, <3>1
    <3>2. CASE t # s
      BY <1>1, <1>8, <2>1, <2>2, <3>2 DEF Running
    <3> QED BY <3>1, <3>2
  <2> HIDE DEF Fits
  <2>3. ASSUME ~world.overlap, NEW t \in Scans, NEW u \in Scans,
               stage'[t] \in {"save", "add", "write"}, stage'[u] \in {"save", "add", "write"}
        PROVE  t = u
    BY <1>1, <2>1, <2>3 DEF Running
  <2> QED BY <1>2, <1>7, <2>1, <2>2, <2>3
<1>10. ASSUME NEW s \in Scans, UNCHANGED <<world, at, added>>, stage[s] \in {"save", "add"},
              \A t \in Scans : stage'[t] = IF t = s THEN stage'[s] ELSE stage[t],
              \A t \in Scans : t # s => hashes'[t] = hashes[t],
              \A d \in Digests : CountIn(hashdb'.hashes, d) <= added[d],
              stage'[s] \in {"save", "add", "write"} => Fits(s)
       PROVE  RecoveryCovered'
  <2>1. Running(s)
    BY <1>10 DEF Running
  <2>2. ASSUME NEW t \in Scans, stage'[t] \in {"save", "add", "write"} PROVE Fits(t)
    <3>1. CASE t = s
      BY <1>10, <2>2, <3>1
    <3>2. CASE t # s
      <4>1. Running(t) /\ hashes'[t] = hashes[t] /\ stage'[t] = stage[t] /\ at' = at /\ added' = added
        BY <1>10, <2>2, <3>2 DEF Running
      <4> QED BY <1>8, <4>1
    <3> QED BY <3>1, <3>2
  <2> HIDE DEF Fits
  <2>3. ASSUME ~world.overlap, NEW t \in Scans, NEW u \in Scans,
               stage'[t] \in {"save", "add", "write"}, stage'[u] \in {"save", "add", "write"}
        PROVE  t = u
    BY <1>2, <1>10, <2>1, <2>3 DEF Running
  <2> QED BY <1>2, <1>7, <1>10, <2>2, <2>3
<1>11. ASSUME NEW s \in Scans, SaveFile(s) PROVE RecoveryCovered'
  <2>1. /\ UNCHANGED <<world, at, hashes, hashdb, added>> /\ stage' = [stage EXCEPT ![s] = "add"]
        /\ stage[s] = "save"
    BY <1>11 DEF SaveFile
  <2>2. Fits(s)
    BY <1>1, <1>8, <2>1 DEF Running
  <2> HIDE DEF Fits
  <2> QED BY <1>1, <1>2, <1>10, <2>1, <2>2
<1>12. ASSUME NEW s \in Scans, AddHash(s) PROVE RecoveryCovered'
  <2>1. /\ UNCHANGED <<world, at, added>> /\ stage' = [stage EXCEPT ![s] = "write"] /\ stage[s] = "add"
        /\ hashes' = [hashes EXCEPT ![s] = Counted(s)] /\ hashdb' = Torn
    BY <1>12 DEF AddHash
  <2>2. at[s] <= Len(world.finds[s])
    BY <1>1, <2>1 DEF ScanShape
  <2>3. \A d \in Digests : CountIn(Counted(s), d) = CountIn(hashes[s], d) + (IF d \in {File(s).data} THEN 1 ELSE 0)
    BY <2>2, CountedRight
  <2>4. Running(s) /\ stage[s] # "write"
    BY <2>1 DEF Running
  <2>5. \A d \in Digests : CountIn(hashes[s], d) <= added[d]
    BY <1>2, <1>8, <2>4
  <2>6. \A d \in Digests : CountIn(hashes[s], d) \in Nat
    BY <2>2, CountedRight
  <2>7. Fits(s)
    BY <1>1, <1>2, <2>1, <2>3, <2>5, <2>6 DEF File
  <2>8. \A d \in Digests : CountIn(hashdb'.hashes, d) <= added[d]
    BY <1>2, <1>3, <1>4, <2>1
  <2> HIDE DEF Fits
  <2> QED BY <1>1, <1>10, <2>1, <2>7, <2>8
<1>13. ASSUME NEW s \in Scans, Finish(s) \/ Crash(s) PROVE RecoveryCovered'
  <2>1. /\ UNCHANGED <<world, at, hashes, hashdb, added>>
        /\ \E x \in {"done", "dead"} : stage' = [stage EXCEPT ![s] = x]
    BY <1>13 DEF Finish, Crash
  <2>2. ASSUME NEW t \in Scans, stage'[t] \in {"save", "add", "write"} PROVE Fits(t) /\ Running(t)
    <3>1. t # s /\ Running(t)
      BY <1>1, <2>1, <2>2 DEF Running
    <3> QED BY <1>1, <1>8, <2>1, <3>1
  <2> HIDE DEF Fits
  <2> QED BY <1>2, <1>7, <2>1, <2>2
<1>14. ASSUME NEW s \in Scans, Returned(s), at[s] <= Len(world.finds[s]), stage[s] \in {"add", "write"},
              world' = world, \A t \in Scans : t # s => hashes'[t] = hashes[t],
              \A d \in Digests : CountIn(hashdb'.hashes, d) <= added[d] + (IF d = File(s).data THEN 1 ELSE 0),
              \A d \in Digests : CountIn(hashes'[s], d) <= added[d] + (IF d = File(s).data THEN 1 ELSE 0)
       PROVE  RecoveryCovered'
  <2>1. at' = [at EXCEPT ![s] = at[s] + 1] /\ stage' = [stage EXCEPT ![s] = "save"]
        /\ added' = [added EXCEPT ![File(s).data] = added[File(s).data] + 1]
    BY <1>14 DEF Returned
  <2>2. \A d \in Digests : added'[d] = added[d] + (IF d = File(s).data THEN 1 ELSE 0)
    BY <1>1, <1>2, <2>1
  <2>3. ASSUME NEW t \in Scans, stage'[t] \in {"save", "add", "write"} PROVE Fits(t)
    <3>1. CASE t = s
      BY <1>1, <1>2, <1>14, <2>1, <2>2, <3>1
    <3>2. CASE t # s
      <4>1. Running(t) /\ hashes'[t] = hashes[t] /\ stage'[t] = stage[t] /\ at'[t] = at[t]
        BY <1>1, <1>14, <2>1, <2>3, <3>2 DEF Running
      <4>2. \A d \in Digests : CountIn(hashes[t], d) <= added[d] + (IF stage[t] = "write" /\ d = world.finds[t][at[t]].data THEN 1 ELSE 0)
        BY <1>8, <4>1
      <4>3. \A d \in Digests : CountIn(hashes[t], d) \in Nat
        BY <1>1, CountsAreNat DEF ScanShape
      <4> QED BY <1>2, <2>2, <4>1, <4>2, <4>3
    <3> QED BY <3>1, <3>2
  <2>4. \A d \in Digests : CountIn(hashdb'.hashes, d) <= added'[d] /\ added'[d] \in Nat
    BY <1>2, <1>14, <2>2
  <2> HIDE DEF Fits
  <2>5. ASSUME ~world.overlap, NEW t \in Scans, NEW u \in Scans,
               stage'[t] \in {"save", "add", "write"}, stage'[u] \in {"save", "add", "write"}
        PROVE  t = u
    BY <1>1, <1>2, <1>14, <2>1, <2>5 DEF Running
  <2> QED BY <1>7, <1>14, <2>3, <2>4, <2>5
<1>15. ASSUME NEW s \in Scans, AddUnsaved(s) PROVE RecoveryCovered'
  <2>1. /\ UNCHANGED <<world, hashdb>> /\ stage[s] = "add" /\ Returned(s)
        /\ hashes' = [hashes EXCEPT ![s] = Counted(s)]
    BY <1>15 DEF AddUnsaved
  <2>2. at[s] <= Len(world.finds[s])
    BY <1>1, <2>1 DEF ScanShape
  <2>3. \A d \in Digests : /\ CountIn(Counted(s), d) = CountIn(hashes[s], d) + (IF d = File(s).data THEN 1 ELSE 0)
                            /\ CountIn(hashes[s], d) \in Nat
    BY <2>2, CountedRight
  <2>4. Running(s) /\ stage[s] # "write"
    BY <2>1 DEF Running
  <2>5. \A d \in Digests : CountIn(hashes[s], d) <= added[d]
    BY <1>2, <1>8, <2>4
  <2>6. \A d \in Digests : CountIn(hashes'[s], d) <= added[d] + (IF d = File(s).data THEN 1 ELSE 0)
    BY <1>1, <1>2, <2>1, <2>3, <2>5
  <2>7. \A d \in Digests : CountIn(hashdb'.hashes, d) <= added[d] + (IF d = File(s).data THEN 1 ELSE 0)
    BY <1>2, <2>1
  <2> QED BY <1>1, <1>14, <2>1, <2>2, <2>6, <2>7
<1>16. ASSUME NEW s \in Scans, WriteBack(s) \/ WriteFails(s) PROVE RecoveryCovered'
  <2>1. /\ UNCHANGED <<world, hashes>> /\ stage[s] = "write" /\ Returned(s)
        /\ hashdb' = Whole(hashes[s]) \/ hashdb' = Torn
    BY <1>16 DEF WriteBack, WriteFails
  <2>2. at[s] <= Len(world.finds[s])
    BY <1>1, <2>1 DEF ScanShape
  <2>3. Running(s)
    BY <2>1 DEF Running
  <2>4. \A d \in Digests : CountIn(hashes[s], d) <= added[d] + (IF d = File(s).data THEN 1 ELSE 0)
    BY <1>8, <2>1, <2>3 DEF File
  <2>5. \A d \in Digests : CountIn(hashdb'.hashes, d) <= added[d] + (IF d = File(s).data THEN 1 ELSE 0)
    <3>1. CASE hashdb' = Whole(hashes[s])
      BY <1>4, <2>4, <3>1
    <3>2. CASE hashdb' = Torn
      BY <1>2, <1>3, <1>4, <3>2
    <3> QED BY <2>1, <3>1, <3>2
  <2> QED BY <1>14, <2>1, <2>2, <2>4, <2>5
<1>17. ASSUME NEW s \in Scans, ClearHashes(s) PROVE RecoveryCovered'
  <2>1. /\ UNCHANGED <<world, stage, at>> /\ ~world.overlap /\ stage[s] = "save"
        /\ hashes' = [hashes EXCEPT ![s] = NoHashes] /\ hashdb' = Missing /\ added' = [d \in Digests |-> 0]
    BY <1>17 DEF ClearHashes
  <2>2. ASSUME NEW t \in Scans, stage'[t] \in {"save", "add", "write"} PROVE t = s
    BY <1>2, <2>1, <2>2 DEF Running
  <2>3. Fits(s)
    BY <1>1, <1>3, <2>1
  <2> HIDE DEF Fits
  <2> QED BY <1>1, <1>3, <1>4, <1>7, <2>1, <2>2, <2>3
<1> QED BY <1>6, <1>9, <1>11, <1>12, <1>13, <1>15, <1>16, <1>17 DEF RecoveryNext
\* Nothing is lost by any step of scans one after the other.
LEMMA ExactNext ==
  RecoveryShape /\ RecoveryCovered /\ RecoveryExact /\ [RecoveryNext]_recoveryVars => RecoveryExact'
<1> SUFFICES ASSUME RecoveryShape, RecoveryCovered, RecoveryExact, [RecoveryNext]_recoveryVars,
                    ~world'.overlap, ~world'.faults
             PROVE  /\ (\A s \in Scans' : stage'[s] # "write") => Exact(hashdb.hashes, {})'
                    /\ \A s \in Scans' : Running(s)' => Exact(hashes[s], BeingAdded(s))'
                    /\ \A s \in Scans' : stage'[s] = "write" => hashdb'.state = "torn"
  BY DEF RecoveryExact
<1>0. world' = world
  BY DEF RecoveryNext, recoveryVars, Start, SaveFile, AddHash, AddUnsaved, WriteBack, WriteFails, Finish,
         Crash, ClearHashes
<1>1. /\ DOMAIN stage = Scans /\ DOMAIN at = Scans /\ DOMAIN hashes = Scans
      /\ \A s \in Scans : ScanShape(s) /\ \A d \in Digests : CountIn(hashes[s], d) \in Nat
      /\ \A d \in Digests : added[d] \in Nat
      /\ Scans' = Scans /\ Digests' = Digests
  BY <1>0, CountsAreNat DEF RecoveryShape, ScanShape, Scans, Digests
<1>2. \A s \in Scans : stage[s] \in {"save", "add", "write"} =>
        \A t \in Scans : stage[t] \in {"save", "add", "write"} => t = s
  BY <1>0 DEF RecoveryCovered, Running
<1>3. /\ (\A s \in Scans : stage[s] # "write") => \A d \in Digests : CountIn(hashdb.hashes, d) = added[d]
      /\ \A s \in Scans : stage[s] \in {"save", "add"} => \A d \in Digests : CountIn(hashes[s], d) = added[d]
      /\ \A s \in Scans : stage[s] = "write" =>
            /\ hashdb.state = "torn"
            /\ \A d \in Digests : CountIn(hashes[s], d) = added[d] + (IF d = File(s).data THEN 1 ELSE 0)
  <2>1. /\ (\A s \in Scans : stage[s] # "write") => Exact(hashdb.hashes, {})
        /\ \A s \in Scans : Running(s) => Exact(hashes[s], BeingAdded(s))
        /\ \A s \in Scans : stage[s] = "write" => hashdb.state = "torn"
    BY <1>0 DEF RecoveryExact
  <2>2. Exact(hashdb.hashes, {}) => \A d \in Digests : CountIn(hashdb.hashes, d) = added[d]
    BY <1>1 DEF Exact
  <2>3. ASSUME NEW s \in Scans, stage[s] \in {"save", "add"}
        PROVE  \A d \in Digests : CountIn(hashes[s], d) = added[d]
    <3>1. BeingAdded(s) = {} /\ Running(s)
      BY <2>3 DEF BeingAdded, Running
    <3> QED BY <1>1, <2>1, <3>1 DEF Exact
  <2>4. ASSUME NEW s \in Scans, stage[s] = "write"
        PROVE  \A d \in Digests : CountIn(hashes[s], d) = added[d] + (IF d = File(s).data THEN 1 ELSE 0)
    <3>1. BeingAdded(s) = {File(s).data} /\ Running(s)
      BY <2>4 DEF BeingAdded, Running
    <3> QED BY <2>1, <3>1 DEF Exact
  <2> QED BY <2>1, <2>2, <2>3, <2>4
<1>4. \A d : CountIn(NoHashes, d) = 0
  BY CountsAreNat
<1>5. /\ Torn.hashes = NoHashes /\ Torn.state = "torn" /\ Missing.hashes = NoHashes
      /\ \A h : Whole(h).hashes = h
  BY DEF Torn, Missing, Whole
<1> DEFINE File1(s) == world.finds[s][at'[s]]
           Quiet1 == \A s \in Scans : stage'[s] # "write"
           Disk1 == \A d \in Digests : CountIn(hashdb'.hashes, d) = added'[d]
           Copy1(s) == \A d \in Digests : CountIn(hashes'[s], d) =
                                             added'[d] + (IF stage'[s] = "write" /\ d = File1(s).data THEN 1 ELSE 0)
<1>6. ASSUME Quiet1 => Disk1,
             \A s \in Scans : stage'[s] \in {"save", "add", "write"} => Copy1(s),
             \A s \in Scans : stage'[s] = "write" => hashdb'.state = "torn"
      PROVE  /\ (\A s \in Scans' : stage'[s] # "write") => Exact(hashdb.hashes, {})'
             /\ \A s \in Scans' : Running(s)' => Exact(hashes[s], BeingAdded(s))'
             /\ \A s \in Scans' : stage'[s] = "write" => hashdb'.state = "torn"
  <2>1. (\A d \in Digests : added'[d] \in Nat)
    BY <1>1, ShapeNext, CountsAreNat DEF RecoveryShape
  <2>2. Disk1 => Exact(hashdb.hashes, {})'
    BY <1>1, <2>1 DEF Exact, CountIn
  <2>3. ASSUME NEW s \in Scans, Copy1(s) PROVE Exact(hashes[s], BeingAdded(s))'
    BY <1>0, <1>1, <2>1, <2>3 DEF Exact, CountIn, BeingAdded, File
  <2> HIDE DEF Disk1, Copy1
  <2> QED BY <1>1, <1>6, <2>2, <2>3 DEF Running
<1>7. CASE UNCHANGED recoveryVars
  <2>1. /\ stage' = stage /\ at' = at /\ hashes' = hashes /\ hashdb' = hashdb /\ added' = added
    BY <1>7 DEF recoveryVars
  <2> QED BY <1>1, <1>3, <1>6, <2>1 DEF File, ScanShape
<1>8. ASSUME NEW s \in Scans, Start(s) PROVE Quiet1 /\ Disk1 /\ \A t \in Scans : stage'[t] \in {"save", "add", "write"} => Copy1(t)
  <2>1. /\ hashdb' = hashdb /\ added' = added /\ at' = at
        /\ stage' = [stage EXCEPT ![s] = "save"] /\ hashes' = [hashes EXCEPT ![s] = hashdb.hashes]
        /\ \A t \in Scans : stage[t] \notin {"save", "add", "write"}
    BY <1>0, <1>8 DEF Start, Running
  <2>2. Disk1
    BY <1>1, <1>3, <2>1
  <2>3. \A t \in Scans : stage'[t] \in {"save", "add", "write"} => t = s
    BY <1>1, <2>1
  <2>4. Copy1(s)
    BY <1>1, <2>1, <2>2
  <2>5. Quiet1
    BY <1>1, <2>1
  <2> HIDE DEF Copy1, Disk1, Quiet1
  <2> QED BY <2>2, <2>3, <2>4, <2>5
<1>9. ASSUME NEW s \in Scans, SaveFile(s) PROVE Quiet1 /\ Disk1 /\ \A t \in Scans : stage'[t] \in {"save", "add", "write"} => Copy1(t)
  <2>1. /\ hashdb' = hashdb /\ added' = added /\ at' = at /\ hashes' = hashes
        /\ stage' = [stage EXCEPT ![s] = "add"] /\ stage[s] = "save"
    BY <1>9 DEF SaveFile
  <2>2. \A t \in Scans : stage[t] # "write"
    BY <1>2, <2>1
  <2>3. Quiet1 /\ Disk1
    BY <1>1, <1>3, <2>1, <2>2
  <2>4. \A t \in Scans : stage'[t] \in {"save", "add", "write"} => t = s
    BY <1>1, <1>2, <2>1
  <2>5. Copy1(s)
    BY <1>1, <1>3, <2>1
  <2> HIDE DEF Copy1, Disk1, Quiet1
  <2> QED BY <2>3, <2>4, <2>5
<1>10. ASSUME NEW s \in Scans, AddHash(s)
       PROVE  ~Quiet1 /\ hashdb'.state = "torn" /\ \A t \in Scans : stage'[t] \in {"save", "add", "write"} => Copy1(t)
  <2>1. /\ hashdb' = Torn /\ added' = added /\ at' = at /\ hashes' = [hashes EXCEPT ![s] = Counted(s)]
        /\ stage' = [stage EXCEPT ![s] = "write"] /\ stage[s] = "add"
    BY <1>10 DEF AddHash
  <2>2. at[s] <= Len(world.finds[s])
    BY <1>1, <2>1 DEF ScanShape
  <2>3. \A d \in Digests : CountIn(Counted(s), d) = CountIn(hashes[s], d) + (IF d \in {File(s).data} THEN 1 ELSE 0)
    BY <2>2, CountedRight
  <2>4. \A t \in Scans : stage'[t] \in {"save", "add", "write"} => t = s
    BY <1>1, <1>2, <2>1
  <2>5. Copy1(s)
    BY <1>1, <1>3, <2>1, <2>3 DEF File
  <2>6. ~Quiet1
    BY <1>1, <2>1
  <2> HIDE DEF Copy1, Quiet1
  <2> QED BY <1>5, <2>1, <2>4, <2>5, <2>6
<1>11. ASSUME NEW s \in Scans, WriteBack(s)
       PROVE  Quiet1 /\ Disk1 /\ \A t \in Scans : stage'[t] \in {"save", "add", "write"} => Copy1(t)
  <2>1. /\ stage[s] = "write" /\ at' = [at EXCEPT ![s] = at[s] + 1] /\ stage' = [stage EXCEPT ![s] = "save"]
        /\ added' = [added EXCEPT ![File(s).data] = added[File(s).data] + 1] /\ hashes' = hashes
        /\ hashdb' = Whole(hashes[s]) \/ hashdb.state = "whole"
    BY <1>11 DEF WriteBack, Returned
  <2>2. hashdb' = Whole(hashes[s])
    BY <1>3, <2>1
  <2>3. \A d \in Digests : added'[d] = added[d] + (IF d = File(s).data THEN 1 ELSE 0)
    BY <1>1, <2>1 DEF RecoveryShape
  <2>4. Disk1
    BY <1>3, <1>5, <2>1, <2>2, <2>3
  <2>5. \A t \in Scans : stage'[t] \in {"save", "add", "write"} => t = s
    BY <1>1, <1>2, <2>1
  <2>6. Copy1(s) /\ Quiet1
    <3>1. stage'[s] # "write"
      BY <1>1, <2>1
    <3>2. Quiet1
      BY <2>5, <3>1
    <3>3. \A d \in Digests : CountIn(hashes[s], d) = added'[d] /\ added'[d] \in Nat
      BY <1>1, <1>3, <2>1, <2>3
    <3>4. Copy1(s)
      BY <2>1, <3>1, <3>3
    <3> QED BY <3>2, <3>4
  <2> HIDE DEF Copy1, Disk1, Quiet1
  <2> QED BY <2>4, <2>5, <2>6
<1>12. ASSUME NEW s \in Scans, Finish(s) \/ Crash(s)
       PROVE  Quiet1 /\ Disk1 /\ \A t \in Scans : stage'[t] \in {"save", "add", "write"} => Copy1(t)
  <2>1. /\ hashdb' = hashdb /\ added' = added /\ at' = at /\ hashes' = hashes
        /\ \E x \in {"done", "dead"} : stage' = [stage EXCEPT ![s] = x]
        /\ stage[s] \in {"save", "add"}
    BY <1>0, <1>12 DEF Finish, Crash, Running
  <2>2. \A t \in Scans : stage[t] # "write" /\ stage'[t] \notin {"save", "add", "write"}
    BY <1>1, <1>2, <2>1
  <2> QED BY <1>3, <2>1, <2>2
<1>13. ASSUME NEW s \in Scans, ClearHashes(s)
       PROVE  Quiet1 /\ Disk1 /\ \A t \in Scans : stage'[t] \in {"save", "add", "write"} => Copy1(t)
  <2>1. /\ stage' = stage /\ at' = at /\ stage[s] = "save"
        /\ hashes' = [hashes EXCEPT ![s] = NoHashes] /\ hashdb' = Missing /\ added' = [d \in Digests |-> 0]
    BY <1>13 DEF ClearHashes
  <2>2. \A t \in Scans : stage'[t] \in {"save", "add", "write"} => t = s
    BY <1>1, <1>2, <2>1
  <2>3. Copy1(s) /\ Quiet1 /\ Disk1
    BY <1>1, <1>4, <1>5, <2>1, <2>2
  <2> HIDE DEF Copy1, Disk1, Quiet1
  <2> QED BY <2>2, <2>3
<1> HIDE DEF Quiet1, Disk1, Copy1
<1>14. Quiet1 => \A s \in Scans : stage'[s] # "write"
  BY DEF Quiet1
<1> QED BY <1>0, <1>6, <1>7, <1>8, <1>9, <1>10, <1>11, <1>12, <1>13, <1>14 DEF RecoveryNext, AddUnsaved, WriteFails
\* A number given next is larger than those given, so its path is a new one.
LEMMA NewPath ==
  ASSUME RecoveryShape, RecoveryPaths, NEW s \in Scans,
         \A u, t \in Scans : world.dir[u] = world.dir[t] => u = t
  PROVE  PathOf(s, Get(counter[s], File(s).ext) + 1) \notin DOMAIN saved
<1> DEFINE e == File(s).ext
           n == Get(counter[s], e) + 1
<1>1. Get(counter[s], e) \in Nat
  BY DEF RecoveryShape, ScanShape, Get
<1>2. ASSUME PathOf(s, n) \in DOMAIN saved PROVE FALSE
  <2>1. PICK t \in Scans : \E f, m : PathOf(s, n) = <<world.dir[t], f, m>> /\ m \in Nat /\ m <= Get(counter[t], f)
    BY <1>2 DEF RecoveryPaths
  <2>2. PICK f, m : PathOf(s, n) = <<world.dir[t], f, m>> /\ m \in Nat /\ m <= Get(counter[t], f)
    BY <2>1
  <2>3. world.dir[s] = world.dir[t] /\ f = e /\ m = n
    BY <2>2 DEF PathOf
  <2>4. t = s
    BY <2>3
  <2> QED BY <1>1, <2>2, <2>3, <2>4
<1> QED BY <1>2

\* Every step keeps the paths of entries true.
LEMMA PathsNext ==
  RecoveryShape /\ RecoveryPaths /\ [RecoveryNext]_recoveryVars => RecoveryPaths'
<1> SUFFICES ASSUME RecoveryShape, RecoveryPaths, [RecoveryNext]_recoveryVars PROVE RecoveryPaths'
  OBVIOUS
<1>0. world' = world /\ Scans' = Scans
  BY DEF RecoveryNext, recoveryVars, Start, SaveFile, AddHash, AddUnsaved, WriteBack, WriteFails, Finish,
         Crash, ClearHashes, Scans
<1> SUFFICES ASSUME \A s, t \in Scans : world.dir[s] = world.dir[t] => s = t
             PROVE  RecoveryPaths'
  BY <1>0 DEF RecoveryPaths
<1>1. /\ DOMAIN stage = Scans /\ DOMAIN at = Scans /\ DOMAIN hashes = Scans /\ DOMAIN counter = Scans
      /\ \A s \in Scans : ScanShape(s)
  BY DEF RecoveryShape
<1>2. /\ Leads(hashdb.hashes) /\ \A s \in Scans : Leads(hashes[s])
      /\ \A p \in DOMAIN saved : \E t \in Scans : \E e, n :
            p = <<world.dir[t], e, n>> /\ n \in Nat /\ n <= Get(counter[t], e)
      /\ \A s \in Scans : stage[s] = "add" =>
            /\ File(s).ext \in DOMAIN counter[s]
            /\ PathOf(s, counter[s][File(s).ext]) \in DOMAIN saved
            /\ saved[PathOf(s, counter[s][File(s).ext])] = File(s).data
  BY DEF RecoveryPaths
<1>3. Leads(NoHashes)
  BY DEF Leads, NoHashes
<1>4. Torn.hashes = NoHashes /\ Missing.hashes = NoHashes /\ \A h : Whole(h).hashes = h
  BY DEF Torn, Missing, Whole
\* Where no path is taken away or given anew.
<1>5. ASSUME saved' = saved, counter' = counter, Leads(hashdb'.hashes), \A s \in Scans : Leads(hashes'[s]),
             \A s \in Scans : stage'[s] = "add" => stage[s] = "add" /\ at'[s] = at[s]
      PROVE  RecoveryPaths'
  <2>1. \A h : Leads(h)' <=> Leads(h)
    BY <1>5 DEF Leads
  <2>2. ASSUME NEW s \in Scans, stage'[s] = "add"
        PROVE  /\ stage[s] = "add" /\ File(s)' = File(s)
               /\ \A n : PathOf(s, n)' = PathOf(s, n)
    BY <1>0, <1>5, <2>2 DEF File, PathOf
  <2>3. \A s \in Scans : stage'[s] = "add" =>
            /\ File(s)'.ext \in DOMAIN counter'[s]
            /\ PathOf(s, counter[s][File(s).ext])' \in DOMAIN saved'
            /\ saved'[PathOf(s, counter[s][File(s).ext])'] = File(s)'.data
    BY <1>2, <1>5, <2>2
  <2>4. \A p \in DOMAIN saved' : \E t \in Scans : \E e, n :
            p = <<world'.dir[t], e, n>> /\ n \in Nat /\ n <= Get(counter'[t], e)
    BY <1>0, <1>2, <1>5
  <2>5. Leads(hashdb.hashes)' /\ \A s \in Scans : Leads(hashes[s])'
    BY <1>5 DEF Leads
  <2> QED BY <1>0, <2>3, <2>4, <2>5 DEF RecoveryPaths
<1>6. ASSUME NEW s \in Scans, AddHash(s) \/ AddUnsaved(s) PROVE RecoveryPaths'
  <2>1. /\ stage[s] = "add" /\ saved' = saved /\ counter' = counter /\ hashes' = [hashes EXCEPT ![s] = Counted(s)]
        /\ hashdb' = hashdb \/ hashdb' = Torn
        /\ \/ at' = at /\ stage' = [stage EXCEPT ![s] = "write"]
           \/ at' = [at EXCEPT ![s] = at[s] + 1] /\ stage' = [stage EXCEPT ![s] = "save"]
    BY <1>6 DEF AddHash, AddUnsaved, Returned
  <2>2. at[s] <= Len(world.finds[s])
    BY <1>1, <2>1 DEF ScanShape
  <2>3. /\ DOMAIN Counted(s) = DOMAIN hashes[s] \union {File(s).data}
        /\ \A d \in DOMAIN hashes[s] : Counted(s)[d].path = hashes[s][d].path
        /\ File(s).data \notin DOMAIN hashes[s] =>
               Counted(s)[File(s).data].path = PathOf(s, counter[s][File(s).ext])
    BY <2>2, CountedRight
  <2>4. Leads(Counted(s))
    BY <1>2, <2>1, <2>3 DEF Leads
  <2>5. Leads(hashdb'.hashes)
    BY <1>2, <1>3, <1>4, <2>1
  <2>6. \A t \in Scans : Leads(hashes'[t])
    BY <1>1, <1>2, <2>1, <2>4
  <2>7. \A t \in Scans : stage'[t] = "add" => stage[t] = "add" /\ at'[t] = at[t]
    BY <1>1, <2>1
  <2> QED BY <1>5, <2>1, <2>5, <2>6, <2>7
<1>7. ASSUME NEW s \in Scans, Start(s) PROVE RecoveryPaths'
  <2>1. /\ saved' = saved /\ counter' = counter /\ hashdb' = hashdb /\ at' = at
        /\ hashes' = [hashes EXCEPT ![s] = hashdb.hashes] /\ stage' = [stage EXCEPT ![s] = "save"]
    BY <1>7 DEF Start
  <2>2. \A t \in Scans : Leads(hashes'[t])
    BY <1>1, <1>2, <2>1
  <2>3. \A t \in Scans : stage'[t] = "add" => stage[t] = "add" /\ at'[t] = at[t]
    BY <1>1, <2>1
  <2> QED BY <1>2, <1>5, <2>1, <2>2, <2>3
<1>8. ASSUME NEW s \in Scans, WriteBack(s) \/ WriteFails(s) PROVE RecoveryPaths'
  <2>1. /\ saved' = saved /\ counter' = counter /\ hashes' = hashes
        /\ hashdb' = Whole(hashes[s]) \/ hashdb' = Torn
        /\ at' = [at EXCEPT ![s] = at[s] + 1] /\ stage' = [stage EXCEPT ![s] = "save"]
    BY <1>8 DEF WriteBack, WriteFails, Returned
  <2>2. Leads(hashdb'.hashes)
    BY <1>2, <1>3, <1>4, <2>1
  <2>3. \A t \in Scans : stage'[t] = "add" => stage[t] = "add" /\ at'[t] = at[t]
    BY <1>1, <2>1
  <2> QED BY <1>2, <1>5, <2>1, <2>2, <2>3
<1>9. ASSUME NEW s \in Scans, Finish(s) \/ Crash(s) PROVE RecoveryPaths'
  <2>1. /\ saved' = saved /\ counter' = counter /\ hashes' = hashes /\ hashdb' = hashdb /\ at' = at
        /\ \E x \in {"done", "dead"} : stage' = [stage EXCEPT ![s] = x]
    BY <1>9 DEF Finish, Crash
  <2>2. \A t \in Scans : stage'[t] = "add" => stage[t] = "add"
    BY <1>1, <2>1
  <2> QED BY <1>2, <1>5, <2>1, <2>2
<1>10. ASSUME NEW s \in Scans, ClearHashes(s) PROVE RecoveryPaths'
  <2>1. /\ saved' = saved /\ counter' = counter /\ stage' = stage /\ at' = at
        /\ hashes' = [hashes EXCEPT ![s] = NoHashes] /\ hashdb' = Missing
    BY <1>10 DEF ClearHashes
  <2>2. \A t \in Scans : Leads(hashes'[t])
    BY <1>1, <1>2, <1>3, <2>1
  <2> QED BY <1>3, <1>4, <1>5, <2>1, <2>2
<1>11. CASE UNCHANGED recoveryVars
  BY <1>2, <1>5, <1>11 DEF recoveryVars
<1>12. ASSUME NEW s \in Scans, SaveFile(s) PROVE RecoveryPaths'
  <2> DEFINE e == File(s).ext
             n == Get(counter[s], e) + 1
             P == PathOf(s, n)
             table == Bind(counter[s], e, n)
  <2>1. /\ stage[s] = "save" /\ counter' = [counter EXCEPT ![s] = table]
        /\ saved' = Bind(saved, P, File(s).data) /\ stage' = [stage EXCEPT ![s] = "add"]
        /\ hashdb' = hashdb /\ hashes' = hashes /\ at' = at
    BY <1>12 DEF SaveFile
  <2>2. P \notin DOMAIN saved
    BY NewPath
  <2>3. /\ DOMAIN saved' = DOMAIN saved \union {P} /\ saved'[P] = File(s).data
        /\ \A p \in DOMAIN saved : saved'[p] = saved[p]
    BY <2>1, <2>2 DEF Bind
  <2>4. Get(counter[s], e) \in Nat /\ n \in Nat /\ n > Get(counter[s], e)
    BY <1>1 DEF ScanShape, Get
  <2>5. /\ e \in DOMAIN table /\ table[e] = n
        /\ \A f : Get(counter[s], f) <= Get(table, f) \/ Get(table, f) = Get(counter[s], f)
    BY <2>4 DEF Bind, Get
  <2>6. \A f : Get(counter[s], f) \in Nat
    BY <1>1 DEF ScanShape, Get
  <2>7. \A t \in Scans : counter'[t] = IF t = s THEN table ELSE counter[t]
    BY <1>1, <2>1
  <2>8. P = <<world.dir[s], e, n>>
    BY DEF PathOf
  <2>9. File(s)' = File(s) /\ (\A t \in Scans : File(t)' = File(t)) /\ \A t \in Scans : \A m : PathOf(t, m)' = PathOf(t, m)
    BY <1>0, <2>1 DEF File, PathOf
  <2> HIDE DEF table, n, P, e
  <2>10. \A h : Leads(h) => \A d \in DOMAIN h : h[d].path \in DOMAIN saved' /\ saved'[h[d].path] = d
    BY <2>3 DEF Leads
  <2>11. Leads(hashdb.hashes)' /\ \A t \in Scans : Leads(hashes[t])'
    <3>1. /\ \A d \in DOMAIN hashdb.hashes : /\ hashdb.hashes[d].path \in DOMAIN saved'
                                            /\ saved'[hashdb.hashes[d].path] = d
          /\ \A t \in Scans : \A d \in DOMAIN hashes[t] : /\ hashes[t][d].path \in DOMAIN saved'
                                                        /\ saved'[hashes[t][d].path] = d
      BY <1>2, <2>10
    <3>2. hashdb' = hashdb /\ hashes' = hashes
      BY <2>1
    <3> QED BY <3>1, <3>2 DEF Leads
  <2>12. ASSUME NEW p \in DOMAIN saved'
         PROVE  \E t \in Scans : \E f, m : p = <<world'.dir[t], f, m>> /\ m \in Nat /\ m <= Get(counter'[t], f)
    <3>1. CASE p = P
      <4>1. Get(counter'[s], e) = n
        BY <2>5, <2>7 DEF Get
      <4> QED BY <1>0, <2>4, <2>8, <3>1, <4>1
    <3>2. CASE p \in DOMAIN saved
      <4>1. PICK t \in Scans : \E f, m : p = <<world.dir[t], f, m>> /\ m \in Nat /\ m <= Get(counter[t], f)
        BY <1>2, <3>2
      <4>2. PICK f, m : p = <<world.dir[t], f, m>> /\ m \in Nat /\ m <= Get(counter[t], f)
        BY <4>1
      <4>3. m <= Get(counter'[t], f)
        <5>1. CASE t = s
          <6>1. Get(counter[s], f) \in Nat /\ (Get(counter[s], f) <= Get(table, f) \/ Get(table, f) = Get(counter[s], f))
            BY <2>5, <2>6
          <6>2. Get(table, f) \in Nat
            BY <2>4, <2>6, <1>1 DEF table, Bind, Get, n
          <6> QED BY <2>7, <4>2, <5>1, <6>1, <6>2
        <5>2. CASE t # s
          BY <2>7, <4>2, <5>2
        <5> QED BY <5>1, <5>2
      <4> QED BY <1>0, <4>2, <4>3
    <3> QED BY <2>3, <3>1, <3>2
  <2>13. ASSUME NEW t \in Scans, stage'[t] = "add"
         PROVE  /\ File(t).ext \in DOMAIN counter'[t]
                /\ PathOf(t, counter'[t][File(t).ext]) \in DOMAIN saved'
                /\ saved'[PathOf(t, counter'[t][File(t).ext])] = File(t).data
    <3>1. CASE t = s
      <4>1. counter'[t] = table /\ File(t).ext = e /\ PathOf(t, n) = P
        BY <2>7, <3>1 DEF e, P
      <4> QED BY <2>3, <2>5, <3>1, <4>1
    <3>2. CASE t # s
      <4>1. stage[t] = "add" /\ counter'[t] = counter[t]
        BY <1>1, <2>1, <2>7, <2>13, <3>2
      <4> QED BY <1>2, <2>3, <4>1
    <3> QED BY <3>1, <3>2
  <2>14. \A t \in Scans : stage'[t] = "add" =>
            /\ File(t)'.ext \in DOMAIN counter'[t]
            /\ PathOf(t, counter[t][File(t).ext])' \in DOMAIN saved'
            /\ saved'[PathOf(t, counter[t][File(t).ext])'] = File(t)'.data
    BY <2>9, <2>13 DEF PathOf
  <2> QED BY <1>0, <2>11, <2>12, <2>14 DEF RecoveryPaths
<1> QED BY <1>6, <1>7, <1>8, <1>9, <1>10, <1>11, <1>12 DEF RecoveryNext

\* The hash database and the recovered files agree, whatever scans run, side by
\* side or one after the other, and whatever of them die (HashDatabase and
\* RecoveryManager.save, for every number of scans, files and directories).
THEOREM RecoveryHashes == RecoverySpec => []HashesRight
<1> DEFINE Inv == RecoveryShape /\ RecoveryCovered /\ RecoveryExact /\ RecoveryPaths
<1>1. RecoveryInit => Inv
  <2> SUFFICES ASSUME RecoveryInit PROVE Inv
    OBVIOUS
  <2>1. RecoveryShape
    BY ShapeInit
  <2>2. /\ \A s \in Scans : stage[s] = "waiting" /\ hashes[s] = NoHashes
        /\ hashdb.hashes = NoHashes /\ saved = NoHashes /\ \A d \in Digests : added[d] = 0
    BY DEF RecoveryInit, Missing
  <2>3. DOMAIN NoHashes = {} /\ \A d : CountIn(NoHashes, d) = 0
    BY DEF NoHashes, CountIn
  <2>4. RecoveryCovered /\ RecoveryExact
    BY <2>2, <2>3 DEF RecoveryCovered, RecoveryExact, Covered, Exact, Running
  <2>5. RecoveryPaths
    BY <2>2, <2>3 DEF RecoveryPaths, Leads
  <2> QED BY <2>1, <2>4, <2>5
<1>2. Inv /\ [RecoveryNext]_recoveryVars => Inv'
  BY ShapeNext, CoveredNext, ExactNext, PathsNext
<1>3. Inv => HashesRight
  <2> SUFFICES ASSUME Inv PROVE HashesRight
    OBVIOUS
  <2>1. \A d : CountOnDisk(d) = CountIn(hashdb.hashes, d)
    BY DEF CountOnDisk, CountIn
  <2>2. \A d \in Digests : added[d] \in Nat
    BY DEF RecoveryShape
  <2>3. NothingMadeUp
    BY <2>1, <2>2 DEF NothingMadeUp, RecoveryCovered, Covered
  <2>4. CountsKept
    BY <2>1, <2>2 DEF CountsKept, RecoveryExact, Exact
  <2>5. PathHolds
    BY DEF PathHolds, RecoveryPaths, Leads
  <2> QED BY <2>3, <2>4, <2>5 DEF HashesRight
<1> QED BY <1>1, <1>2, <1>3, PTL DEF RecoverySpec

-----------------------------------------------------------------------------
(* A scan command and its interrupts (Scanning).                               *)

\* A window lies in the image and is not empty.
IsWindow(w) == w \in Int \X Int /\ w[2] > 0 /\ w[1] + w[2] <= settings.size

\* What the steps need to know of the shape of the state.
ScanningShape ==
  /\ settings \in ScanSettings
  /\ at_step \in Steps \union {"start", "finish", "done", "empty", "killed", "stuck"}
  /\ windows \in Seq(Int \X Int) /\ scanned \in Nat /\ interrupted \in BOOLEAN
  /\ handling \in 0..1 /\ signals \in Nat /\ kept \in Int
  /\ at_step \notin {"start", "empty"} => settings.size > 0
  /\ settings.mode = "quick" => at_step \notin {"threaded", "mmap", "streaming"}
  /\ settings.mode = "full" => at_step \notin {"head", "tail", "mft", "rest"}

\* What has set the flag, and what ended the command by force.
ScanningSignals ==
  /\ interrupted => signals > 0 \/ (settings.timeout /\ at_step # "start")
  /\ handling = 1 => interrupted /\ signals > 0
  /\ LostByForceOnly

\* A scan of everything has one window, from when it is at its end.
ScanningFull ==
  settings.mode = "full" =>
    /\ at_step \in {"start", "threaded", "mmap", "streaming"} => windows = <<>>
    /\ at_step \in {"finish", "done"} =>
         /\ Len(windows) \in 0..1
         /\ windows = <<>> =>
              interrupted /\ (signals > 0 \/ (settings.timeout /\ settings.mmap = "raises"))
    /\ at_step = "done" => kept = Len(windows)

\* A quick scan has the head first, and at its end what it was asked for.
ScanningQuick ==
  settings.mode = "quick" =>
    /\ at_step \in {"start", "head"} => windows = <<>>
    /\ at_step \in {"tail", "mft", "rest"} => windows # <<>>
    /\ at_step \in {"finish", "done"} /\ ~interrupted => windows # <<>> /\ scanned >= Effective
    /\ at_step \in {"finish", "done"} /\ windows = <<>> => interrupted /\ signals > 0
    /\ at_step = "done" => kept = Len(windows)
    /\ windows # <<>> => windows[1] = <<0, Smaller(HeadWindow, settings.size)>>
    /\ \A i \in DOMAIN windows : IsWindow(windows[i])

\* The invariant of a scan command.
ScanningInv == ScanningShape /\ ScanningSignals /\ ScanningFull /\ ScanningQuick

\* The types of the settings and of the windows.
LEMMA SettingShape ==
  ASSUME ScanningShape
  PROVE  /\ settings.mode \in {"quick", "full"} /\ settings.mmap \in {"off", "works", "falls", "raises"}
         /\ settings.size \in Nat /\ settings.limit \in Nat /\ settings.threads \in Nat
         /\ settings.mft \in Int /\ settings.timeout \in BOOLEAN
         /\ HeadWindow \in Nat \ {0} /\ TailWindow \in Nat \ {0} /\ MftWindow \in Nat \ {0}
<1>1. settings \in Settings  BY ScanningAssumption DEF ScanningShape
<1>2. HeadWindow \in Nat \ {0} /\ TailWindow \in Nat \ {0} /\ MftWindow \in Nat \ {0}
  BY ScanningAssumption
<1> QED BY <1>1, <1>2 DEF Settings

\* A window that is scanned lies in the image, comes last, and is counted.
LEMMA WindowScanned ==
  ASSUME ScanningShape, NEW start \in Int, NEW size \in Int, ScanWindow(start, size)
  PROVE  /\ windows' \in Seq(Int \X Int) /\ scanned' \in Nat /\ scanned' >= scanned
         /\ windows # <<>> => windows' # <<>> /\ windows'[1] = windows[1]
         /\ (\A i \in DOMAIN windows : IsWindow(windows[i])) =>
               \A i \in DOMAIN windows' : IsWindow(windows'[i])
         /\ 0 < Smaller(start + size, settings.size) - start =>
               /\ windows' = Append(windows, <<start, Smaller(start + size, settings.size) - start>>)
               /\ scanned' = scanned + (Smaller(start + size, settings.size) - start)
<1> DEFINE actual == Smaller(start + size, settings.size) - start
           w == <<start, actual>>
<1>1. settings.size \in Nat /\ windows \in Seq(Int \X Int) /\ scanned \in Nat
  BY SettingShape DEF ScanningShape
<1>2. actual \in Int /\ start + actual <= settings.size
  BY <1>1 DEF Smaller
<1>3. w \in Int \X Int /\ w[1] = start /\ w[2] = actual
  BY <1>2
<1>4. CASE actual <= 0
  BY <1>1, <1>2, <1>4 DEF ScanWindow, Actual
<1>5. CASE actual > 0
  <2>1. windows' = Append(windows, w) /\ scanned' = scanned + actual
    BY <1>2, <1>5 DEF ScanWindow, Actual
  <2>2. IsWindow(w)
    BY <1>1, <1>2, <1>3, <1>5 DEF IsWindow
  <2> HIDE DEF w, actual
  <2>a. windows \in Seq(Int \X Int) /\ w \in Int \X Int /\ windows' = Append(windows, w)
    BY <1>1, <1>3, <2>1
  <2>b. Len(windows) \in Nat /\ DOMAIN windows = 1..Len(windows)
    BY <2>a, LenProperties
  <2>c. /\ Append(windows, w) \in Seq(Int \X Int) /\ Len(Append(windows, w)) = Len(windows) + 1
        /\ \A i \in 1..Len(windows) : Append(windows, w)[i] = windows[i]
        /\ Append(windows, w)[Len(windows) + 1] = w
    BY <2>a, AppendProperties
  <2>3. windows' \in Seq(Int \X Int) /\ Len(windows') = Len(windows) + 1
    BY <2>a, <2>c
  <2>4. \A i \in DOMAIN windows : windows'[i] = windows[i]
    BY <2>a, <2>b, <2>c
  <2>5. windows'[Len(windows) + 1] = w
    BY <2>a, <2>c
  <2>6. windows # <<>> => windows' # <<>> /\ windows'[1] = windows[1]
    <3>1. windows # <<>> => 1 \in DOMAIN windows  BY <2>a, <2>b, EmptySeq
    <3>2. windows' # <<>>  BY <2>b, <2>3, EmptySeq
    <3> QED BY <2>4, <3>1, <3>2
  <2>7. ASSUME \A i \in DOMAIN windows : IsWindow(windows[i]), NEW i \in DOMAIN windows'
        PROVE  IsWindow(windows'[i])
    <3>1. i \in DOMAIN windows \/ i = Len(windows) + 1
      <4>1. i \in 1..(Len(windows) + 1)  BY <2>3, <2>7, LenProperties
      <4> QED BY <2>b, <4>1
    <3> QED BY <2>2, <2>4, <2>5, <2>7, <3>1
  <2>8. scanned' \in Nat /\ scanned' >= scanned
    BY <1>1, <1>2, <1>5, <2>1
  <2> QED BY <2>1, <2>3, <2>6, <2>7, <2>8 DEF w, actual
<1>6. actual <= 0 \/ actual > 0
  BY <1>2
<1> QED BY <1>4, <1>5, <1>6

\* A command starts with the invariant.
LEMMA ScanningInitInv == ScanningInit => ScanningInv
<1> SUFFICES ASSUME ScanningInit PROVE ScanningInv
  OBVIOUS
<1>1. ScanningShape
  <2>1. /\ at_step = "start" /\ windows = <<>> /\ scanned = 0 /\ interrupted = FALSE
        /\ handling = 0 /\ kept = -1 /\ signals = 0 /\ settings \in ScanSettings
    BY DEF ScanningInit, ScanningEmpty
  <2>2. windows \in Seq(Int \X Int) /\ kept \in Int
    BY <2>1
  <2>3. interrupted \in BOOLEAN
    BY <2>1
  <2>4. at_step \notin {"head", "tail", "mft", "rest", "threaded", "mmap", "streaming"}
    BY <2>1
  <2>5. scanned \in Nat /\ handling \in 0..1 /\ signals \in Nat
    BY <2>1
  <2> QED BY <2>1, <2>2, <2>3, <2>4, <2>5 DEF ScanningShape
<1> QED BY <1>1, SettingShape DEF ScanningInit, ScanningEmpty, ScanningInv, ScanningSignals,
           LostByForceOnly, ScanningFull, ScanningQuick, IsWindow

\* Every step of the command and every Ctrl+C keeps it.
LEMMA ScanningNextInv == ScanningInv /\ [ScanningNext]_scanningVars => ScanningInv'
<1> SUFFICES ASSUME ScanningInv, [ScanningNext]_scanningVars PROVE ScanningInv'
  OBVIOUS
<1> USE DEF ScanningInv
<1>s. settings' = settings
  BY DEF ScanningNext, scanningVars, StartScan, ReadChunk, ScanAgain, ScanAll, ScanHead, ScanTail, ScanMft, ScanRest,
         FinishScan, Timeout, Signal, SignalReturns
<1>t. /\ settings.mode \in {"quick", "full"} /\ settings.mmap \in {"off", "works", "falls", "raises"}
      /\ settings.size \in Nat /\ settings.limit \in Nat /\ settings.threads \in Nat
      /\ settings.mft \in Int /\ settings.timeout \in BOOLEAN
      /\ HeadWindow \in Nat \ {0} /\ TailWindow \in Nat \ {0} /\ MftWindow \in Nat \ {0}
  BY SettingShape
<1>e. Effective \in Nat /\ Effective <= settings.size /\ Effective' = Effective
  BY <1>s, <1>t DEF Effective, Smaller
<1>1. CASE StartScan
  <2>1. ScanningShape'
    BY <1>1, <1>s, <1>t DEF StartScan, readVars, ScanningShape, FirstStep, Steps, Free
  <2>2. ScanningSignals'
    BY <1>1, <1>s, <1>t DEF StartScan, readVars, ScanningShape, FirstStep, Steps, Free, ScanningSignals, LostByForceOnly
  <2>3. ScanningFull'
    BY <1>1, <1>s, <1>t DEF StartScan, readVars, ScanningShape, FirstStep, Steps, Free, ScanningFull, ScanningSignals
  <2>4. ScanningQuick'
    BY <1>1, <1>s, <1>t DEF StartScan, readVars, ScanningShape, FirstStep, Steps, Free, ScanningQuick, ScanningSignals, IsWindow
  <2> QED BY <2>1, <2>2, <2>3, <2>4
<1>2. CASE ScanAll
  <2> DEFINE w == <<0, settings.size>>
  <2>m. settings.mode = "full"
    BY <1>2, <1>t DEF ScanAll, ScanningShape
  <2>a. /\ UNCHANGED <<interrupted, handling, signals, kept, scanned>>
        /\ at_step' = "finish" /\ windows' = Append(windows, w)
        /\ at_step \in {"threaded", "mmap", "streaming"}
    BY <1>2 DEF ScanAll
  <2>f. windows = <<>>
    BY <2>a, <2>m DEF ScanningFull
  <2>w. windows' = <<w>> /\ windows' \in Seq(Int \X Int) /\ Len(windows') = 1 /\ windows' # <<>>
    <3>1. w \in Int \X Int  BY <1>t
    <3> HIDE DEF w
    <3>2. Append(<<>>, w) = <<w>> /\ <<w>> \in Seq(Int \X Int) /\ Len(<<w>>) = 1 /\ <<w>> # <<>>
      BY <3>1
    <3> QED BY <2>a, <2>f, <3>2
  <2> HIDE DEF w
  <2>1. ScanningShape'
    BY <1>s, <1>t, <2>a, <2>m, <2>w DEF ScanningShape
  <2>2. ScanningSignals'
    BY <1>s, <2>a DEF ScanningSignals, LostByForceOnly
  <2>3. ScanningFull'
    BY <1>s, <2>a, <2>w DEF ScanningFull
  <2>4. ScanningQuick'
    BY <1>s, <2>m DEF ScanningQuick
  <2> QED BY <2>1, <2>2, <2>3, <2>4
<1>14. CASE ScanAgain
  <2>a. /\ UNCHANGED <<windows, scanned, interrupted, handling, signals, kept>>
        /\ at_step = "mmap"
        /\ at_step' = "streaming" \/ (at_step' = "finish" /\ interrupted /\ settings.mmap = "raises")
    BY <1>14 DEF ScanAgain, MapFails
  <2>m. settings.mode = "full"
    BY <1>t, <2>a DEF ScanningShape
  <2>f. windows = <<>> /\ Len(windows) = 0
    BY <2>a, <2>m DEF ScanningFull
  <2>1. ScanningShape'
    BY <1>s, <1>t, <2>a, <2>m DEF ScanningShape, Steps
  <2>2. ScanningSignals'
    BY <1>s, <2>a DEF ScanningSignals, LostByForceOnly
  <2>3. ScanningFull'
    BY <1>s, <2>a, <2>f DEF ScanningFull, ScanningSignals
  <2>4. ScanningQuick'
    BY <1>s, <2>m DEF ScanningQuick
  <2> QED BY <2>1, <2>2, <2>3, <2>4
<1>3. CASE ScanHead
  <2>q. settings.mode = "quick" /\ settings.size > 0 /\ windows = <<>>
    BY <1>3, <1>t DEF ScanHead, ScanningShape, ScanningQuick
  <2>p. Part[1] = 0 /\ Part[2] = HeadWindow
    BY <1>3 DEF ScanHead, Part
  <2> DEFINE actual == Smaller(0 + HeadWindow, settings.size) - 0
  <2>a. actual = Smaller(HeadWindow, settings.size) /\ actual > 0
    BY <1>t, <2>q DEF Smaller
  <2>w. /\ windows' \in Seq(Int \X Int) /\ scanned' \in Nat
        /\ \A i \in DOMAIN windows' : IsWindow(windows'[i])
        /\ windows' = Append(windows, <<0, actual>>)
    <3>1. ScanWindow(0, HeadWindow) /\ 0 \in Int /\ HeadWindow \in Int
      BY <1>3, <1>t, <2>p DEF ScanHead
    <3>2. \A i \in DOMAIN windows : IsWindow(windows[i])
      BY <2>q DEF ScanningQuick
    <3> QED BY <2>a, <3>1, <3>2, WindowScanned
  <2>x. windows' # <<>> /\ windows'[1] = <<0, Smaller(HeadWindow, settings.size)>>
    BY <2>a, <2>q, <2>w, <1>t
  <2> HIDE DEF actual
  <2>1. ScanningShape'
    BY <1>3, <1>s, <1>t, <2>q, <2>w DEF ScanHead, ScanningShape, Steps, Free, Unless
  <2>2. ScanningSignals'
    BY <1>3, <1>s, <1>t DEF ScanHead, ScanningShape, Free, ScanningSignals, LostByForceOnly, Unless
  <2>3. ScanningFull'
    BY <1>s, <2>q DEF ScanningFull
  <2>4. ScanningQuick'
    <3>1. at_step' = (IF interrupted THEN "finish" ELSE "tail") /\ interrupted' = interrupted
      BY <1>3 DEF ScanHead, Unless
    <3>2. \A i \in DOMAIN windows' : IsWindow(windows[i])'
      BY <1>s, <2>w DEF IsWindow
    <3> QED BY <1>s, <2>x, <3>1, <3>2 DEF ScanningQuick, ScanningShape, Smaller
  <2> QED BY <2>1, <2>2, <2>3, <2>4
<1> DEFINE Goes == /\ windows' \in Seq(Int \X Int) /\ scanned' \in Nat
                   /\ windows # <<>> => windows' # <<>> /\ windows'[1] = windows[1]
                   /\ (\A i \in DOMAIN windows : IsWindow(windows[i])) =>
                         \A i \in DOMAIN windows' : IsWindow(windows'[i])
                   /\ interrupted' = interrupted /\ signals' = signals /\ handling' = handling
                   /\ kept' = kept /\ ~at_step \in {"stuck", "killed", "start"}
<1>4. ASSUME settings.mode = "quick", at_step \in {"tail", "mft", "rest"}, Goes,
             \/ at_step' \in {"mft", "rest"}
             \/ at_step' = "finish" /\ (interrupted \/ scanned' >= Effective)
      PROVE  ScanningInv'
  <2>q. windows # <<>> /\ \A i \in DOMAIN windows : IsWindow(windows[i])
    BY <1>4 DEF ScanningQuick
  <2>1. ScanningShape'
    BY <1>4, <1>s, <1>t DEF ScanningShape, Steps
  <2>2. ScanningSignals'
    BY <1>4, <1>s DEF ScanningShape, ScanningSignals, LostByForceOnly
  <2>3. ScanningFull'
    BY <1>4, <1>s DEF ScanningFull
  <2>4. ScanningQuick'
    <3>1. \A i \in DOMAIN windows' : IsWindow(windows[i])'
      BY <1>s, <1>4, <2>q DEF IsWindow
    <3>2. at_step' \in {"finish", "done"} /\ ~interrupted' => windows' # <<>> /\ scanned' >= Effective'
      BY <1>e, <1>4, <2>q
    <3>3. windows' # <<>> /\ windows'[1] = windows[1]
      BY <1>4, <2>q
    <3>4. windows[1] = <<0, Smaller(HeadWindow, settings.size)>>
      BY <1>4, <2>q DEF ScanningQuick
    <3>5. at_step' \notin {"start", "head", "done"}
      BY <1>4
    <3> QED BY <1>s, <3>1, <3>2, <3>3, <3>4, <3>5 DEF ScanningQuick, Smaller
  <2> QED BY <2>1, <2>2, <2>3, <2>4
<1>5. ASSUME NEW start \in Int, NEW size \in Int, ScanWindow(start, size),
             at_step \in {"tail", "mft", "rest"},
             UNCHANGED <<interrupted, handling, kept, signals>>
      PROVE  Goes
  BY <1>5, WindowScanned
<1>6. CASE ScanTail
  <2> DEFINE size == TailSize
  <2>1. settings.size \div 4 \in Int  BY <1>t
  <2>2. size \in Int /\ settings.size - size \in Int  BY <1>t, <2>1 DEF TailSize, Smaller
  <2>3. ScanWindow(settings.size - size, size)
    <3>1. Part[1] = settings.size - size /\ Part[2] = size  BY <1>6 DEF ScanTail, Part
    <3> QED BY <1>6, <3>1 DEF ScanTail
  <2>4. /\ at_step = "tail" /\ UNCHANGED <<interrupted, handling, kept, signals>>
        /\ at_step' = IF interrupted THEN "finish" ELSE "mft"
    BY <1>6 DEF ScanTail, Unless
  <2>5. settings.mode = "quick"  BY <1>t, <2>4 DEF ScanningShape
  <2> HIDE DEF size
  <2>6. Goes  BY <1>5, <2>2, <2>3, <2>4
  <2> HIDE DEF Goes
  <2> QED BY <1>4, <2>4, <2>5, <2>6
<1>7. CASE ScanMft
  <2>1. at_step = "mft" /\ UNCHANGED <<interrupted, handling, kept, signals>>
    BY <1>7 DEF ScanMft
  <2>2. at_step' = "rest" \/ (at_step' = "finish" /\ interrupted)
    BY <1>7 DEF ScanMft, Unless
  <2>3. settings.mode = "quick"  BY <1>t, <2>1 DEF ScanningShape
  <2>4. Goes
    <3>1. Part[1] \in Int /\ Part[2] \in Int
      <4>1. CASE HasMft
        BY <1>t, <2>1, <4>1 DEF Part, Smaller
      <4>2. CASE ~HasMft
        BY <2>1, <4>2 DEF Part
      <4> QED BY <4>1, <4>2
    <3>2. ScanWindow(Part[1], Part[2])
      BY <1>7 DEF ScanMft
    <3> HIDE DEF Goes
    <3> QED BY <1>5, <2>1, <3>1, <3>2
  <2> HIDE DEF Goes
  <2> QED BY <1>4, <2>1, <2>2, <2>3, <2>4
<1>8. CASE ScanRest
  <2>1. /\ at_step = "rest" /\ UNCHANGED <<interrupted, handling, kept, signals>>
        /\ at_step' = "finish"
    BY <1>8 DEF ScanRest
  <2>2. settings.mode = "quick" /\ scanned \in Nat  BY <1>t, <2>1 DEF ScanningShape
  <2>3. Goes /\ scanned' >= Effective
    <3> DEFINE remaining == Effective - scanned
    <3>1. remaining \in Int  BY <1>e, <2>2
    <3>2. CASE remaining <= 0
      <4>0. ~(Effective > scanned)  BY <1>e, <2>2, <3>2
      <4>1. UNCHANGED <<windows, scanned>>
        <5>1. Part[1] = 0 /\ Part[2] = 0  BY <2>1, <4>0 DEF Part
        <5>2. Actual(0, 0) <= 0  BY <1>t DEF Actual, Smaller
        <5> QED BY <1>8, <5>1, <5>2 DEF ScanRest, ScanWindow
      <4> QED BY <1>e, <2>1, <2>2, <3>2, <4>1 DEF ScanningShape, IsWindow
    <3>3. CASE remaining > 0
      <4>0. Effective > scanned  BY <1>e, <2>2, <3>3
      <4>1. ScanWindow(scanned, remaining)
        <5>1. Part[1] = scanned /\ Part[2] = remaining  BY <2>1, <4>0 DEF Part
        <5> QED BY <1>8, <5>1 DEF ScanRest
      <4>2. Goes
        <5> HIDE DEF remaining, Goes
        <5> QED BY <1>5, <2>1, <2>2, <3>1, <4>1
      <4>3. scanned + remaining = Effective /\ Smaller(scanned + remaining, settings.size) = Effective
        BY <1>e, <1>t, <2>2 DEF Smaller
      <4>4. Smaller(scanned + remaining, settings.size) - scanned = remaining
        BY <1>e, <2>2, <4>3
      <4> HIDE DEF remaining
      <4>5. scanned' = scanned + remaining
        BY <2>2, <3>1, <3>3, <4>1, <4>4, WindowScanned
      <4> QED BY <1>e, <4>2, <4>3, <4>5
    <3> QED BY <3>1, <3>2, <3>3
  <2> HIDE DEF Goes
  <2> QED BY <1>4, <2>1, <2>2, <2>3
<1>9. CASE FinishScan
  <2>w. UNCHANGED <<windows, scanned, interrupted, handling, signals>> /\ at_step = "finish"
        /\ at_step' = "done" /\ kept' = Len(windows)
    BY <1>9 DEF FinishScan, readVars
  <2>1. ScanningShape'
    BY <2>w, <1>s, <1>t DEF ScanningShape, Steps
  <2>2. ScanningSignals'
    BY <2>w, <1>s DEF ScanningShape, ScanningSignals, LostByForceOnly
  <2>3. ScanningFull'
    BY <2>w, <1>s DEF ScanningFull
  <2>4. ScanningQuick'
    BY <2>w, <1>s, <1>e DEF ScanningQuick, IsWindow, Smaller
  <2> QED BY <2>1, <2>2, <2>3, <2>4
<1>10. CASE Timeout
  <2>w. UNCHANGED <<windows, scanned, handling, signals, at_step, kept>> /\ interrupted'
        /\ at_step \in Steps /\ settings.timeout
    BY <1>10 DEF Timeout, UnderWay, readVars
  <2>1. ScanningShape'
    BY <2>w, <1>s, <1>t, <1>10 DEF ScanningShape, Timeout
  <2>2. ScanningSignals'
    BY <2>w, <1>s, <1>10 DEF ScanningShape, ScanningSignals, LostByForceOnly, Timeout, Steps
  <2>3. ScanningFull'
    BY <2>w, <1>s, <1>10 DEF ScanningFull, Steps
  <2>4. ScanningQuick'
    BY <2>w, <1>s, <1>e, <1>10 DEF ScanningQuick, IsWindow, Smaller, Steps
  <2> QED BY <2>1, <2>2, <2>3, <2>4
<1>11. CASE Signal
  <2>w. UNCHANGED <<windows, scanned, kept>> /\ signals' = signals + 1 /\ (interrupted => interrupted')
        /\ at_step' \in {at_step, "stuck", "killed"}
        /\ (at_step = "start" => settings.size > 0)
        /\ at_step \notin {"finish", "done"}
    BY <1>11 DEF Signal, Installed, UnderWay, Steps, ScanningShape, readVars
  <2>1. ScanningShape'
    <3>0. interrupted \in BOOLEAN /\ handling \in 0..1
      BY DEF ScanningShape
    <3>1. handling' \in 0..1 /\ interrupted' \in BOOLEAN
      <4>1. UNCHANGED <<interrupted, handling>> \/ (interrupted' = TRUE /\ handling' = 1)
        BY <1>11 DEF Signal
      <4>2. CASE UNCHANGED <<interrupted, handling>>
        BY <3>0, <4>2
      <4>3. CASE interrupted' = TRUE /\ handling' = 1
        <5>1. interrupted' \in BOOLEAN  BY <4>3, Zenon
        <5>2. handling' \in 0..1  BY <4>3
        <5> QED BY <5>1, <5>2
      <4> QED BY <4>1, <4>2, <4>3
    <3>2. at_step \notin {"start", "empty"} \/ at_step = "start"
      BY <1>11 DEF Signal, Installed, UnderWay, Steps
    <3> QED BY <2>w, <1>s, <1>t, <3>1, <3>2 DEF ScanningShape
  <2>2. ScanningSignals'
    BY <2>w, <1>s, <1>t, <1>11 DEF ScanningShape, ScanningSignals, LostByForceOnly, Signal, Installed, UnderWay, Steps
  <2>3. ScanningFull'
    BY <2>w, <1>s DEF ScanningFull, ScanningShape
  <2>4. ScanningQuick'
    BY <2>w, <1>s, <1>e DEF ScanningQuick, IsWindow, Smaller, ScanningShape
  <2> QED BY <2>1, <2>2, <2>3, <2>4
<1>12. CASE SignalReturns
  <2>w. UNCHANGED <<windows, scanned, kept, at_step, interrupted, signals>> /\ handling' = 0 /\ handling' \in 0..1
        /\ at_step \notin {"finish", "done", "stuck", "killed"}
    BY <1>12 DEF SignalReturns, Installed, UnderWay, Steps, ScanningShape, readVars
  <2>1. ScanningShape'
    BY <2>w, <1>s, <1>t DEF ScanningShape
  <2>2. ScanningSignals'
    BY <2>w, <1>s DEF ScanningSignals, LostByForceOnly
  <2>3. ScanningFull'
    BY <2>w, <1>s DEF ScanningFull
  <2>4. ScanningQuick'
    BY <2>w, <1>s, <1>e DEF ScanningQuick, IsWindow, Smaller
  <2> QED BY <2>1, <2>2, <2>3, <2>4
<1>13. CASE UNCHANGED scanningVars \/ ReadChunk
  <2>w. UNCHANGED <<settings, at_step, windows, scanned, interrupted, handling, kept, signals>>
    BY <1>13 DEF scanningVars, ReadChunk
  <2>1. ScanningShape'
    BY <2>w DEF ScanningShape
  <2>2. ScanningSignals'
    BY <2>w DEF ScanningSignals, LostByForceOnly
  <2>3. ScanningFull'
    BY <2>w DEF ScanningFull
  <2>4. ScanningQuick'
    BY <2>w, <1>e DEF ScanningQuick, IsWindow, Smaller
  <2> QED BY <2>1, <2>2, <2>3, <2>4
<1> QED BY <1>1, <1>2, <1>3, <1>6, <1>7, <1>8, <1>9, <1>10, <1>11, <1>12, <1>13, <1>14 DEF ScanningNext

\* What a scan that ends has kept (cli/commands/scan.py, core/scanning/strategy.py):
\* what its scanners found, and nothing only if Ctrl+C was pressed or the mapping
\* failed when the time was over; a quick scan nobody interrupts counts the bytes it
\* was asked for; no command is killed or waits for itself without the presses that
\* KeepsWhatItFound, QuickCoversSize and LostByForceOnly name.
LEMMA ScanningKeeps == ScanningSpec => []ScanningKept
<1>1. ScanningInv => ScanningKept
  <2> SUFFICES ASSUME ScanningInv PROVE ScanningKept
    OBVIOUS
  <2> USE DEF ScanningInv
  <2>t. settings.mode \in {"quick", "full"} /\ windows \in Seq(Int \X Int) /\ Len(windows) \in Nat
    BY SettingShape DEF ScanningShape
  <2>1. KeepsWhatItFound
    <3>1. windows = <<>> <=> Len(windows) = 0  BY <2>t
    <3>2. CASE settings.mode = "full"
      BY <2>t, <3>1, <3>2 DEF KeepsWhatItFound, ScanningFull
    <3>3. CASE settings.mode = "quick"
      BY <2>t, <3>1, <3>3 DEF KeepsWhatItFound, ScanningQuick
    <3> QED BY <2>t, <3>2, <3>3
  <2>2. QuickCoversSize
    BY DEF QuickCoversSize, ScanningQuick, IsWindow
  <2>3. LostByForceOnly
    BY DEF ScanningSignals
  <2> QED BY <2>1, <2>2, <2>3 DEF ScanningKept
<1> QED BY <1>1, ScanningInitInv, ScanningNextInv, PTL DEF ScanningSpec

\* After the flag is set, by Ctrl+C or by --max-time, no scanner is started but the
\* two that core/scanning/strategy.py and mmap_scanner.py start without asking: that
\* of the rest of an image without an MFT, and the loop that replaces a mapping.
LEMMA ScanningStopsBetween == ScanningSpec => StopsBetweenScanners
<1> DEFINE Allowed ==
      (interrupted /\ at_step' \in Steps /\ at_step' # at_step) =>
        \/ at_step = "mft" /\ at_step' = "rest" /\ ~HasMft
        \/ at_step = "mmap" /\ at_step' = "streaming" /\ settings.mmap = "falls"
<1>1. ASSUME ScanningNext PROVE Allowed
  <2> USE DEF Steps
  <2>1. CASE StartScan
    BY <2>1 DEF StartScan
  <2>2. CASE ReadChunk \/ Timeout \/ SignalReturns
    BY <2>2 DEF ReadChunk, Timeout, SignalReturns
  <2>3. CASE ScanAgain
    BY <2>3 DEF ScanAgain, MapFails
  <2>4. CASE ScanAll \/ ScanRest \/ FinishScan
    BY <2>4 DEF ScanAll, ScanRest, FinishScan
  <2>5. CASE ScanHead \/ ScanTail
    BY <2>5 DEF ScanHead, ScanTail, Unless
  <2>6. CASE ScanMft
    BY <2>6 DEF ScanMft, Unless
  <2>7. CASE Signal
    BY <2>7 DEF Signal
  <2> QED BY <1>1, <2>1, <2>2, <2>3, <2>4, <2>5, <2>6, <2>7 DEF ScanningNext
<1>2. [ScanningNext]_scanningVars => [Allowed]_scanningVars
  BY <1>1
<1>3. [][ScanningNext]_scanningVars => [][Allowed]_scanningVars
  BY <1>2, PTL
<1> QED BY <1>3 DEF ScanningSpec, StopsBetweenScanners

\* A scan that comes to its end has kept what its scanners found and counted what it
\* was asked for, it is lost by force only, and no scanner is started once the flag
\* is set, but where core/scanning/strategy.py does not ask for it.
THEOREM ScanningWhole == ScanningSpec => ScanningRight
<1> QED BY ScanningKeeps, ScanningStopsBetween DEF ScanningRight

-----------------------------------------------------------------------------
(* The forensic index (Index).                                                 *)

\* The statements of a call.
Script(id) == Statements(id, Request(id))
\* What is stored are rows of calls, and a count for each hash.
IsStore(s) ==
  /\ s = [rows |-> s.rows, hashes |-> s.hashes] /\ s.hashes \in [Shas -> Nat]
  /\ \A r \in s.rows : r.call \in DOMAIN calls

\* A call that writes rows is at statement k of its script, and its connection
\* sees what the statements before it have put.
RowStage(c, k) ==
  /\ todo[c] = SubSeq(Script(call[c]), k, Len(Script(call[c])))
  /\ \A j \in 1..(k - 1) : Script(call[c])[j].op = "insert" => Script(call[c])[j].rows \subseteq Seen(c).rows

\* The statements of a call that indexes a hash, and where it may be in them.
HashStep(op, h) == [op |-> op, sha |-> h]
HashStage(c, h) ==
  todo[c] \in {<<HashStep("lookup", h)>>, <<HashStep("ignore", h), Commit>>,
               <<HashStep("count", h), Commit>>, <<Commit>>}

\* A connection that is in a call is somewhere in its statements.
InCall(c) ==
  /\ call[c] \in DOMAIN calls \ returned /\ calls[call[c]].by = c
  /\ Request(call[c]).kind = "hash" => HashStage(c, Request(call[c]).sha)
  /\ Request(call[c]).kind # "hash" => \E k \in DOMAIN Script(call[c]) : RowStage(c, k)

\* Shape of the state, and where every call is in its statements.
IndexShape ==
  /\ calls \in Seq([by : Conns, request : Requests]) /\ returned \subseteq DOMAIN calls
  /\ writer \in Conns \union {NoConn} /\ carried \in BOOLEAN
  /\ call \in [Conns -> Nat] /\ failed \in [Conns -> BOOLEAN] /\ users \in [Conns -> Nat]
  /\ DOMAIN todo = Conns /\ IsStore(disk) /\ IsStore(view)
  /\ \A c \in Conns : todo[c] # <<>> => InCall(c)

\* The second part of a call is in a table only with the first.
SecondPart(rows) ==
  \A id \in DOMAIN calls :
      /\ Row("timelines", id, 1) \in rows => Events(id) \subseteq rows
      /\ Row("files", id, 1) \in rows => Row("artifacts", id, 1) \in rows

\* The writer sees all that is committed, and what is committed is complete.
IndexStored ==
  /\ writer # NoConn => disk.rows \subseteq view.rows /\ SecondPart(view.rows)
  /\ ReturnedIsStored /\ SecondPart(disk.rows)

\* A transaction holds the rows of one call, while nobody goes on after a failure.
IndexWhole ==
  /\ ~carried => \A c \in Conns : failed[c] => todo[c] = <<>>
  /\ writer # NoConn => call[writer] \in DOMAIN calls
  /\ ~carried /\ writer # NoConn => view.rows \subseteq disk.rows \union RowsOf(call[writer])
  /\ WholeCalls /\ LockIsReleased

\* A connection has counted a hash and not committed, or is about to insert it.
Counting(c, h) ==
  todo[c] = <<Commit>> /\ Request(call[c]).kind = "hash" /\ Request(call[c]).sha = h
Absent(c, h) ==
  /\ todo[c] = <<HashStep("ignore", h), Commit>>
  /\ Request(call[c]).kind = "hash" /\ Request(call[c]).sha = h
\* The calls that indexed a hash and returned; all of one process.
Done(h) == HashCalls(h) \intersect returned
OneProcess(h) == \A i, j \in HashCalls(h) : calls[i].by = calls[j].by

\* What a hash is counted in the transaction and in the file.
CountedIn(h) ==
  /\ writer # NoConn =>
        \/ view.hashes[h] = disk.hashes[h]
        \/ Counting(writer, h) /\ view.hashes[h] = disk.hashes[h] + 1
  /\ \A c \in Conns : Counting(c, h) => writer = c /\ view.hashes[h] > 0
  /\ disk.hashes[h] <= Cardinality(Done(h))
  /\ Done(h) # {} => disk.hashes[h] > 0
  /\ OneProcess(h) =>
        /\ disk.hashes[h] = Cardinality(Done(h))
        /\ \A c \in Conns : Counting(c, h) => view.hashes[h] = disk.hashes[h] + 1
        /\ \A c \in Conns : Absent(c, h) => Seen(c).hashes[h] = 0
\* The counts of all hashes.
IndexCounted == \A h \in Shas : CountedIn(h)

\* The invariant of the index.
IndexInv == IndexShape /\ IndexStored /\ IndexWhole /\ IndexCounted

-----------------------------------------------------------------------------
(* The statements of a call that writes rows.                                  *)

\* The rows of a call and the statements on them.
Tables == {"events", "timelines", "artifacts", "files"}
RowsOfCall(id) == [table : Tables, call : {id}, n : Nat]
Operations(id) == [op : {"insert"}, rows : SUBSET RowsOfCall(id), ok : BOOLEAN] \union {Commit}

\* A statement inserts a row; one of the statements before j does.
Puts(op, r) == op.op = "insert" /\ r \in op.rows
Before(S, j, r) == \E i \in 1..(j - 1) : Puts(S[i], r)

\* It ends with a commit; its events are put before the first one, and before the
\* row of the timeline; its artifact is put before its file.
IsScript(S, id) ==
  /\ S \in Seq(Operations(id)) /\ S # <<>> /\ S[Len(S)] = Commit
  /\ \A j \in DOMAIN S : \A r :
        /\ (\E i \in DOMAIN S : Puts(S[i], r)) /\ r.table = "events"
        /\ S[j].op = "commit" \/ Puts(S[j], Row("timelines", id, 1))
        => Before(S, j, r)
  /\ \A j \in DOMAIN S : Puts(S[j], Row("files", id, 1)) => Before(S, j, Row("artifacts", id, 1))

\* A single row and its statement are ones of the call.
LEMMA RowIn ==
  \A id \in Nat, table \in Tables, n \in Nat :
         /\ Row(table, id, n) \in RowsOfCall(id)
         /\ Row(table, id, n).table = table
         /\ Insert({Row(table, id, n)}, TRUE) \in Operations(id) /\ Commit \in Operations(id)
         /\ \A r : Puts(Insert({Row(table, id, n)}, TRUE), r) <=> r = Row(table, id, n)
<1> TAKE id \in Nat, table \in Tables, n \in Nat
<1>1. Row(table, id, n) \in RowsOfCall(id) /\ Row(table, id, n).table = table
  BY DEF Row, RowsOfCall
<1> DEFINE rows == {Row(table, id, n)}
<1>2. rows \in SUBSET RowsOfCall(id)  BY <1>1
<1> HIDE DEF rows
<1>3. Insert(rows, TRUE) \in Operations(id) /\ Insert(rows, TRUE).op = "insert" /\ Insert(rows, TRUE).rows = rows
  BY <1>2 DEF Insert, Operations
<1>4. \A r : Puts(Insert(rows, TRUE), r) <=> r \in rows
  BY <1>3 DEF Puts
<1> QED BY <1>1, <1>3, <1>4 DEF rows, Operations

\* A commit inserts nothing.
LEMMA CommitPuts == Commit.op = "commit" /\ \A r : ~Puts(Commit, r)
BY DEF Commit, Puts

\* Inserts of events, and a commit.
IsBulk(S, m, id) ==
  /\ S \in Seq(Operations(id)) /\ Len(S) = m + 1 /\ S[m + 1] = Commit
  /\ \A i \in 1..m : S[i].op = "insert" /\ \A r \in S[i].rows : r.table = "events"
\* index_events inserts batch by batch and commits once, at the end, however many rows
\* there are and wherever one is refused.
LEMMA BulkRight ==
  ASSUME NEW id \in Nat, NEW n \in Nat, NEW batch \in Nat \ {0}, NEW bad \in 0..n
  PROVE  \E m \in Nat : IsBulk(BulkInsert("events", id, n, batch, bad), m, id)
<1> DEFINE m == (n + batch - 1) \div batch
           least(a, b) == IF a <= b THEN a ELSE b
           part(i) == ((i - 1) * batch) + 1 .. least(i * batch, n)
           put(i) == {Row("events", id, k) : k \in {j \in part(i) : bad = 0 \/ j < bad}}
           F == [i \in 1..m |-> Insert(put(i), bad \notin part(i))]
           S == BulkInsert("events", id, n, batch, bad)
<1>1. m \in Nat
  <2>1. n + batch - 1 \in Nat /\ batch \in Nat /\ batch > 0  OBVIOUS
  <2> QED BY <2>1
<1>2. S = Append(F, Commit)
  BY DEF BulkInsert
<1>3. \A i \in 1..m : part(i) \subseteq Nat
  <2> SUFFICES ASSUME NEW i \in 1..m PROVE part(i) \subseteq Nat
    OBVIOUS
  <2>1. i - 1 \in Nat /\ batch \in Nat  BY <1>1
  <2>2. (i - 1) * batch \in Nat  BY <2>1
  <2>3. i * batch \in Nat  BY <2>1, <1>1
  <2> HIDE DEF m
  <2>4. least(i * batch, n) \in Nat  BY <2>3
  <2> QED BY <2>2, <2>4
<1>4. \A i \in 1..m : put(i) \in SUBSET RowsOfCall(id) /\ \A r \in put(i) : r.table = "events"
  <2>1. "events" \in Tables  BY DEF Tables
  <2>2. \A i \in 1..m : \A k \in part(i) : Row("events", id, k) \in RowsOfCall(id) /\ Row("events", id, k).table = "events"
    <3> HIDE DEF part, m
    <3> QED BY <1>3, <2>1, RowIn
  <2> HIDE DEF part, m
  <2> QED BY <2>2
<1>5. \A i \in 1..m : F[i] \in Operations(id) /\ F[i].op = "insert" /\ F[i].rows = put(i)
  <2> SUFFICES ASSUME NEW i \in 1..m
               PROVE  F[i] \in Operations(id) /\ F[i].op = "insert" /\ F[i].rows = put(i)
    OBVIOUS
  <2> DEFINE ok == bad \notin part(i)
             rows == put(i)
  <2>1. F[i] = Insert(rows, ok)  OBVIOUS
  <2>2. ok \in BOOLEAN  OBVIOUS
  <2>3. rows \in SUBSET RowsOfCall(id)  BY <1>4
  <2> HIDE DEF ok, F, rows
  <2>4. F[i] \in Operations(id) /\ F[i].op = "insert" /\ F[i].rows = rows
    BY <2>1, <2>2, <2>3 DEF Insert, Operations
  <2> QED BY <2>4 DEF rows
<1>6. F \in Seq(Operations(id)) /\ Len(F) = m
  <2> HIDE DEF put, part, m
  <2>1. DOMAIN F = 1..m  OBVIOUS
  <2> HIDE DEF F
  <2>2. F \in [1..m -> Operations(id)]
    <3>1. F = [i \in 1..m |-> F[i]]  BY DEF F
    <3> QED BY <1>5, <3>1
  <2> QED BY <1>1, <2>1, <2>2
<1>7. Commit \in Operations(id)
  BY DEF Operations
<1> HIDE DEF F, m, put, S
<1>8. /\ S \in Seq(Operations(id)) /\ Len(S) = m + 1 /\ S[m + 1] = Commit
      /\ \A i \in 1..m : S[i] = F[i]
  <2> DEFINE O == Operations(id)
  <2>1. F \in Seq(O) /\ Commit \in O  BY <1>6, <1>7
  <2> HIDE DEF O
  <2>2. /\ Append(F, Commit) \in Seq(O) /\ Len(Append(F, Commit)) = Len(F) + 1
        /\ Append(F, Commit)[Len(F) + 1] = Commit
        /\ \A i \in 1..Len(F) : Append(F, Commit)[i] = F[i]
    BY <2>1
  <2> QED BY <1>2, <1>6, <2>2 DEF O
<1>9. \A i \in 1..m : S[i].op = "insert" /\ \A r \in S[i].rows : r.table = "events"
  BY <1>4, <1>5, <1>8
<1>10. IsBulk(S, m, id)
  BY <1>8, <1>9 DEF IsBulk
<1> QED BY <1>1, <1>10 DEF S

\* Whatever is asked for, the statements insert rows of the call and end in the only
\* commit; the first part of a call with two comes before the second.
LEMMA ScriptRight ==
  ASSUME NEW id \in Nat, NEW q \in Requests, q.kind # "hash"
  PROVE  IsScript(Statements(id, q), id)
<1> DEFINE S == Statements(id, q)
           B == BulkInsert("events", id, q.rows, q.batch, q.bad)
<1>0. q.kind \in {"events", "timeline", "artifact"} /\ "events" \in Tables /\ "timelines" \in Tables
      /\ "files" \in Tables /\ "artifacts" \in Tables
  BY IndexAssumption DEF Tables
<1>r. \A t \in Tables : /\ Row(t, id, 1).table = t
                        /\ Insert({Row(t, id, 1)}, TRUE) \in Operations(id) /\ Commit \in Operations(id)
                        /\ \A r : Puts(Insert({Row(t, id, 1)}, TRUE), r) <=> r = Row(t, id, 1)
  <2> TAKE t \in Tables
  <2>1. 1 \in Nat  OBVIOUS
  <2>2. \A n \in Nat : /\ Row(t, id, n).table = t
                       /\ Insert({Row(t, id, n)}, TRUE) \in Operations(id) /\ Commit \in Operations(id)
                       /\ \A r : Puts(Insert({Row(t, id, n)}, TRUE), r) <=> r = Row(t, id, n)
    BY RowIn, Zenon
  <2> QED BY <2>1, <2>2, Zenon
<1>b. ASSUME q.kind \in {"events", "timeline"}
      PROVE  \E m \in Nat : IsBulk(B, m, id)
  <2>1. q.rows \in Nat /\ q.batch \in Nat \ {0} /\ q.bad \in 0..q.rows
    BY <1>b, IndexAssumption
  <2> QED BY <2>1, BulkRight
<1>1. CASE q.kind = "events"
  <2>1. S = B  BY <1>1 DEF Statements
  <2> HIDE DEF S, B
  <2>p. PICK m \in Nat : IsBulk(B, m, id)
    BY <1>b, <1>1
  <2>2. /\ B \in Seq(Operations(id)) /\ Len(B) = m + 1 /\ B[m + 1] = Commit
        /\ \A i \in 1..m : B[i].op = "insert" /\ \A r \in B[i].rows : r.table = "events"
    BY <2>p DEF IsBulk
  <2>3. \A i \in 1..m : \A t \in Tables \ {"events"} : ~Puts(B[i], Row(t, id, 1))
    <3>1. ASSUME NEW i \in 1..m, NEW t \in Tables \ {"events"} PROVE ~Puts(B[i], Row(t, id, 1))
      <4>1. Row(t, id, 1).table = t /\ t # "events"
        BY <1>r
      <4>2. B[i].op = "insert" /\ Row(t, id, 1) \notin B[i].rows
        BY <2>2, <4>1
      <4> QED BY <4>2 DEF Puts
    <3> QED BY <3>1
  <2>4. \A i \in DOMAIN B : i \in 1..m \/ i = m + 1
    BY <2>2
  <2>5. \A i \in DOMAIN B : \A t \in Tables \ {"events"} : ~Puts(B[i], Row(t, id, 1))
    BY <2>2, <2>3, <2>4, CommitPuts
  <2>6. ASSUME NEW j \in DOMAIN B, NEW r, \E i \in DOMAIN B : Puts(B[i], r), B[j].op = "commit"
        PROVE  Before(B, j, r)
    <3>1. PICK i \in DOMAIN B : Puts(B[i], r)  BY <2>6
    <3>2. i \in 1..m  BY <2>2, <2>4, <3>1, CommitPuts
    <3>3. j = m + 1  BY <2>2, <2>4, <2>6
    <3>4. j - 1 = m  BY <3>3
    <3> QED BY <3>1, <3>2, <3>4 DEF Before
  <2>7. IsScript(B, id)
    BY <1>0, <2>2, <2>5, <2>6 DEF IsScript
  <2> QED BY <2>1, <2>7 DEF S
<1>2. CASE q.kind = "timeline"
  <2> DEFINE I == Insert({Row("timelines", id, 1)}, TRUE)
  <2>1. S = B \o <<I, Commit>>  BY <1>2 DEF Statements, One
  <2>i. I \in Operations(id) /\ Commit \in Operations(id) /\ \A r : Puts(I, r) <=> r = Row("timelines", id, 1)
    BY <1>0, <1>r
  <2>o. I.op = "insert"  BY DEF Insert
  <2> HIDE DEF S, B, I
  <2>p. PICK m \in Nat : IsBulk(B, m, id)
    BY <1>b, <1>2
  <2>2. /\ B \in Seq(Operations(id)) /\ Len(B) = m + 1 /\ B[m + 1] = Commit
        /\ \A i \in 1..m : B[i].op = "insert" /\ \A r \in B[i].rows : r.table = "events"
    BY <2>p DEF IsBulk
  <2>3. /\ S \in Seq(Operations(id)) /\ Len(S) = m + 3 /\ DOMAIN S = 1..(m + 3)
        /\ \A i \in 1..(m + 1) : S[i] = B[i]
    BY <2>1, <2>2, <2>i
  <2>4. S[m + 2] = I /\ S[m + 3] = Commit
    BY <2>1, <2>2, <2>i
  <2>5. \A i \in DOMAIN S : i \in 1..m \/ i = m + 1 \/ i = m + 2 \/ i = m + 3
    BY <2>3
  <2>6. \A i \in 1..m : S[i] = B[i] /\ S[m + 1] = Commit
    BY <2>2, <2>3
  <2>7. \A i \in 1..m : S[i].op = "insert" /\ \A t \in Tables \ {"events"} : ~Puts(S[i], Row(t, id, 1))
    <3>1. \A i \in 1..m : S[i].op = "insert" /\ \A r \in S[i].rows : r.table = "events"
      BY <2>2, <2>6
    <3>2. \A t \in Tables \ {"events"} : Row(t, id, 1).table # "events"
      BY <1>r
    <3> QED BY <3>1, <3>2 DEF Puts
  <2>8. S[m + 1] = Commit
    BY <2>2, <2>3
  <2>9. ASSUME NEW j \in DOMAIN S, NEW r, \E i \in DOMAIN S : Puts(S[i], r), r.table = "events",
               S[j].op = "commit" \/ Puts(S[j], Row("timelines", id, 1))
        PROVE  Before(S, j, r)
    <3>1. PICK i \in DOMAIN S : Puts(S[i], r)  BY <2>9
    <3>2. i # m + 2  BY <1>0, <2>4, <2>9, <2>i, <3>1, <1>r
    <3>3. i \in 1..m  BY <2>4, <2>5, <2>8, <3>1, <3>2, CommitPuts
    <3>4. j \notin 1..m  BY <1>0, <2>7, <2>9
    <3>5. i \in 1..(j - 1)  BY <2>5, <3>3, <3>4
    <3> QED BY <3>1, <3>5 DEF Before
  <2>10. ASSUME NEW j \in DOMAIN S PROVE ~Puts(S[j], Row("files", id, 1))
    <3>1. CASE j \in 1..m  BY <1>0, <2>7, <3>1
    <3>2. CASE j = m + 2
      <4>1. Row("files", id, 1) # Row("timelines", id, 1)  BY DEF Row
      <4> QED BY <2>4, <2>i, <3>2, <4>1
    <3>3. CASE j = m + 1 \/ j = m + 3  BY <2>4, <2>8, <3>3, CommitPuts
    <3> QED BY <2>5, <3>1, <3>2, <3>3
  <2>11. S # <<>> /\ S[Len(S)] = Commit
    BY <2>3, <2>4
  <2>12. IsScript(S, id)
    BY <2>3, <2>9, <2>10, <2>11 DEF IsScript
  <2> QED BY <2>12 DEF S
<1>3. CASE q.kind = "artifact"
  <2> DEFINE I == Insert({Row("artifacts", id, 1)}, TRUE)
             J == Insert({Row("files", id, 1)}, TRUE)
  <2>1. S = <<I, Commit>> \o <<J, Commit>>  BY <1>3 DEF Statements, One
  <2>2. /\ I \in Operations(id) /\ J \in Operations(id) /\ Commit \in Operations(id)
        /\ \A r : Puts(I, r) <=> r = Row("artifacts", id, 1)
        /\ \A r : Puts(J, r) <=> r = Row("files", id, 1)
    BY <1>0, <1>r
  <2>o. I.op = "insert" /\ J.op = "insert"  BY DEF Insert
  <2> HIDE DEF S, B, I, J
  <2>3. /\ S \in Seq(Operations(id)) /\ Len(S) = 4 /\ S[1] = I /\ S[2] = Commit /\ S[3] = J /\ S[4] = Commit
    BY <2>1, <2>2
  <2>4. \A i \in DOMAIN S : i \in {1, 2, 3, 4}
    BY <2>3
  <2>5. Row("artifacts", id, 1).table # "events" /\ Row("files", id, 1).table # "events"
        /\ Row("artifacts", id, 1) # Row("files", id, 1)
    BY DEF Row
  <2>6. \A r : (\E i \in DOMAIN S : Puts(S[i], r)) => r.table # "events"
    BY <2>2, <2>3, <2>4, <2>5, CommitPuts
  <2>7. ASSUME NEW j \in DOMAIN S, Puts(S[j], Row("files", id, 1))
        PROVE  Before(S, j, Row("artifacts", id, 1))
    <3>1. j = 3  BY <2>2, <2>3, <2>4, <2>5, <2>7, CommitPuts
    <3>2. 1 \in 1..(j - 1)  BY <3>1
    <3> QED BY <2>2, <2>3, <3>2 DEF Before
  <2>8. S # <<>> /\ S[Len(S)] = Commit
    BY <2>3
  <2>9. IsScript(S, id)
    BY <2>3, <2>6, <2>7, <2>8 DEF IsScript
  <2> QED BY <2>9 DEF S
<1> QED BY <1>0, <1>1, <1>2, <1>3

-----------------------------------------------------------------------------
(* Where a call is.                                                            *)

\* The rows of a call are those that its statements insert.
LEMMA RowsOfRight ==
  ASSUME NEW id
  PROVE  \A r : r \in RowsOf(id) <=> \E i \in DOMAIN Script(id) : Puts(Script(id)[i], r)
<1>1. \A r : r \in RowsOf(id) <=> \E s \in Range(Script(id)) : s.op = "insert" /\ r \in s.rows
  BY DEF RowsOf, Script
<1>2. \A r : (\E s \in Range(Script(id)) : s.op = "insert" /\ r \in s.rows)
             <=> \E i \in DOMAIN Script(id) : Puts(Script(id)[i], r)
  BY DEF Range, Puts
<1> QED BY <1>1, <1>2

\* What is known of a call that was made.
LEMMA CallKnown ==
  ASSUME IndexShape, NEW id \in DOMAIN calls
  PROVE  /\ id \in Nat /\ Request(id) \in Requests /\ calls[id].by \in Conns
         /\ Request(id).kind \in {"events", "timeline", "artifact", "hash"}
         /\ Request(id).kind # "hash" => IsScript(Script(id), id)
         /\ Request(id).kind = "hash" => RowsOf(id) = {} /\ Request(id).sha \in Shas
         /\ \A r \in RowsOf(id) : r.call = id
<1>1. id \in Nat /\ Request(id) \in Requests /\ calls[id].by \in Conns
  <2> DEFINE T == [by : Conns, request : Requests]
  <2>1. calls \in Seq(T)  BY DEF IndexShape
  <2>2. \A t : t \in T => t.by \in Conns /\ t.request \in Requests  OBVIOUS
  <2> HIDE DEF T
  <2>3. id \in 1..Len(calls) /\ Len(calls) \in Nat /\ calls[id] \in T  BY <2>1
  <2> QED BY <2>2, <2>3 DEF Request
<1>2. Request(id).kind \in {"events", "timeline", "artifact", "hash"}
  BY <1>1, IndexAssumption
<1>3. Request(id).kind # "hash" => IsScript(Script(id), id)
  BY <1>1, ScriptRight DEF Script
<1>4. ASSUME Request(id).kind = "hash" PROVE RowsOf(id) = {} /\ Request(id).sha \in Shas
  <2> DEFINE op == [op |-> "lookup", sha |-> Request(id).sha]
  <2>1. Script(id) = <<op>>  BY <1>4 DEF Script, Statements
  <2>2. \A r : ~Puts(op, r)  BY DEF Puts
  <2> HIDE DEF op
  <2>3. \A i \in DOMAIN Script(id) : Script(id)[i] = op  BY <2>1
  <2> QED BY <1>1, <1>4, <2>2, <2>3, RowsOfRight, IndexAssumption
<1>5. ASSUME NEW r \in RowsOf(id) PROVE r.call = id
  <2>1. PICK i \in DOMAIN Script(id) : Puts(Script(id)[i], r)
    BY <1>5, RowsOfRight
  <2>2. IsScript(Script(id), id)
    BY <1>3, <1>4, <1>5
  <2>3. Script(id)[i] \in Operations(id)
    BY <2>1, <2>2 DEF IsScript
  <2>4. Script(id)[i].rows \in SUBSET RowsOfCall(id)
    BY <2>1, <2>3, CommitPuts DEF Operations, Puts, Commit
  <2> QED BY <2>1, <2>4 DEF Puts, RowsOfCall
<1> QED BY <1>1, <1>2, <1>3, <1>4, <1>5

\* The rest of a sequence from a place on.
LEMMA RestFrom ==
  ASSUME NEW T, NEW S \in Seq(T), NEW k \in DOMAIN S
  PROVE  LET rest == SubSeq(S, k, Len(S)) IN
         /\ rest \in Seq(T) /\ rest # <<>> /\ Head(rest) = S[k]
         /\ Tail(rest) = SubSeq(S, k + 1, Len(S)) /\ Tail(rest) \in Seq(T)
         /\ Tail(rest) = <<>> <=> k = Len(S)
<1> DEFINE n == Len(S)
           rest == SubSeq(S, k, n)
           next == SubSeq(S, k + 1, n)
<1>1. n \in Nat /\ k \in 1..n /\ \A i \in 1..n : S[i] \in T
  OBVIOUS
<1>2. /\ rest \in Seq(T) /\ Len(rest) = n - k + 1
      /\ \A i \in 1..(n - k + 1) : rest[i] = S[k + i - 1]
  BY <1>1
<1>3. /\ next \in Seq(T) /\ Len(next) = n - k
      /\ \A i \in 1..(n - k) : next[i] = S[k + i]
  BY <1>1
<1> HIDE DEF rest, next, n
<1>4. rest # <<>> /\ Head(rest) = S[k]
  <2>1. Len(rest) > 0 /\ 1 \in 1..(n - k + 1) /\ k + 1 - 1 = k  BY <1>1, <1>2
  <2>2. Head(rest) = rest[1]  OBVIOUS
  <2> QED BY <1>2, <2>1, <2>2
<1>5. /\ Tail(rest) \in Seq(T) /\ Len(Tail(rest)) = n - k
      /\ \A i \in 1..(n - k) : Tail(rest)[i] = rest[i + 1]
  BY <1>1, <1>2, <1>4
<1>6. \A i \in 1..(n - k) : Tail(rest)[i] = next[i]
  <2> TAKE i \in 1..(n - k)
  <2>1. i + 1 \in 1..(n - k + 1) /\ k + (i + 1) - 1 = k + i  BY <1>1
  <2> QED BY <1>2, <1>3, <1>5, <2>1
<1>7. Tail(rest) = next
  BY <1>1, <1>3, <1>5, <1>6
<1>8. Tail(rest) = <<>> <=> k = n
  <2>0. \A t \in Seq(T) : (t = <<>> <=> Len(t) = 0)  OBVIOUS
  <2>1. Tail(rest) = <<>> <=> Len(Tail(rest)) = 0  BY <1>5, <2>0
  <2>2. n - k = 0 <=> k = n  BY <1>1
  <2> QED BY <1>5, <2>1, <2>2
<1> QED BY <1>2, <1>3, <1>4, <1>7, <1>8 DEF rest, next, n

\* A call of a hash is at one of four places.
LEMMA HashCall ==
  ASSUME IndexShape, NEW c \in Conns, todo[c] # <<>>, Request(call[c]).kind = "hash"
  PROVE  LET h == Request(call[c]).sha IN
         /\ Head(todo[c]).op \in {"lookup", "ignore", "count", "commit"}
         /\ Head(todo[c]).op = "lookup" =>
               todo[c] = <<HashStep("lookup", h)>> /\ Head(todo[c]).sha = h /\ Tail(todo[c]) = <<>>
         /\ \A op \in {"ignore", "count"} : Head(todo[c]).op = op =>
               todo[c] = <<HashStep(op, h), Commit>> /\ Head(todo[c]).sha = h /\ Tail(todo[c]) = <<Commit>>
         /\ Head(todo[c]).op = "commit" => todo[c] = <<Commit>> /\ Tail(todo[c]) = <<>>
<1> DEFINE h == Request(call[c]).sha
<1>1. todo[c] \in {<<HashStep("lookup", h)>>, <<HashStep("ignore", h), Commit>>,
                   <<HashStep("count", h), Commit>>, <<Commit>>}
  BY DEF IndexShape, InCall, HashStage
<1>2. \A x : Head(<<x>>) = x /\ Tail(<<x>>) = <<>>
  OBVIOUS
<1>3. \A x, y : Head(<<x, y>>) = x /\ Tail(<<x, y>>) = <<y>>
  OBVIOUS
<1>4. \A op : HashStep(op, h).op = op /\ HashStep(op, h).sha = h
  BY DEF HashStep
<1>5. Commit.op = "commit"
  BY DEF Commit
<1> HIDE DEF h
<1>6. CASE todo[c] = <<HashStep("lookup", h)>>
  BY <1>2, <1>4, <1>6 DEF h
<1>7. CASE todo[c] = <<HashStep("ignore", h), Commit>>
  BY <1>3, <1>4, <1>7 DEF h
<1>8. CASE todo[c] = <<HashStep("count", h), Commit>>
  BY <1>3, <1>4, <1>8 DEF h
<1>9. CASE todo[c] = <<Commit>>
  BY <1>2, <1>5, <1>9 DEF h
<1> QED BY <1>1, <1>6, <1>7, <1>8, <1>9

\* A call of rows is at a place of its script.
LEMMA RowCall ==
  ASSUME IndexShape, NEW c \in Conns, todo[c] # <<>>, Request(call[c]).kind # "hash"
  PROVE  \E k \in DOMAIN Script(call[c]) :
         /\ RowStage(c, k) /\ Head(todo[c]) = Script(call[c])[k]
         /\ Head(todo[c]) \in Operations(call[c]) /\ Head(todo[c]).op \in {"insert", "commit"}
         /\ Tail(todo[c]) = SubSeq(Script(call[c]), k + 1, Len(Script(call[c])))
         /\ Tail(todo[c]) \in Seq(Operations(call[c]))
         /\ Tail(todo[c]) = <<>> <=> k = Len(Script(call[c]))
         /\ Head(todo[c]).op = "insert" =>
               /\ k # Len(Script(call[c])) /\ Head(todo[c]).rows \subseteq RowsOf(call[c])
               /\ Head(todo[c]).ok \in BOOLEAN
         /\ Head(todo[c]).op = "commit" => Head(todo[c]) = Commit
<1> DEFINE id == call[c]
           S == Script(id)
<1>1. id \in DOMAIN calls /\ \E k \in DOMAIN S : RowStage(c, k)
  BY DEF IndexShape, InCall
<1>2. IsScript(S, id)
  BY <1>1, CallKnown
<1>3. PICK k \in DOMAIN S : RowStage(c, k)
  BY <1>1
<1>4. todo[c] = SubSeq(S, k, Len(S))
  BY <1>3 DEF RowStage
<1>5. S \in Seq(Operations(id)) /\ S[Len(S)] = Commit
  BY <1>2 DEF IsScript
<1> HIDE DEF S
<1>6. /\ Head(todo[c]) = S[k]
      /\ Tail(todo[c]) = SubSeq(S, k + 1, Len(S)) /\ Tail(todo[c]) \in Seq(Operations(id))
      /\ Tail(todo[c]) = <<>> <=> k = Len(S)
  <2>1. S \in Seq(Operations(id)) /\ k \in DOMAIN S
    BY <1>5
  <2>2. /\ Head(SubSeq(S, k, Len(S))) = S[k]
        /\ Tail(SubSeq(S, k, Len(S))) = SubSeq(S, k + 1, Len(S))
        /\ Tail(SubSeq(S, k, Len(S))) \in Seq(Operations(id))
        /\ Tail(SubSeq(S, k, Len(S))) = <<>> <=> k = Len(S)
    BY <2>1, RestFrom
  <2> QED BY <1>4, <2>2
<1>7. S[k] \in Operations(id)
  BY <1>5
<1>8. S[k].op \in {"insert", "commit"} /\ (S[k].op = "insert" => S[k].ok \in BOOLEAN) /\ (S[k].op = "commit" => S[k] = Commit)
  <2>1. CASE S[k] = Commit  BY <2>1 DEF Commit
  <2>2. CASE S[k] \in [op : {"insert"}, rows : SUBSET RowsOfCall(id), ok : BOOLEAN]  BY <2>2
  <2> QED BY <1>7, <2>1, <2>2 DEF Operations
<1>9. S[k].op = "insert" => k # Len(S)
  BY <1>5 DEF Commit
<1>10. S[k].op = "insert" => S[k].rows \subseteq RowsOf(id)
  BY RowsOfRight DEF S, Puts
<1> QED BY <1>3, <1>6, <1>7, <1>8, <1>9, <1>10 DEF S

-----------------------------------------------------------------------------
(* What every step leaves alone.                                               *)

\* Calls are only added.
CallsGrow ==
  /\ calls' \in Seq([by : Conns, request : Requests])
  /\ \A id \in DOMAIN calls : id \in DOMAIN calls' /\ calls'[id] = calls[id]

\* A call that was made stays what it is.
LEMMA Grown ==
  ASSUME CallsGrow, NEW id \in DOMAIN calls
  PROVE  /\ Request(id)' = Request(id) /\ Script(id)' = Script(id)
         /\ RowsOf(id)' = RowsOf(id) /\ Events(id)' = Events(id)
<1>1. Request(id)' = Request(id)
  BY DEF CallsGrow, Request
<1>2. Script(id)' = Script(id)
  BY <1>1 DEF Script
<1>3. RowsOf(id)' = RowsOf(id)
  BY <1>1 DEF RowsOf
<1>4. Events(id)' = Events(id)
  BY <1>3 DEF Events
<1> QED BY <1>1, <1>2, <1>3, <1>4

\* What a connection may do to the store: nothing, write in its own transaction, or end
\* that transaction.
StoreStep(c) ==
  \/ UNCHANGED storeVars
  \/ writer \in {NoConn, c} /\ writer' = c /\ disk' = disk
  \/ writer = c /\ writer' = NoConn /\ view' = NoRows /\ disk' \in {disk, view}

\* A step of one connection.
Acts(c) ==
  \/ Open(c) \/ Close(c) \/ Die(c) \/ InsertRows(c) \/ Lookup(c) \/ InsertHash(c) \/ CountHash(c)
  \/ CommitAll(c) \/ \E q \in Requests : Ask(c, q)

\* Every step is one of some connection.
LEMMA StepActs == IndexNext => \E c \in Conns : Acts(c)
BY DEF IndexNext, IndexStep, Locked, Acts

\* What a step of a connection leaves to the others.
Frame(c) ==
  /\ CallsGrow /\ StoreStep(c)
  /\ DOMAIN todo' = Conns /\ call' \in [Conns -> Nat] /\ failed' \in [Conns -> BOOLEAN]
  /\ users' \in [Conns -> Nat] /\ carried' \in BOOLEAN
  /\ \A d \in Conns \ {c} : todo'[d] = todo[d] /\ call'[d] = call[d] /\ failed'[d] = failed[d]
  /\ returned \subseteq returned' /\ returned' \subseteq DOMAIN calls'
  /\ \A id \in returned' \ returned : id = call[c] /\ todo[c] # <<>>

\* No connection disturbs the calls of another.
LEMMA FrameRight ==
  ASSUME IndexShape, NEW c \in Conns, Acts(c)
  PROVE  Frame(c)
<1>1. CallsGrow
  <2>1. CASE UNCHANGED calls
    BY <2>1 DEF CallsGrow, IndexShape
  <2>2. ASSUME NEW q \in Requests, Ask(c, q) PROVE CallsGrow
    <3> DEFINE new == [by |-> c, request |-> q]
    <3>1. new \in [by : Conns, request : Requests] /\ calls' = Append(calls, new)
      BY <2>2 DEF Ask
    <3> HIDE DEF new
    <3>2. calls \in Seq([by : Conns, request : Requests])
      BY DEF IndexShape
    <3>3. /\ Append(calls, new) \in Seq([by : Conns, request : Requests])
          /\ Len(Append(calls, new)) = Len(calls) + 1
          /\ \A id \in 1..Len(calls) : Append(calls, new)[id] = calls[id]
      BY <3>1, <3>2, AppendProperties
    <3>4. Len(calls) \in Nat /\ DOMAIN calls = 1..Len(calls)
      BY <3>2, LenProperties
    <3>5. DOMAIN calls' = 1..(Len(calls) + 1) /\ 1..Len(calls) \subseteq 1..(Len(calls) + 1)
      BY <3>1, <3>3, <3>4, LenProperties
    <3> QED BY <3>1, <3>3, <3>4, <3>5 DEF CallsGrow
  <2> QED BY <2>1, <2>2 DEF Acts, Open, Close, Die, InsertRows, Lookup, InsertHash, CountHash, CommitAll
<1>2. StoreStep(c)
  BY DEF StoreStep, Acts, Open, Close, Die, RollBack, InsertRows, Lookup, InsertHash, CountHash, CommitAll,
     Ask, storeVars
<1>3. DOMAIN todo' = Conns /\ \A d \in Conns \ {c} : todo'[d] = todo[d]
  BY DEF IndexShape, Acts, Open, Close, Die, InsertRows, Lookup, InsertHash, CountHash, CommitAll, Ask, Advance, Fail
<1>4. call' \in [Conns -> Nat] /\ \A d \in Conns \ {c} : call'[d] = call[d]
  <2>1. CASE UNCHANGED call
    BY <2>1 DEF IndexShape
  <2>2. CASE call' = [call EXCEPT ![c] = Len(calls) + 1]
    <3>1. Len(calls) + 1 \in Nat  BY DEF IndexShape
    <3> QED BY <2>2, <3>1 DEF IndexShape
  <2> QED BY <2>1, <2>2 DEF Acts, Open, Close, Die, InsertRows, Lookup, InsertHash, CountHash, CommitAll, Ask
<1>5. failed' \in [Conns -> BOOLEAN] /\ \A d \in Conns \ {c} : failed'[d] = failed[d]
  <2>1. failed' = failed \/ failed' = [failed EXCEPT ![c] = TRUE] \/ failed' = [failed EXCEPT ![c] = FALSE]
    BY DEF Acts, Open, Close, Die, InsertRows, Lookup, InsertHash, CountHash, CommitAll, Ask, Fail
  <2> QED BY <2>1 DEF IndexShape
<1>6. users' \in [Conns -> Nat]
  <2>0. users[c] \in Nat  BY DEF IndexShape
  <2>1. users' = users \/ users' = [users EXCEPT ![c] = @ + 1] \/ users' = [users EXCEPT ![c] = 0]
        \/ (users[c] > 0 /\ users' = [users EXCEPT ![c] = @ - 1])
    BY DEF Acts, Open, Close, Die, InsertRows, Lookup, InsertHash, CountHash, CommitAll, Ask
  <2>2. users[c] + 1 \in Nat /\ (users[c] > 0 => users[c] - 1 \in Nat)  BY <2>0
  <2> QED BY <2>1, <2>2 DEF IndexShape
<1>7. carried' \in BOOLEAN
  <2>1. carried' = carried \/ carried' = (carried \/ failed[c])
    BY DEF Acts, Open, Close, Die, InsertRows, Lookup, InsertHash, CountHash, CommitAll, Ask
  <2> QED BY <2>1 DEF IndexShape
<1>8. returned' = returned \/ (todo[c] # <<>> /\ returned' = returned \union {call[c]})
  BY DEF Acts, Open, Close, Die, InsertRows, Lookup, InsertHash, CountHash, CommitAll, Ask, Advance, Fail, Next1
<1>9. returned' \subseteq DOMAIN calls'
  BY <1>1, <1>8 DEF IndexShape, InCall, CallsGrow
<1> QED BY <1>1, <1>2, <1>3, <1>4, <1>5, <1>6, <1>7, <1>8, <1>9 DEF Frame

-----------------------------------------------------------------------------
(* What every step does.                                                       *)

\* What the other connections see.
LEMMA SeenKept ==
  ASSUME NEW c \in Conns, NEW d \in Conns \ {c}, StoreStep(c),
         writer # NoConn => disk.rows \subseteq view.rows
  PROVE  /\ Seen(d).rows \subseteq Seen(d)'.rows
         /\ disk' = disk => Seen(d)' = Seen(d)
         /\ writer # d => Seen(d) = disk /\ Seen(d)' = disk'
<1>1. c \in Conns /\ d \in Conns /\ d # c /\ NoConn \notin Conns
  BY IndexAssumption
<1>2. CASE UNCHANGED storeVars
  BY <1>2 DEF storeVars, Seen
<1>3. CASE writer \in {NoConn, c} /\ writer' = c /\ disk' = disk
  BY <1>1, <1>3 DEF Seen
<1>4. CASE writer = c /\ writer' = NoConn /\ view' = NoRows /\ disk' \in {disk, view}
  BY <1>1, <1>4 DEF Seen
<1> QED BY <1>2, <1>3, <1>4 DEF StoreStep

\* A batch is put into the transaction; with a row that is refused the call fails.
LEMMA InsertStep ==
  ASSUME IndexShape, NEW c \in Conns, InsertRows(c)
  PROVE  \E k \in DOMAIN Script(call[c]) : LET S == Script(call[c]) IN
         /\ Request(call[c]).kind # "hash" /\ call[c] \in DOMAIN calls \ returned /\ todo[c] # <<>>
         /\ RowStage(c, k) /\ k # Len(S) /\ S[k].op = "insert" /\ S[k].rows \subseteq RowsOf(call[c])
         /\ UNCHANGED <<disk, users, call, calls, carried, returned>> /\ writer \in {NoConn, c}
         /\ \/ UNCHANGED <<writer, view>>
            \/ /\ writer' = c
               /\ view' = [rows |-> Seen(c).rows \union S[k].rows, hashes |-> Seen(c).hashes]
         /\ Seen(c)' = [rows |-> Seen(c).rows \union S[k].rows, hashes |-> Seen(c).hashes]
         /\ \/ todo'[c] = <<>> /\ failed'[c] = TRUE
            \/ todo'[c] = SubSeq(S, k + 1, Len(S)) /\ todo'[c] # <<>> /\ failed' = failed
<1> DEFINE S == Script(call[c])
<1>1. todo[c] # <<>> /\ Head(todo[c]).op = "insert" /\ writer \in {NoConn, c}
  BY DEF InsertRows, Next1
<1>2. Request(call[c]).kind # "hash" /\ call[c] \in DOMAIN calls \ returned
  BY <1>1, HashCall DEF IndexShape, InCall
<1>3. PICK k \in DOMAIN S :
         /\ RowStage(c, k) /\ Head(todo[c]) = S[k]
         /\ Tail(todo[c]) = SubSeq(S, k + 1, Len(S))
         /\ Tail(todo[c]) \in Seq(Operations(call[c]))
         /\ Tail(todo[c]) = <<>> <=> k = Len(S)
         /\ k # Len(S) /\ S[k].rows \subseteq RowsOf(call[c])
  BY <1>1, <1>2, RowCall
<1> HIDE DEF S
<1>4. UNCHANGED <<disk, users, call, calls, carried>>
  BY DEF InsertRows
<1>5. Seen(c) = [rows |-> Seen(c).rows, hashes |-> Seen(c).hashes]
  BY DEF IndexShape, IsStore, Seen
<1>6. ASSUME S[k].rows # {}
      PROVE  writer' = c /\ view' = [rows |-> Seen(c).rows \union S[k].rows, hashes |-> Seen(c).hashes]
  <2>1. writer' = c /\ view' = [Seen(c) EXCEPT !.rows = @ \cup S[k].rows]
    BY <1>3, <1>6 DEF InsertRows
  <2> QED BY <1>5, <2>1
<1>7. S[k].rows = {} => UNCHANGED <<writer, view>>
  BY <1>3 DEF InsertRows
<1>8. Seen(c)' = [rows |-> Seen(c).rows \union S[k].rows, hashes |-> Seen(c).hashes]
  <2>1. CASE S[k].rows = {}
    <3>1. Seen(c)' = Seen(c)  BY <1>4, <1>7, <2>1 DEF Seen
    <3> QED BY <1>5, <2>1, <3>1
  <2>2. CASE S[k].rows # {}
    BY <1>6, <2>2 DEF Seen
  <2> QED BY <2>1, <2>2
<1>9. \/ todo'[c] = <<>> /\ failed'[c] = TRUE /\ returned' = returned
      \/ todo'[c] = SubSeq(S, k + 1, Len(S)) /\ todo'[c] # <<>> /\ failed' = failed /\ returned' = returned
  <2>1. CASE Fail(c)
    BY <2>1 DEF Fail, IndexShape
  <2>2. CASE Advance(c, <<>>) /\ UNCHANGED failed
    <3>1. <<>> \o Tail(todo[c]) = Tail(todo[c])  BY <1>3
    <3>2. todo' = [todo EXCEPT ![c] = Tail(todo[c])]
          /\ returned' = (IF Tail(todo[c]) = <<>> THEN returned \union {call[c]} ELSE returned)
      BY <2>2, <3>1 DEF Advance
    <3>3. todo'[c] = Tail(todo[c])  BY <3>2 DEF IndexShape
    <3> QED BY <1>3, <2>2, <3>2, <3>3
  <2> QED BY <2>1, <2>2 DEF InsertRows
<1> QED BY <1>1, <1>2, <1>3, <1>4, <1>6, <1>7, <1>8, <1>9 DEF S

\* The hash is looked for.
LEMMA LookupStep ==
  ASSUME IndexShape, NEW c \in Conns, Lookup(c)
  PROVE  LET h == Request(call[c]).sha IN
         /\ call[c] \in DOMAIN calls \ returned /\ Request(call[c]).kind = "hash"
         /\ todo[c] = <<HashStep("lookup", h)>>
         /\ todo'[c] = <<HashStep(IF Seen(c).hashes[h] > 0 THEN "count" ELSE "ignore", h), Commit>>
         /\ UNCHANGED <<storeVars, users, call, failed, calls, carried, returned>>
<1> DEFINE h == Request(call[c]).sha
           step == IF Seen(c).hashes[h] > 0 THEN "count" ELSE "ignore"
<1>1. todo[c] # <<>> /\ Head(todo[c]).op = "lookup"
  BY DEF Lookup, Next1
<1>2. call[c] \in DOMAIN calls \ returned
  BY <1>1 DEF IndexShape, InCall
<1>3. Request(call[c]).kind = "hash"
  BY <1>1, RowCall
<1>4. todo[c] = <<HashStep("lookup", h)>> /\ Head(todo[c]).sha = h /\ Tail(todo[c]) = <<>>
  BY <1>1, <1>3, HashCall
<1>5. Advance(c, <<HashStep(step, h), Commit>>)
  BY <1>4 DEF Lookup, HashStep
<1> HIDE DEF h, step
<1>6. <<HashStep(step, h), Commit>> \o <<>> = <<HashStep(step, h), Commit>>
  OBVIOUS
<1>7. todo'[c] = <<HashStep(step, h), Commit>> /\ returned' = returned
  <2>1. todo' = [todo EXCEPT ![c] = <<HashStep(step, h), Commit>>] /\ returned' = returned
    BY <1>4, <1>5, <1>6 DEF Advance
  <2> QED BY <2>1 DEF IndexShape
<1> QED BY <1>2, <1>3, <1>4, <1>7 DEF h, step, Lookup

\* The hash is put or counted, in the transaction.
LEMMA BumpStep ==
  ASSUME IndexShape, NEW c \in Conns, InsertHash(c) \/ CountHash(c)
  PROVE  \E op \in {"ignore", "count"} : LET h == Request(call[c]).sha IN
         /\ call[c] \in DOMAIN calls \ returned /\ Request(call[c]).kind = "hash" /\ h \in Shas
         /\ todo[c] = <<HashStep(op, h), Commit>> /\ todo'[c] = <<Commit>>
         /\ writer \in {NoConn, c} /\ writer' = c
         /\ view' = [rows |-> Seen(c).rows, hashes |-> [Seen(c).hashes EXCEPT ![h] =
                       IF op = "ignore" /\ Seen(c).hashes[h] # 0 THEN Seen(c).hashes[h]
                       ELSE Seen(c).hashes[h] + 1]]
         /\ UNCHANGED <<disk, users, call, failed, calls, carried, returned>>
<1> DEFINE h == Request(call[c]).sha
<1>1. PICK op \in {"ignore", "count"} : /\ todo[c] # <<>> /\ Head(todo[c]).op = op
                                        /\ op = "ignore" => InsertHash(c)
                                        /\ op = "count" => CountHash(c)
  BY DEF InsertHash, CountHash, Next1
<1>2. call[c] \in DOMAIN calls \ returned
  BY <1>1 DEF IndexShape, InCall
<1>3. Request(call[c]).kind = "hash"
  BY <1>1, RowCall
<1>4. todo[c] = <<HashStep(op, h), Commit>> /\ Head(todo[c]).sha = h /\ Tail(todo[c]) = <<Commit>>
  BY <1>1, <1>3, HashCall
<1>5. h \in Shas
  BY <1>2, <1>3, CallKnown
<1>6. Seen(c) = [rows |-> Seen(c).rows, hashes |-> Seen(c).hashes] /\ Seen(c).hashes \in [Shas -> Nat]
  BY DEF IndexShape, IsStore, Seen
<1> HIDE DEF h
<1>7. view' = [rows |-> Seen(c).rows, hashes |-> [Seen(c).hashes EXCEPT ![h] =
                       IF op = "ignore" /\ Seen(c).hashes[h] # 0 THEN Seen(c).hashes[h]
                       ELSE Seen(c).hashes[h] + 1]]
  <2>1. CASE op = "ignore"
    <3>1. view' = [Seen(c) EXCEPT !.hashes[h] = IF @ = 0 THEN 1 ELSE @]
      BY <1>1, <1>4, <2>1 DEF InsertHash
    <3>2. view' = [rows |-> Seen(c).rows, hashes |-> [Seen(c).hashes EXCEPT ![h] =
                       IF Seen(c).hashes[h] = 0 THEN 1 ELSE Seen(c).hashes[h]]]
      BY <1>6, <3>1
    <3>3. (IF Seen(c).hashes[h] = 0 THEN 1 ELSE Seen(c).hashes[h]) =
          (IF op = "ignore" /\ Seen(c).hashes[h] # 0 THEN Seen(c).hashes[h] ELSE Seen(c).hashes[h] + 1)
      BY <1>5, <1>6, <2>1
    <3> QED BY <3>2, <3>3
  <2>2. CASE op = "count"
    <3>1. view' = [Seen(c) EXCEPT !.hashes[h] = @ + 1]
      BY <1>1, <1>4, <2>2 DEF CountHash
    <3>2. view' = [rows |-> Seen(c).rows, hashes |-> [Seen(c).hashes EXCEPT ![h] = Seen(c).hashes[h] + 1]]
      BY <1>6, <3>1
    <3> QED BY <2>2, <3>2
  <2> QED BY <2>1, <2>2
<1>8. <<>> \o <<Commit>> = <<Commit>> /\ <<Commit>> # <<>>
  OBVIOUS
<1>9. todo'[c] = <<Commit>> /\ returned' = returned
  <2>1. Advance(c, <<>>)  BY <1>1 DEF InsertHash, CountHash
  <2>2. todo' = [todo EXCEPT ![c] = <<Commit>>] /\ returned' = returned
    BY <1>4, <1>8, <2>1 DEF Advance
  <2> QED BY <2>2 DEF IndexShape
<1>10. writer \in {NoConn, c} /\ writer' = c /\ UNCHANGED <<disk, users, call, failed, calls, carried>>
  BY DEF InsertHash, CountHash
<1> QED BY <1>2, <1>3, <1>4, <1>5, <1>7, <1>9, <1>10 DEF h

\* What the connection has seen is in the file; the call goes on or returns.
LEMMA CommitStep ==
  ASSUME IndexShape, NEW c \in Conns, CommitAll(c)
  PROVE  /\ call[c] \in DOMAIN calls \ returned /\ todo[c] # <<>>
         /\ disk' = Seen(c) /\ Seen(c)' = Seen(c) /\ writer' # c
         /\ \/ UNCHANGED storeVars /\ writer # c
            \/ writer = c /\ disk' = view /\ view' = NoRows /\ writer' = NoConn
         /\ UNCHANGED <<users, call, failed, calls, carried>>
         /\ returned' = IF todo'[c] = <<>> THEN returned \union {call[c]} ELSE returned
         /\ Request(call[c]).kind = "hash" => todo[c] = <<Commit>> /\ todo'[c] = <<>>
         /\ Request(call[c]).kind # "hash" => \E k \in DOMAIN Script(call[c]) :
              /\ RowStage(c, k) /\ Script(call[c])[k] = Commit
              /\ todo'[c] = SubSeq(Script(call[c]), k + 1, Len(Script(call[c])))
              /\ todo'[c] = <<>> <=> k = Len(Script(call[c]))
<1> DEFINE S == Script(call[c])
<1>1. todo[c] # <<>> /\ Head(todo[c]).op = "commit"
  BY DEF CommitAll, Next1
<1>2. call[c] \in DOMAIN calls \ returned
  BY <1>1 DEF IndexShape, InCall
<1>3. \/ UNCHANGED storeVars /\ writer # c
      \/ writer = c /\ disk' = view /\ view' = NoRows /\ writer' = NoConn
  BY DEF CommitAll
<1>4. disk' = Seen(c) /\ Seen(c)' = Seen(c) /\ writer' # c
  BY <1>3, IndexAssumption DEF Seen, storeVars
<1>5. ASSUME <<>> \o Tail(todo[c]) = Tail(todo[c])
      PROVE  /\ todo'[c] = Tail(todo[c])
             /\ returned' = IF todo'[c] = <<>> THEN returned \union {call[c]} ELSE returned
  <2>1. todo' = [todo EXCEPT ![c] = Tail(todo[c])]
        /\ returned' = (IF Tail(todo[c]) = <<>> THEN returned \union {call[c]} ELSE returned)
    BY <1>5 DEF CommitAll, Advance
  <2>2. todo'[c] = Tail(todo[c])  BY <2>1 DEF IndexShape
  <2> QED BY <2>1, <2>2
<1>6. UNCHANGED <<users, call, failed, calls, carried>>
  BY DEF CommitAll
<1>7. CASE Request(call[c]).kind = "hash"
  <2>1. todo[c] = <<Commit>> /\ Tail(todo[c]) = <<>>
    BY <1>1, <1>7, HashCall
  <2>2. <<>> \o Tail(todo[c]) = Tail(todo[c])
    BY <2>1
  <2> QED BY <1>1, <1>2, <1>3, <1>4, <1>5, <1>6, <1>7, <2>1, <2>2
<1>8. CASE Request(call[c]).kind # "hash"
  <2>1. PICK k \in DOMAIN S :
         /\ RowStage(c, k) /\ S[k] = Commit
         /\ Tail(todo[c]) = SubSeq(S, k + 1, Len(S))
         /\ Tail(todo[c]) \in Seq(Operations(call[c]))
         /\ Tail(todo[c]) = <<>> <=> k = Len(S)
    BY <1>1, <1>8, RowCall
  <2>2. <<>> \o Tail(todo[c]) = Tail(todo[c])
    BY <2>1
  <2> HIDE DEF S
  <2> QED BY <1>1, <1>2, <1>3, <1>4, <1>5, <1>6, <1>8, <2>1, <2>2 DEF S
<1> QED BY <1>7, <1>8

\* A new call starts at its first statement.
LEMMA AskStep ==
  ASSUME IndexShape, NEW c \in Conns, NEW q \in Requests, Ask(c, q)
  PROVE  /\ todo[c] = <<>> /\ CallsGrow /\ call'[c] = Len(calls) + 1
         /\ DOMAIN calls' = DOMAIN calls \union {Len(calls) + 1} /\ Len(calls) + 1 \notin DOMAIN calls
         /\ calls'[Len(calls) + 1] = [by |-> c, request |-> q]
         /\ todo'[c] = Statements(Len(calls) + 1, q)
         /\ carried' = (carried \/ failed[c])
         /\ UNCHANGED <<storeVars, users, failed, returned>>
<1> DEFINE new == [by |-> c, request |-> q]
<1>1. new \in [by : Conns, request : Requests] /\ calls' = Append(calls, new)
  BY DEF Ask
<1>2. todo[c] = <<>> /\ call'[c] = Len(calls) + 1 /\ todo'[c] = Statements(Len(calls) + 1, q)
      /\ carried' = (carried \/ failed[c]) /\ UNCHANGED <<storeVars, users, failed, returned>>
  BY DEF Ask, IndexShape
<1> HIDE DEF new
<1>3. /\ CallsGrow /\ DOMAIN calls' = DOMAIN calls \union {Len(calls) + 1}
      /\ Len(calls) + 1 \notin DOMAIN calls /\ calls'[Len(calls) + 1] = new
  <2> DEFINE T == [by : Conns, request : Requests]
  <2>1. calls \in Seq(T) /\ new \in T  BY <1>1 DEF IndexShape
  <2> HIDE DEF T
  <2>2. /\ calls' \in Seq(T) /\ Len(calls') = Len(calls) + 1 /\ Len(calls) \in Nat
        /\ calls'[Len(calls) + 1] = new /\ \A id \in 1..Len(calls) : calls'[id] = calls[id]
    BY <1>1, <2>1
  <2>3. DOMAIN calls = 1..Len(calls) /\ DOMAIN calls' = 1..(Len(calls) + 1)
    BY <2>1, <2>2
  <2>4. \A i : i \in 1..(Len(calls) + 1) <=> (i \in 1..Len(calls) \/ i = Len(calls) + 1)
    BY <2>2
  <2>5. DOMAIN calls' = DOMAIN calls \union {Len(calls) + 1} /\ Len(calls) + 1 \notin DOMAIN calls
    BY <2>2, <2>3, <2>4
  <2> QED BY <2>2, <2>3, <2>5 DEF CallsGrow, T
<1> QED BY <1>2, <1>3 DEF new

\* A connection is opened, closed or lost.
LEMMA QuietStep ==
  ASSUME IndexShape, NEW c \in Conns, Open(c) \/ Close(c) \/ Die(c)
  PROVE  /\ todo'[c] = <<>> /\ UNCHANGED <<disk, calls, returned, carried, call>>
         /\ \/ UNCHANGED storeVars /\ todo[c] = <<>> /\ failed' = failed
            \/ UNCHANGED storeVars /\ writer # c
            \/ writer = c /\ writer' = NoConn /\ view' = NoRows
BY DEF Open, Close, Die, RollBack, storeVars, IndexShape

\* The steps of a connection, by what the lemmas above say of them.
LEMMA ActCases ==
  ASSUME NEW c, Acts(c)
  PROVE  \/ Open(c) \/ Close(c) \/ Die(c) \/ InsertRows(c) \/ Lookup(c) \/ CommitAll(c)
         \/ InsertHash(c) \/ CountHash(c) \/ \E q \in Requests : Ask(c, q)
BY DEF Acts

\* Every step keeps where the calls are and what the stores are.
LEMMA IndexShapeNext ==
  ASSUME IndexShape, IndexStored, NEW c \in Conns, Acts(c)
  PROVE  IndexShape'
<1>0. Frame(c)
  BY FrameRight
<1>1. writer' \in Conns \union {NoConn}
  BY <1>0 DEF Frame, StoreStep, IndexShape, storeVars
<1>2. IsStore(disk)' /\ IsStore(view)'
  <2> DEFINE Is(s) == /\ s = [rows |-> s.rows, hashes |-> s.hashes] /\ s.hashes \in [Shas -> Nat]
                      /\ \A r \in s.rows : r.call \in DOMAIN calls'
  <2>1. Is(disk) /\ Is(view)
    BY <1>0 DEF IndexShape, IsStore, Frame, CallsGrow
  <2>2. Is(NoRows)
    BY DEF NoRows
  <2>3. Is(Seen(c))
    BY <2>1 DEF Seen
  <2>4. Is(disk')
    BY <1>0, <2>1 DEF Frame, StoreStep, storeVars
  <2>5. Is(view')
    <3>1. CASE view' \in {view, NoRows}
      BY <2>1, <2>2, <3>1
    <3>2. CASE InsertRows(c)
      <4>1. PICK k \in DOMAIN Script(call[c]) :
               /\ call[c] \in DOMAIN calls /\ Script(call[c])[k].rows \subseteq RowsOf(call[c])
               /\ \/ UNCHANGED <<writer, view>>
                  \/ view' = [rows |-> Seen(c).rows \union Script(call[c])[k].rows, hashes |-> Seen(c).hashes]
        BY <3>2, InsertStep
      <4>2. \A r \in Script(call[c])[k].rows : r.call \in DOMAIN calls'
        BY <1>0, <4>1, CallKnown DEF Frame, CallsGrow
      <4> QED BY <2>1, <2>3, <4>1, <4>2
    <3>3. CASE InsertHash(c) \/ CountHash(c)
      <4> DEFINE h == Request(call[c]).sha
      <4>1. PICK op \in {"ignore", "count"} :
               /\ h \in Shas
               /\ view' = [rows |-> Seen(c).rows, hashes |-> [Seen(c).hashes EXCEPT ![h] =
                       IF op = "ignore" /\ Seen(c).hashes[h] # 0 THEN Seen(c).hashes[h]
                       ELSE Seen(c).hashes[h] + 1]]
        BY <3>3, BumpStep
      <4> QED BY <2>3, <4>1
    <3> QED BY <3>1, <3>2, <3>3 DEF Acts, Open, Close, Die, RollBack, Lookup, CommitAll, Ask, storeVars
  <2> QED BY <2>4, <2>5 DEF IsStore
<1>3. ASSUME NEW d \in Conns, d # c, todo'[d] # <<>>
      PROVE  InCall(d)'
  <2>1. InCall(d) /\ call'[d] = call[d] /\ todo'[d] = todo[d]
    BY <1>0, <1>3 DEF IndexShape, Frame
  <2>2. call[d] \in DOMAIN calls \ returned /\ calls[call[d]].by = d
    BY <2>1 DEF InCall
  <2>3. call'[d] \in DOMAIN calls' /\ calls'[call'[d]].by = d
    BY <1>0, <2>1, <2>2 DEF Frame, CallsGrow
  <2>4. call'[d] \notin returned'
    <3>1. call[d] \notin returned  BY <2>2
    <3>2. ASSUME call[d] \in returned' PROVE FALSE
      <4>1. call[d] = call[c] /\ todo[c] # <<>>  BY <1>0, <3>1, <3>2 DEF Frame
      <4>2. calls[call[c]].by = c  BY <4>1 DEF IndexShape, InCall
      <4> QED BY <1>3, <2>2, <4>1, <4>2
    <3> QED BY <2>1, <3>2
  <2>5. Request(call[d])' = Request(call[d]) /\ Script(call[d])' = Script(call[d])
    <3> DEFINE id == call[d]
    <3>1. Request(id)' = calls'[id'].request /\ id' = id
      BY <2>1 DEF Request
    <3>2. Request(id)' = Request(id)
      BY <1>0, <2>2, <3>1 DEF Request, Frame, CallsGrow
    <3> QED BY <3>1, <3>2 DEF Script
  <2>6. Seen(d).rows \subseteq Seen(d)'.rows
    BY <1>0, <1>3, SeenKept DEF Frame, IndexStored
  <2>7. Request(call[d]).kind = "hash" => HashStage(d, Request(call[d]).sha)'
    BY <2>1, <2>5 DEF InCall, HashStage
  <2>8. \A k \in DOMAIN Script(call[d]) : RowStage(d, k) => RowStage(d, k)'
    BY <2>1, <2>5, <2>6 DEF RowStage
  <2> QED BY <2>1, <2>3, <2>4, <2>5, <2>7, <2>8 DEF InCall
<1>4. ASSUME todo'[c] # <<>>
      PROVE  InCall(c)'
  <2> DEFINE id == call[c]
             S == Script(id)
  <2>0. ASSUME UNCHANGED <<calls, call, returned>>, todo[c] # <<>>
        PROVE  /\ id' = id /\ id \in DOMAIN calls \ returned /\ calls'[id'].by = c /\ id' \in DOMAIN calls' \ returned'
               /\ Request(id)' = Request(id) /\ Script(id)' = Script(id)
    BY <2>0 DEF IndexShape, InCall, Request, Script
  <2>1. ASSUME UNCHANGED <<calls, call, returned>>, todo[c] # <<>>, Request(id).kind = "hash",
               HashStage(c, Request(id).sha)'
        PROVE  InCall(c)'
    BY <2>0, <2>1 DEF InCall
  <2>2. CASE Open(c) \/ Close(c) \/ Die(c)
    BY <1>4, <2>2, QuietStep
  <2>3. CASE InsertRows(c)
    <3>1. PICK k \in DOMAIN S :
         /\ Request(id).kind # "hash" /\ todo[c] # <<>>
         /\ RowStage(c, k) /\ k # Len(S) /\ S[k].op = "insert"
         /\ UNCHANGED <<call, calls, returned>>
         /\ Seen(c)' = [rows |-> Seen(c).rows \union S[k].rows, hashes |-> Seen(c).hashes]
         /\ todo'[c] = SubSeq(S, k + 1, Len(S))
      BY <1>4, <2>3, InsertStep
    <3>2. id' = id /\ id' \in DOMAIN calls' \ returned' /\ calls'[id'].by = c /\ Request(id)' = Request(id)
          /\ Script(id)' = Script(id) /\ id \in DOMAIN calls
      BY <2>0, <3>1
    <3>3. IsScript(S, id)
      BY <3>1, <3>2, CallKnown
    <3>4. k \in 1..Len(S) /\ Len(S) \in Nat
      BY <3>3 DEF IsScript
    <3>5. k + 1 \in DOMAIN S
      BY <3>1, <3>3, <3>4 DEF IsScript
    <3>6. ASSUME NEW j \in 1..k, S[j].op = "insert" PROVE S[j].rows \subseteq Seen(c)'.rows
      <4>1. CASE j = k  BY <3>1, <4>1
      <4>2. CASE j # k
        <5>1. j \in 1..(k - 1)  BY <3>4, <4>2
        <5>2. S[j].rows \subseteq Seen(c).rows  BY <3>1, <3>6, <5>1 DEF RowStage
        <5> QED BY <3>1, <5>2
      <4> QED BY <4>1, <4>2
    <3>7. k + 1 - 1 = k  BY <3>4
    <3> DEFINE n == k + 1
    <3>8. n - 1 = k /\ n \in DOMAIN S
      <4>1. n \in DOMAIN S  BY <3>5
      <4>2. n - 1 = k  BY <3>4
      <4> QED BY <4>1, <4>2
    <3>9. todo'[c] = SubSeq(S, n, Len(S))  BY <3>1
    <3> HIDE DEF n
    <3>10. RowStage(c, n)'
      BY <3>2, <3>6, <3>8, <3>9 DEF RowStage
    <3> QED BY <3>1, <3>2, <3>8, <3>10 DEF InCall
  <2>4. CASE Lookup(c)
    <3>1. HashStage(c, Request(id).sha)'
      <4>1. UNCHANGED <<calls, call>>  BY <2>4, LookupStep
      <4>2. (Request(id).sha)' = Request(id).sha  BY <4>1 DEF Request
      <4>3. todo'[c] \in {<<HashStep("ignore", Request(id).sha), Commit>>, <<HashStep("count", Request(id).sha), Commit>>}
        BY <2>4, LookupStep
      <4> QED BY <4>2, <4>3 DEF HashStage
    <3>2. todo[c] # <<>> /\ Request(id).kind = "hash" /\ UNCHANGED <<calls, call, returned>>
      BY <2>4, LookupStep
    <3> QED BY <2>1, <3>1, <3>2
  <2>5. CASE InsertHash(c) \/ CountHash(c)
    <3>1. todo[c] # <<>> /\ Request(id).kind = "hash" /\ UNCHANGED <<calls, call, returned>> /\ todo'[c] = <<Commit>>
      <4>1. \A op : <<HashStep(op, Request(id).sha), Commit>> # <<>>  OBVIOUS
      <4> QED BY <2>5, <4>1, BumpStep
    <3>2. HashStage(c, Request(id).sha)'
      BY <3>1 DEF HashStage
    <3> QED BY <2>1, <3>1, <3>2
  <2>6. CASE CommitAll(c)
    <3>1. /\ todo[c] # <<>> /\ UNCHANGED <<call, calls, returned>> /\ Seen(c)' = Seen(c)
          /\ Request(id).kind # "hash"
      BY <1>4, <2>6, CommitStep
    <3>2. PICK k \in DOMAIN S :
              /\ RowStage(c, k) /\ S[k] = Commit
              /\ todo'[c] = SubSeq(S, k + 1, Len(S)) /\ k # Len(S)
      BY <1>4, <2>6, <3>1, CommitStep
    <3>3. id' = id /\ id' \in DOMAIN calls' \ returned' /\ calls'[id'].by = c /\ Request(id)' = Request(id)
          /\ Script(id)' = Script(id) /\ id \in DOMAIN calls
      BY <2>0, <3>1
    <3>4. IsScript(S, id)
      BY <3>1, <3>3, CallKnown
    <3>5. k \in 1..Len(S) /\ Len(S) \in Nat
      BY <3>4 DEF IsScript
    <3> DEFINE n == k + 1
    <3>6. n - 1 = k /\ n \in DOMAIN S
      BY <3>2, <3>4, <3>5 DEF IsScript
    <3>7. ASSUME NEW j \in 1..k, S[j].op = "insert" PROVE S[j].rows \subseteq Seen(c)'.rows
      <4>1. j # k  BY <3>2, <3>7 DEF Commit
      <4>2. j \in 1..(k - 1)  BY <3>5, <4>1
      <4> QED BY <3>1, <3>2, <3>7, <4>2 DEF RowStage
    <3>8. todo'[c] = SubSeq(S, n, Len(S))  BY <3>2
    <3> HIDE DEF n
    <3>9. RowStage(c, n)'
      BY <3>3, <3>6, <3>7, <3>8 DEF RowStage
    <3> QED BY <3>1, <3>3, <3>6, <3>9 DEF InCall
  <2>7. ASSUME NEW q \in Requests, Ask(c, q)
        PROVE  InCall(c)'
    <3> DEFINE new == Len(calls) + 1
    <3>1. /\ call'[c] = new /\ new \in DOMAIN calls' /\ new \notin DOMAIN calls
          /\ calls'[new].by = c /\ calls'[new].request = q
          /\ todo'[c] = Statements(new, q) /\ returned' = returned
      <4>1. /\ call'[c] = new /\ DOMAIN calls' = DOMAIN calls \union {new} /\ new \notin DOMAIN calls
            /\ calls'[new] = [by |-> c, request |-> q]
            /\ todo'[c] = Statements(new, q) /\ returned' = returned
        BY <2>7, AskStep
      <4> QED BY <4>1
    <3>2. new \in Nat /\ Request(call[c])' = q /\ Script(call[c])' = Statements(new, q)
      BY <3>1 DEF Request, Script, IndexShape
    <3>3. new \notin returned'
      BY <3>1 DEF IndexShape
    <3> HIDE DEF new
    <3>4. q.kind = "hash" => HashStage(c, Request(call[c]).sha)'
      BY <3>1, <3>2 DEF Statements, HashStage, HashStep
    <3>5. ASSUME q.kind # "hash" PROVE 1 \in DOMAIN Statements(new, q) /\ RowStage(c, 1)'
      <4> DEFINE T == Statements(new, q)
      <4>1. IsScript(T, new)
        BY <3>2, <3>5, ScriptRight
      <4> HIDE DEF T
      <4>2. 1 \in DOMAIN T /\ T = SubSeq(T, 1, Len(T))
        BY <4>1 DEF IsScript
      <4> QED BY <3>1, <3>2, <4>2 DEF RowStage, T
    <3> QED BY <3>1, <3>2, <3>3, <3>4, <3>5 DEF InCall
  <2> QED BY <2>2, <2>3, <2>4, <2>5, <2>6, <2>7, ActCases
<1> QED BY <1>0, <1>1, <1>2, <1>3, <1>4 DEF IndexShape, Frame, CallsGrow

\* A statement that commits comes after the events of the call, and the row of its
\* timeline; and what was put before a place is seen there.
LEMMA SeenBefore ==
  ASSUME IndexShape, NEW c \in Conns, call[c] \in DOMAIN calls, Request(call[c]).kind # "hash",
         NEW k \in DOMAIN Script(call[c]), RowStage(c, k)
  PROVE  /\ Script(call[c])[k].op = "commit" \/ Puts(Script(call[c])[k], Row("timelines", call[c], 1)) =>
               Events(call[c]) \subseteq Seen(c).rows
         /\ Puts(Script(call[c])[k], Row("files", call[c], 1)) => Row("artifacts", call[c], 1) \in Seen(c).rows
         /\ k = Len(Script(call[c])) => RowsOf(call[c]) \subseteq Seen(c).rows
<1> DEFINE id == call[c]
           S == Script(id)
<1>1. IsScript(S, id)
  BY CallKnown
<1>2. \A r : Before(S, k, r) => r \in Seen(c).rows
  BY DEF RowStage, Before, Puts
<1>3. ASSUME S[k].op = "commit" \/ Puts(S[k], Row("timelines", id, 1)), NEW r \in Events(id)
      PROVE  r \in Seen(c).rows
  <2>1. r \in RowsOf(id) /\ r.table = "events"
    BY <1>3 DEF Events
  <2>2. \E i \in DOMAIN S : Puts(S[i], r)
    BY <2>1, RowsOfRight
  <2>3. Before(S, k, r)
    BY <1>1, <1>3, <2>1, <2>2 DEF IsScript
  <2> QED BY <1>2, <2>3
<1>4. Puts(S[k], Row("files", id, 1)) => Row("artifacts", id, 1) \in Seen(c).rows
  BY <1>1, <1>2 DEF IsScript
<1>5. ASSUME k = Len(S), NEW r \in RowsOf(id) PROVE r \in Seen(c).rows
  <2>1. PICK i \in DOMAIN S : Puts(S[i], r)
    BY <1>5, RowsOfRight
  <2>2. i # k
    BY <1>1, <1>5, <2>1, CommitPuts DEF IsScript
  <2>3. i \in 1..(k - 1)
    BY <1>1, <1>5, <2>2 DEF IsScript
  <2> QED BY <1>2, <2>1, <2>3 DEF Before
<1> QED BY <1>3, <1>4, <1>5

\* Every step keeps what is stored of a call together: its parts in their order, all of
\* it once the call has returned.
LEMMA IndexStoredNext ==
  ASSUME IndexShape, IndexStored, NEW c \in Conns, Acts(c)
  PROVE  IndexStored'
<1>0. Frame(c)
  BY FrameRight
<1>c. CallsGrow
  BY <1>0 DEF Frame
<1>g. \A id \in DOMAIN calls : RowsOf(id)' = RowsOf(id) /\ Events(id)' = Events(id) /\ id \in DOMAIN calls'
  BY <1>c, Grown DEF CallsGrow
<1>s. SecondPart(Seen(c).rows) /\ disk.rows \subseteq Seen(c).rows
  BY IndexAssumption DEF IndexStored, Seen
<1>1. writer' # NoConn => disk'.rows \subseteq view'.rows
  <2>1. CASE InsertRows(c)
    <3>1. /\ disk' = disk
          /\ \/ UNCHANGED <<writer, view>>
             \/ view'.rows = Seen(c).rows \union Head(todo[c]).rows
      BY <2>1, InsertStep DEF IndexShape, InsertRows
    <3> QED BY <1>s, <3>1 DEF IndexStored
  <2>2. CASE InsertHash(c) \/ CountHash(c)
    <3>1. disk' = disk /\ view'.rows = Seen(c).rows
      BY <2>2, BumpStep
    <3> QED BY <1>s, <3>1
  <2>3. CASE UNCHANGED storeVars \/ writer' = NoConn
    BY <2>3 DEF IndexStored, storeVars
  <2> QED BY <2>1, <2>2, <2>3, ActCases, QuietStep, LookupStep, CommitStep, AskStep
<1>2. disk.rows \subseteq disk'.rows
  <2>1. disk' = disk \/ (writer = c /\ disk' = view)
    BY <1>0 DEF Frame, StoreStep, storeVars
  <2> QED BY <2>1, IndexAssumption DEF IndexStored
<1> DEFINE Second(X, id) ==
             /\ Row("timelines", id, 1) \in X => Events(id)' \subseteq X
             /\ Row("files", id, 1) \in X => Row("artifacts", id, 1) \in X
<1>3. ASSUME NEW id \in DOMAIN calls'
      PROVE  Second(disk.rows, id) /\ (writer # NoConn => Second(view.rows, id)) /\ Second(Seen(c).rows, id)
  <2>1. CASE id \in DOMAIN calls
    <3>1. SecondPart(disk.rows) /\ (writer # NoConn => SecondPart(view.rows))  BY DEF IndexStored
    <3> QED BY <1>g, <1>s, <2>1, <3>1 DEF SecondPart
  <2>2. CASE id \notin DOMAIN calls
    <3>1. \A table : Row(table, id, 1).call = id  BY DEF Row
    <3>2. \A r \in disk.rows \union view.rows \union Seen(c).rows : r.call # id
      BY <2>2 DEF IndexShape, IsStore, Seen
    <3> QED BY <3>1, <3>2
  <2> QED BY <2>1, <2>2
<1>4. SecondPart(disk.rows)'
  <2>1. disk' = disk \/ (writer = c /\ disk' = view)
    BY <1>0 DEF Frame, StoreStep, storeVars
  <2>2. \A id \in DOMAIN calls' : Second(disk'.rows, id)
    BY <1>3, <2>1, IndexAssumption
  <2> QED BY <2>2 DEF SecondPart
<1>5. ASSUME writer' # NoConn PROVE SecondPart(view.rows)'
  <2>1. ASSUME NEW id \in DOMAIN calls' PROVE Second(view'.rows, id)
    <3>1. CASE UNCHANGED <<writer, view>>
      BY <1>3, <1>5, <3>1
    <3>2. CASE InsertHash(c) \/ CountHash(c)
      <4>1. view'.rows = Seen(c).rows  BY <3>2, BumpStep
      <4> QED BY <1>3, <4>1
    <3>3. CASE InsertRows(c) /\ ~UNCHANGED <<writer, view>>
      <4> DEFINE new == call[c]
                 S == Script(new)
      <4>1. PICK k \in DOMAIN S :
               /\ new \in DOMAIN calls /\ Request(new).kind # "hash" /\ RowStage(c, k) /\ S[k].op = "insert"
               /\ S[k].rows \subseteq RowsOf(new)
               /\ view' = [rows |-> Seen(c).rows \union S[k].rows, hashes |-> Seen(c).hashes]
        BY <3>3, InsertStep
      <4>2. view'.rows = Seen(c).rows \union S[k].rows
        BY <4>1
      <4>3. CASE id # new
        <5>1. \A table : Row(table, id, 1).call = id  BY DEF Row
        <5>2. \A table : Row(table, id, 1) \notin S[k].rows
          BY <4>1, <4>3, <5>1, CallKnown
        <5> QED BY <1>3, <4>2, <5>2
      <4>4. CASE id = new
        <5>1. Events(id)' = Events(id)
          BY <1>g, <4>1, <4>4
        <5>2. Row("timelines", id, 1) \in S[k].rows => Events(id) \subseteq Seen(c).rows
          BY <4>1, <4>4, SeenBefore DEF Puts
        <5>3. Row("files", id, 1) \in S[k].rows => Row("artifacts", id, 1) \in Seen(c).rows
          BY <4>1, <4>4, SeenBefore DEF Puts
        <5> QED BY <1>3, <4>2, <5>1, <5>2, <5>3
      <4> QED BY <4>3, <4>4
    <3> QED BY <1>5, <3>1, <3>2, <3>3, ActCases, QuietStep, LookupStep, CommitStep, AskStep DEF storeVars
  <2> QED BY <2>1 DEF SecondPart
<1>6. ReturnedIsStored'
  <2> SUFFICES ASSUME NEW id \in returned' PROVE RowsOf(id)' \subseteq disk'.rows
    BY DEF ReturnedIsStored
  <2>1. CASE id \in returned
    <3>1. RowsOf(id) \subseteq disk.rows /\ id \in DOMAIN calls
      BY <2>1 DEF IndexStored, ReturnedIsStored, IndexShape
    <3> QED BY <1>2, <1>g, <3>1
  <2>2. CASE id \notin returned
    <3>1. CommitAll(c)
      BY <2>2, ActCases, QuietStep, LookupStep, InsertStep, BumpStep, AskStep
    <3>2. id = call[c] /\ id \in DOMAIN calls /\ todo'[c] = <<>> /\ disk' = Seen(c)
      BY <2>2, <3>1, CommitStep
    <3>3. CASE Request(call[c]).kind = "hash"
      <4>1. RowsOf(id) = {}  BY <3>2, <3>3, CallKnown
      <4> QED BY <1>g, <3>2, <4>1
    <3>4. CASE Request(call[c]).kind # "hash"
      <4>1. PICK k \in DOMAIN Script(call[c]) : RowStage(c, k) /\ k = Len(Script(call[c]))
        BY <3>1, <3>2, <3>4, CommitStep
      <4>2. RowsOf(call[c]) \subseteq Seen(c).rows
        BY <3>2, <3>4, <4>1, SeenBefore
      <4> QED BY <1>g, <3>2, <4>2
    <3> QED BY <3>3, <3>4
  <2> QED BY <2>1, <2>2
<1> QED BY <1>1, <1>4, <1>5, <1>6 DEF IndexStored

\* A row names the call it is of.
LEMMA OwnRows == IndexShape => \A i \in DOMAIN calls : \A r \in RowsOf(i) : r.call = i
BY CallKnown

\* Every step keeps that calls are stored as a whole, and that only a failure keeps the
\* lock.
LEMMA IndexWholeNext ==
  ASSUME IndexShape, IndexStored, IndexWhole, NEW c \in Conns, Acts(c)
  PROVE  IndexWhole'
<1>0. Frame(c)
  BY FrameRight
<1>g. \A id \in DOMAIN calls : RowsOf(id)' = RowsOf(id) /\ Events(id)' = Events(id) /\ id \in DOMAIN calls'
  BY <1>0, Grown DEF Frame, CallsGrow
<1>n. c \in Conns /\ NoConn \notin Conns /\ c # NoConn
  BY IndexAssumption
<1>k. ~carried' => ~carried
  <2>1. carried' = carried \/ carried' = (carried \/ failed[c])
    BY ActCases, QuietStep, LookupStep, InsertStep, BumpStep, CommitStep, AskStep
  <2> QED BY <2>1
<1>1. ASSUME ~carried', NEW d \in Conns, failed'[d] PROVE todo'[d] = <<>>
  <2>0. \A e \in Conns : failed[e] => todo[e] = <<>>
    BY <1>1, <1>k DEF IndexWhole
  <2>1. CASE d # c
    BY <1>0, <1>1, <2>0, <2>1 DEF Frame
  <2>2. CASE d = c
    <3>1. CASE failed' = failed /\ todo[c] # <<>>
      BY <1>1, <2>0, <2>2, <3>1
    <3>2. ASSUME NEW q \in Requests, Ask(c, q) PROVE FALSE
      <4>1. failed' = failed /\ carried' = (carried \/ failed[c])  BY <3>2, AskStep
      <4> QED BY <1>1, <2>2, <4>1
    <3>3. ASSUME Lookup(c) \/ InsertHash(c) \/ CountHash(c) \/ CommitAll(c) PROVE failed' = failed /\ todo[c] # <<>>
      BY <3>3 DEF Lookup, InsertHash, CountHash, CommitAll, Next1
    <3> QED BY <2>2, <3>1, <3>2, <3>3, ActCases, QuietStep, InsertStep
  <2> QED BY <2>1, <2>2
<1>2. ASSUME writer' # NoConn PROVE call'[writer'] \in DOMAIN calls'
  <2>1. CASE InsertRows(c) \/ InsertHash(c) \/ CountHash(c)
    <3>1. UNCHANGED <<call, calls>> /\ call[c] \in DOMAIN calls /\ writer' \in {writer, c}
      BY <2>1, InsertStep, BumpStep
    <3> QED BY <1>2, <3>1 DEF IndexWhole
  <2>2. ASSUME NEW q \in Requests, Ask(c, q) PROVE call'[writer'] \in DOMAIN calls'
    <3>1. UNCHANGED storeVars /\ call'[c] \in DOMAIN calls'  BY <2>2, AskStep
    <3>2. writer' = writer /\ writer \in Conns  BY <1>2, <3>1 DEF storeVars, IndexShape
    <3>3. CASE writer # c
      <4>1. call'[writer] = call[writer] /\ call[writer] \in DOMAIN calls
        BY <1>0, <1>2, <3>2, <3>3 DEF Frame, IndexWhole
      <4> QED BY <1>g, <3>2, <4>1
    <3> QED BY <3>1, <3>2, <3>3
  <2>3. CASE UNCHANGED <<call, calls>> /\ writer' = writer
    BY <1>2, <2>3 DEF IndexWhole
  <2> QED BY <1>2, <2>1, <2>2, <2>3, ActCases, QuietStep, LookupStep, CommitStep DEF storeVars
<1>3. ASSUME ~carried', writer' # NoConn
      PROVE  view'.rows \subseteq disk'.rows \union RowsOf(call[writer])'
  <2>0. writer # NoConn => view.rows \subseteq disk.rows \union RowsOf(call[writer]) /\ call[writer] \in DOMAIN calls
    BY <1>3, <1>k DEF IndexWhole
  <2>1. CASE writer' = writer /\ view' = view /\ disk' = disk /\ call'[writer] = call[writer]
    <3>1. RowsOf(call[writer])' = RowsOf(call[writer])
      <4> DEFINE id == call[writer]
      <4>1. id' = id /\ id \in DOMAIN calls  BY <1>3, <2>0, <2>1
      <4>2. RowsOf(id)' = RowsOf(id)
        <5>1. Request(id)' = Request(id)  BY <1>0, <4>1 DEF Frame, CallsGrow, Request
        <5> QED BY <4>1, <5>1 DEF RowsOf
      <4> QED BY <4>2
    <3> QED BY <1>3, <2>0, <2>1, <3>1
  <2>2. CASE InsertRows(c)
    <3> DEFINE S == Script(call[c])
    <3>1. PICK k \in DOMAIN S :
             /\ UNCHANGED <<disk, call, calls>> /\ S[k].rows \subseteq RowsOf(call[c]) /\ writer \in {NoConn, c}
             /\ \/ UNCHANGED <<writer, view>>
                \/ /\ writer' = c
                   /\ view' = [rows |-> Seen(c).rows \union S[k].rows, hashes |-> Seen(c).hashes]
      BY <2>2, InsertStep
    <3>2. CASE UNCHANGED <<writer, view>>
      BY <2>1, <3>1, <3>2
    <3>3. CASE writer' = c /\ view' = [rows |-> Seen(c).rows \union S[k].rows, hashes |-> Seen(c).hashes]
      <4>1. RowsOf(call[writer])' = RowsOf(call[c])
        BY <3>1, <3>3 DEF RowsOf, Request
      <4>2. Seen(c).rows \subseteq disk.rows \union RowsOf(call[c])
        BY <1>n, <2>0, <3>1 DEF Seen
      <4> HIDE DEF S
      <4>3. view'.rows = Seen(c).rows \union S[k].rows
        BY <3>3
      <4> QED BY <3>1, <4>1, <4>2, <4>3
    <3> QED BY <3>1, <3>2, <3>3
  <2>3. CASE InsertHash(c) \/ CountHash(c)
    <3>1. UNCHANGED <<disk, call, calls>> /\ writer \in {NoConn, c} /\ writer' = c /\ view'.rows = Seen(c).rows
      BY <2>3, BumpStep
    <3>2. RowsOf(call[writer])' = RowsOf(call[c])
      BY <3>1 DEF RowsOf, Request
    <3>3. Seen(c).rows \subseteq disk.rows \union RowsOf(call[c])
      BY <1>n, <2>0, <3>1 DEF Seen
    <3> QED BY <3>1, <3>2, <3>3
  <2>4. ASSUME NEW q \in Requests, Ask(c, q)
        PROVE  writer' = writer /\ view' = view /\ disk' = disk /\ call'[writer] = call[writer]
    <3>1. UNCHANGED storeVars /\ todo[c] = <<>> /\ ~failed[c]
      BY <1>3, <2>4, AskStep
    <3>2. writer # c
      BY <3>1 DEF IndexWhole, LockIsReleased
    <3>3. writer \in Conns \ {c}
      BY <1>3, <3>1, <3>2 DEF IndexShape, storeVars
    <3> QED BY <1>0, <3>1, <3>3 DEF Frame, storeVars
  <2> QED BY <1>3, <2>1, <2>2, <2>3, <2>4, ActCases, QuietStep, LookupStep, CommitStep DEF storeVars
<1>4. WholeCalls'
  <2> SUFFICES ASSUME ~carried', NEW id \in DOMAIN calls'
               PROVE  Events(id)' \subseteq disk'.rows \/ Events(id)' \cap disk'.rows = {}
    BY DEF WholeCalls
  <2>s. /\ \A r \in disk.rows \union view.rows : r.call \in DOMAIN calls
        /\ disk' = disk \/ (CommitAll(c) /\ writer = c /\ disk' = view)
    <3>1. \A r \in disk.rows \union view.rows : r.call \in DOMAIN calls
      BY DEF IndexShape, IsStore
    <3>2. disk' = disk \/ (CommitAll(c) /\ writer = c /\ disk' = view)
      BY ActCases, QuietStep, LookupStep, InsertStep, BumpStep, CommitStep, AskStep DEF storeVars
    <3> QED BY <3>1, <3>2
  <2>1. CASE id \notin DOMAIN calls
    <3>1. IndexShape'  BY IndexShapeNext
    <3>2. (IndexShape => \A i \in DOMAIN calls : \A r \in RowsOf(i) : r.call = i)'
      BY OwnRows, PTL
    <3>3. \A r \in Events(id)' : r.call = id
      BY <3>1, <3>2 DEF Events
    <3>4. Events(id)' \cap disk'.rows = {}
      BY <2>1, <2>s, <3>3
    <3> QED BY <3>4
  <2>2. CASE id \in DOMAIN calls
    <3>1. Events(id)' = Events(id) /\ (Events(id) \subseteq disk.rows \/ Events(id) \cap disk.rows = {})
      BY <1>g, <1>k, <2>2 DEF IndexWhole, WholeCalls
    <3>2. CASE disk' = disk
      BY <3>1, <3>2
    <3>3. CASE CommitAll(c) /\ writer = c /\ disk' = view
      <4>1. /\ disk.rows \subseteq view.rows /\ view.rows \subseteq disk.rows \union RowsOf(call[c])
            /\ call[c] \in DOMAIN calls /\ disk' = Seen(c)
        BY <1>n, <1>k, <3>3, CommitStep DEF IndexStored, IndexWhole
      <4>2. CASE id # call[c]
        <5>1. \A r \in Events(id) : r.call = id  BY <2>2, OwnRows DEF Events
        <5>2. \A r \in RowsOf(call[c]) : r.call = call[c]  BY <4>1, OwnRows
        <5> QED BY <3>1, <3>3, <4>1, <4>2, <5>1, <5>2
      <4>3. CASE id = call[c]
        <5>1. CASE Request(call[c]).kind = "hash"
          <6>1. Events(id) = {}  BY <4>1, <4>3, <5>1, CallKnown DEF Events
          <6> QED BY <3>1, <6>1
        <5>2. CASE Request(call[c]).kind # "hash"
          <6>1. PICK k \in DOMAIN Script(call[c]) : RowStage(c, k) /\ Script(call[c])[k] = Commit
            BY <3>3, <5>2, CommitStep
          <6>2. Script(call[c])[k].op = "commit"
            BY <6>1, CommitPuts
          <6>3. Events(call[c]) \subseteq Seen(c).rows
            BY <4>1, <5>2, <6>1, <6>2, SeenBefore
          <6> QED BY <3>1, <4>1, <4>3, <6>3
        <5> QED BY <5>1, <5>2
      <4> QED BY <4>2, <4>3
    <3> QED BY <2>s, <3>2, <3>3
  <2> QED BY <2>1, <2>2
<1>5. LockIsReleased'
  <2> SUFFICES ASSUME NEW d \in Conns, writer' = d, todo'[d] = <<>> PROVE failed'[d]
    BY DEF LockIsReleased
  <2>1. CASE d # c
    <3>1. writer = d /\ todo[d] = <<>> /\ failed'[d] = failed[d]
      BY <1>0, <1>n, <2>1 DEF Frame, StoreStep, storeVars
    <3> QED BY <3>1 DEF IndexWhole, LockIsReleased
  <2>2. CASE d = c
    <3>1. CASE UNCHANGED storeVars /\ todo[c] = <<>> /\ failed' = failed
      BY <2>2, <3>1 DEF IndexWhole, LockIsReleased, storeVars
    <3>2. \A x, y : <<x, y>> # <<>> /\ <<x>> # <<>>
      OBVIOUS
    <3>3. ~UNCHANGED storeVars \/ writer' = writer
      BY DEF storeVars
    <3>4. ASSUME Lookup(c) PROVE todo'[c] # <<>>
      BY <3>2, <3>4, LookupStep
    <3>5. ASSUME InsertHash(c) \/ CountHash(c) PROVE todo'[c] # <<>>
      BY <3>2, <3>5, BumpStep
    <3> QED BY <1>n, <2>2, <3>1, <3>3, <3>4, <3>5, ActCases, QuietStep, InsertStep, CommitStep, AskStep
  <2> QED BY <2>1, <2>2
<1> QED BY <1>1, <1>2, <1>3, <1>4, <1>5 DEF IndexWhole

\* What a step of another connection leaves alone.
LEMMA CountedKept ==
  ASSUME IndexShape, IndexCounted, NEW c \in Conns, Frame(c), NEW h \in Shas,
         disk'.hashes[h] = disk.hashes[h], Done(h)' = Done(h), OneProcess(h)' => OneProcess(h),
         \A d \in Conns \ {c} : /\ Counting(d, h)' <=> Counting(d, h)
                                /\ Absent(d, h)' => Absent(d, h)
                                /\ Seen(d)'.hashes[h] = Seen(d).hashes[h],
         ~Counting(c, h)', OneProcess(h) /\ Absent(c, h)' => Seen(c)'.hashes[h] = 0,
         \/ writer' = writer /\ view' = view /\ ~(writer = c /\ Counting(c, h))
         \/ writer = c /\ writer' = NoConn
         \/ writer \in {NoConn, c} /\ writer' = c /\ view'.hashes[h] = disk.hashes[h]
  PROVE  CountedIn(h)'
<1>n. NoConn \notin Conns /\ c # NoConn
  BY IndexAssumption
<1>0. CountedIn(h)
  BY DEF IndexCounted
<1>1. writer' # NoConn =>
        \/ view'.hashes[h] = disk'.hashes[h]
        \/ Counting(writer, h)' /\ view'.hashes[h] = disk'.hashes[h] + 1
  <2>1. CASE writer' = writer /\ view' = view /\ ~(writer = c /\ Counting(c, h))
    <3>1. CASE writer \in Conns \ {c}
      <4>1. Counting(writer, h) => Counting(writer, h)'
        <5> DEFINE d == writer
        <5>1. d' = d /\ d \in Conns \ {c}  BY <2>1, <3>1
        <5>2. call'[d] = call[d] /\ todo'[d] = todo[d]  BY <5>1 DEF Frame
        <5>3. Counting(d, h) => call[d] \in DOMAIN calls
          <6>1. <<Commit>> # <<>>  OBVIOUS
          <6> QED BY <5>1, <6>1 DEF Counting, IndexShape, InCall
        <5>4. Counting(d, h) => Request(call[d])' = Request(call[d])
          BY <5>1, <5>2, <5>3 DEF Request, Frame, CallsGrow
        <5> QED BY <5>1, <5>2, <5>4 DEF Counting
      <4> QED BY <1>0, <2>1, <3>1, <4>1 DEF CountedIn
    <3>2. CASE writer = c
      BY <1>0, <1>n, <2>1, <3>2 DEF CountedIn
    <3>3. CASE writer = NoConn
      BY <2>1, <3>3
    <3> QED BY <3>1, <3>2, <3>3 DEF IndexShape
  <2>2. CASE writer = c /\ writer' = NoConn
    BY <2>2
  <2>3. CASE writer \in {NoConn, c} /\ writer' = c /\ view'.hashes[h] = disk.hashes[h]
    BY <2>3
  <2> QED BY <2>1, <2>2, <2>3
<1>2. ASSUME NEW d \in Conns, Counting(d, h)'
      PROVE  writer' = d /\ writer' = writer /\ view' = view /\ Counting(d, h)
  <2>1. d # c
    BY <1>2
  <2>2. Counting(d, h) /\ writer = d
    BY <1>0, <1>2, <2>1 DEF CountedIn
  <2> QED BY <1>n, <2>1, <2>2
<1>3. \A d \in Conns : Counting(d, h)' => writer' = d /\ view'.hashes[h] > 0
  BY <1>0, <1>2 DEF CountedIn
<1>4. /\ disk'.hashes[h] <= Cardinality(Done(h)')
      /\ Done(h)' # {} => disk'.hashes[h] > 0
  BY <1>0 DEF CountedIn
<1>5. ASSUME OneProcess(h)'
      PROVE  /\ disk'.hashes[h] = Cardinality(Done(h)')
             /\ \A d \in Conns : Counting(d, h)' => view'.hashes[h] = disk'.hashes[h] + 1
             /\ \A d \in Conns : Absent(d, h)' => Seen(d)'.hashes[h] = 0
  <2>1. OneProcess(h)
    BY <1>5
  <2>2. disk'.hashes[h] = Cardinality(Done(h)')
    BY <1>0, <2>1 DEF CountedIn
  <2>3. \A d \in Conns : Counting(d, h)' => view'.hashes[h] = disk'.hashes[h] + 1
    BY <1>0, <1>2, <2>1 DEF CountedIn
  <2>4. ASSUME NEW d \in Conns, Absent(d, h)' PROVE Seen(d)'.hashes[h] = 0
    <3>1. CASE d = c
      BY <2>1, <2>4, <3>1
    <3>2. CASE d # c
      <4>1. Absent(d, h) /\ Seen(d)'.hashes[h] = Seen(d).hashes[h]  BY <2>4, <3>2
      <4> QED BY <1>0, <2>1, <4>1 DEF CountedIn
    <3> QED BY <3>1, <3>2
  <2> QED BY <2>2, <2>3, <2>4
<1> QED BY <1>1, <1>3, <1>4, <1>5 DEF CountedIn

\* No connection counts a hash for another.
LEMMA OthersCount ==
  ASSUME IndexShape, NEW c \in Conns, Frame(c), NEW h \in Shas, NEW d \in Conns \ {c}
  PROVE  /\ Counting(d, h)' <=> Counting(d, h)
         /\ Absent(d, h)' => Absent(d, h)
<1>1. call'[d] = call[d] /\ todo'[d] = todo[d]
  BY DEF Frame
<1>2. ASSUME todo[d] # <<>> PROVE Request(call[d])' = Request(call[d])
  <2>1. call[d] \in DOMAIN calls  BY <1>2 DEF IndexShape, InCall
  <2> QED BY <1>1, <2>1 DEF Frame, CallsGrow, Request
<1>3. <<Commit>> # <<>> /\ \A x, y : <<x, y>> # <<>>
  OBVIOUS
<1> QED BY <1>1, <1>2, <1>3 DEF Counting, Absent

\* Finitely many calls have returned.
LEMMA DoneFinite ==
  ASSUME IndexShape, NEW h
  PROVE  IsFiniteSet(Done(h)) /\ Cardinality(Done(h)) \in Nat
<1>1. DOMAIN calls = 1..Len(calls) /\ Len(calls) \in Nat
  BY DEF IndexShape
<1>2. IsFiniteSet(1..Len(calls))
  BY <1>1, FS_Interval
<1>3. Done(h) \subseteq 1..Len(calls)
  BY <1>1 DEF Done, HashCalls
<1> QED BY <1>2, <1>3, FS_Subset, FS_CardinalityType

\* Every step keeps the counts of the hashes.
LEMMA IndexCountedNext ==
  ASSUME IndexShape, IndexStored, IndexCounted, NEW c \in Conns, Acts(c), NEW h \in Shas
  PROVE  CountedIn(h)'
<1>0. Frame(c) /\ CountedIn(h)
  BY FrameRight DEF IndexCounted
<1>n. NoConn \notin Conns /\ c # NoConn
  BY IndexAssumption
<1>o. \A d \in Conns \ {c} : (Counting(d, h)' <=> Counting(d, h)) /\ (Absent(d, h)' => Absent(d, h))
  BY <1>0, OthersCount
<1>s. \A d \in Conns \ {c} : disk' = disk => Seen(d)'.hashes[h] = Seen(d).hashes[h]
  BY <1>0, SeenKept DEF Frame, IndexStored
<1>t. \A x, y : <<x, y>> # <<>> /\ <<x>> # <<>> /\ <<x, y>> # <<Commit>>
  OBVIOUS
<1>x. Commit.op = "commit" /\ \A op, g : HashStep(op, g).op = op /\ HashStep(op, g).sha = g
  BY DEF Commit, HashStep
<1>c. UNCHANGED <<calls, returned>> => Done(h)' = Done(h) /\ (OneProcess(h)' => OneProcess(h))
  BY DEF Done, OneProcess, HashCalls, Request
<1>d. disk.hashes[h] \in Nat /\ view.hashes[h] \in Nat /\ Seen(c).hashes[h] \in Nat
  BY DEF IndexShape, IsStore, Seen
<1>1. CASE Open(c) \/ Close(c) \/ Die(c)
  <2>1. /\ todo'[c] = <<>> /\ UNCHANGED <<disk, calls, returned>>
        /\ \/ UNCHANGED storeVars /\ todo[c] = <<>>
           \/ UNCHANGED storeVars /\ writer # c
           \/ writer = c /\ writer' = NoConn
    BY <1>1, QuietStep
  <2>2. ~Counting(c, h)' /\ ~Absent(c, h)' /\ (todo[c] = <<>> => ~Counting(c, h))
    BY <1>t, <2>1 DEF Counting, Absent
  <2>3. Done(h)' = Done(h) /\ (OneProcess(h)' => OneProcess(h)) /\ disk' = disk
    BY <1>c, <2>1
  <2> QED BY <1>0, <1>o, <1>s, <2>1, <2>2, <2>3, CountedKept DEF storeVars
<1>2. CASE InsertRows(c)
  <2>1. PICK k \in DOMAIN Script(call[c]) :
         /\ Request(call[c]).kind # "hash"
         /\ UNCHANGED <<disk, calls, call, returned>> /\ writer \in {NoConn, c}
         /\ \/ UNCHANGED <<writer, view>>
            \/ /\ writer' = c
               /\ view' = [rows |-> Seen(c).rows \union Script(call[c])[k].rows, hashes |-> Seen(c).hashes]
    BY <1>2, InsertStep
  <2>2. ~Counting(c, h)' /\ ~Absent(c, h)' /\ ~Counting(c, h)
    BY <2>1 DEF Counting, Absent, Request
  <2>3. Seen(c).hashes[h] = disk.hashes[h]
    BY <1>0, <1>n, <2>1, <2>2 DEF Seen, CountedIn
  <2>4. \/ UNCHANGED <<writer, view>>
        \/ writer' = c /\ view'.hashes[h] = disk.hashes[h]
    BY <2>1, <2>3
  <2>5. Done(h)' = Done(h) /\ (OneProcess(h)' => OneProcess(h)) /\ disk' = disk
    BY <1>c, <2>1
  <2> QED BY <1>0, <1>o, <1>s, <2>1, <2>2, <2>4, <2>5, CountedKept
<1>3. CASE Lookup(c)
  <2> DEFINE g == Request(call[c]).sha
             step == IF Seen(c).hashes[g] > 0 THEN "count" ELSE "ignore"
  <2>1. /\ todo[c] = <<HashStep("lookup", g)>>
        /\ todo'[c] = <<HashStep(step, g), Commit>>
        /\ UNCHANGED <<storeVars, call, calls, returned>>
    BY <1>3, LookupStep
  <2>2. ~Counting(c, h)' /\ ~Counting(c, h)
    <3>1. HashStep("lookup", g) # Commit  BY <1>x
    <3>2. \A x : <<x>> = <<Commit>> => x = Commit  OBVIOUS
    <3> HIDE DEF g, step
    <3> QED BY <1>t, <2>1, <3>1, <3>2 DEF Counting
  <2>3. Absent(c, h)' => Seen(c)'.hashes[h] = 0
    <3> SUFFICES ASSUME Absent(c, h)' PROVE Seen(c)'.hashes[h] = 0
      OBVIOUS
    <3>1. \A x, y, z : <<x, z>> = <<y, z>> => x = y  OBVIOUS
    <3>2. HashStep(step, g) = HashStep("ignore", h)
      <4> HIDE DEF g, step
      <4> QED BY <2>1, <3>1 DEF Absent
    <3>3. step = "ignore" /\ g = h
      <4> HIDE DEF g, step
      <4> QED BY <1>x, <3>2
    <3>4. Seen(c)' = Seen(c)
      BY <2>1 DEF Seen, storeVars
    <3> QED BY <1>d, <3>3, <3>4
  <2>5. Done(h)' = Done(h) /\ (OneProcess(h)' => OneProcess(h)) /\ UNCHANGED <<disk, view, writer>>
    BY <1>c, <2>1 DEF storeVars
  <2> HIDE DEF g, step
  <2> QED BY <1>0, <1>o, <1>s, <2>2, <2>3, <2>5, CountedKept
<1>4. CASE InsertHash(c) \/ CountHash(c)
  <2> DEFINE g == Request(call[c]).sha
  <2>1. PICK op \in {"ignore", "count"} :
         /\ Request(call[c]).kind = "hash" /\ g \in Shas
         /\ todo[c] = <<HashStep(op, g), Commit>> /\ todo'[c] = <<Commit>>
         /\ writer \in {NoConn, c} /\ writer' = c
         /\ view' = [rows |-> Seen(c).rows, hashes |-> [Seen(c).hashes EXCEPT ![g] =
                       IF op = "ignore" /\ Seen(c).hashes[g] # 0 THEN Seen(c).hashes[g]
                       ELSE Seen(c).hashes[g] + 1]]
         /\ UNCHANGED <<disk, call, calls, returned>>
    BY <1>4, BumpStep
  <2>2. \A s \in Shas : ~Counting(c, s)
    BY <1>t, <2>1 DEF Counting
  <2>3. \A s \in Shas : Seen(c).hashes[s] = disk.hashes[s]
    <3>1. \A s \in Shas : CountedIn(s)  BY DEF IndexCounted
    <3> QED BY <1>n, <2>1, <2>2, <3>1 DEF Seen, CountedIn
  <2>4. Seen(c).hashes \in [Shas -> Nat]
    BY DEF IndexShape, IsStore, Seen
  <2>5. \A s \in Shas : ~Absent(c, s)'
    BY <1>t, <2>1 DEF Absent
  <2>6. g' = g /\ Request(call[c])' = Request(call[c])
    BY <2>1 DEF Request
  <2>7. CASE h # g
    <3>1. view'.hashes[h] = disk.hashes[h]
      BY <2>1, <2>3, <2>4, <2>7
    <3>2. ~Counting(c, h)'
      BY <2>6, <2>7 DEF Counting
    <3>3. Done(h)' = Done(h) /\ (OneProcess(h)' => OneProcess(h)) /\ disk' = disk /\ writer \in {NoConn, c} /\ writer' = c
      BY <1>c, <2>1
    <3> HIDE DEF g
    <3> QED BY <1>0, <1>o, <1>s, <2>5, <3>1, <3>2, <3>3, CountedKept
  <2>8. CASE h = g
    <3>1. view'.hashes[h] = IF op = "ignore" /\ disk.hashes[h] # 0 THEN disk.hashes[h] ELSE disk.hashes[h] + 1
      BY <2>1, <2>3, <2>4, <2>8
    <3>2. \A d \in Conns \ {c} : ~Counting(d, h)'
      BY <1>0, <1>n, <1>o, <2>1 DEF CountedIn
    <3>3. Counting(c, h)'
      BY <2>1, <2>6, <2>8 DEF Counting
    <3>4. Done(h)' = Done(h) /\ (OneProcess(h)' => OneProcess(h)) /\ disk' = disk
      BY <1>c, <2>1
    <3>5. OneProcess(h) /\ op = "ignore" => disk.hashes[h] = 0
      <4>1. op = "ignore" => Absent(c, h)
        BY <2>1, <2>8 DEF Absent
      <4> QED BY <1>0, <2>3, <4>1 DEF CountedIn
    <3>6. view'.hashes[h] > 0 /\ view'.hashes[h] \in {disk.hashes[h], disk.hashes[h] + 1}
      BY <1>d, <3>1
    <3>7. OneProcess(h) => view'.hashes[h] = disk.hashes[h] + 1
      BY <1>d, <3>1, <3>5
    <3>8. \A d \in Conns : Counting(d, h)' => d = c
      BY <3>2
    <3>9. writer' = c /\ Counting(writer, h)'
      <4>1. Counting(writer, h)' <=> (todo'[writer'] = <<Commit>> /\ calls'[call'[writer']].request.kind = "hash"
                                       /\ calls'[call'[writer']].request.sha = h)
        BY DEF Counting, Request
      <4>2. Counting(c, h)' <=> (todo'[c] = <<Commit>> /\ calls'[call'[c]].request.kind = "hash"
                                       /\ calls'[call'[c]].request.sha = h)
        BY DEF Counting, Request
      <4> QED BY <2>1, <3>3, <4>1, <4>2
    <3>10. \A d \in Conns : OneProcess(h) /\ Absent(d, h)' => Seen(d)'.hashes[h] = 0
      <4> SUFFICES ASSUME NEW d \in Conns, OneProcess(h), Absent(d, h)' PROVE Seen(d)'.hashes[h] = 0
        OBVIOUS
      <4>1. d # c /\ Absent(d, h)  BY <1>o, <2>5
      <4>2. Seen(d)'.hashes[h] = Seen(d).hashes[h]  BY <1>s, <3>4, <4>1
      <4> QED BY <1>0, <4>1, <4>2 DEF CountedIn
    <3> HIDE DEF g
    <3>11. /\ disk'.hashes[h] <= Cardinality(Done(h)')
           /\ Done(h)' # {} => disk'.hashes[h] > 0
           /\ OneProcess(h) => disk'.hashes[h] = Cardinality(Done(h)')
      BY <1>0, <3>4 DEF CountedIn
    <3> QED BY <3>4, <3>6, <3>7, <3>8, <3>9, <3>10, <3>11 DEF CountedIn
  <2> QED BY <2>7, <2>8
<1>5. CASE CommitAll(c)
  <2>1. /\ call[c] \in DOMAIN calls \ returned
        /\ disk' = Seen(c) /\ UNCHANGED <<call, calls>>
        /\ \/ UNCHANGED storeVars /\ writer # c
           \/ writer = c /\ disk' = view /\ view' = NoRows /\ writer' = NoConn
        /\ returned' = IF todo'[c] = <<>> THEN returned \union {call[c]} ELSE returned
        /\ Request(call[c]).kind = "hash" => todo[c] = <<Commit>> /\ todo'[c] = <<>>
    BY <1>5, CommitStep
  <2>2. OneProcess(h)' <=> OneProcess(h)
    BY <2>1 DEF OneProcess, HashCalls, Request
  <2>3. HashCalls(h)' = HashCalls(h)
    BY <2>1 DEF HashCalls, Request
  <2>4. CASE call[c] \in HashCalls(h)
    <3>1. Counting(c, h)
      BY <2>1, <2>4 DEF HashCalls, Counting
    <3>2. writer = c /\ view.hashes[h] > 0 /\ view.hashes[h] \in {disk.hashes[h], disk.hashes[h] + 1}
      BY <1>0, <1>n, <3>1 DEF CountedIn
    <3>3. writer' = NoConn /\ disk' = view
      BY <2>1, <3>2
    <3>4. todo'[c] = <<>> /\ Done(h)' = Done(h) \union {call[c]} /\ call[c] \notin Done(h)
      BY <2>1, <2>3, <2>4 DEF Done, HashCalls
    <3>5. Cardinality(Done(h)') = Cardinality(Done(h)) + 1 /\ Cardinality(Done(h)) \in Nat
      BY <3>4, DoneFinite, FS_AddElement
    <3>6. \A d \in Conns : ~Counting(d, h)'
      <4>1. ~Counting(c, h)'  BY <1>t, <3>4 DEF Counting
      <4>2. \A d \in Conns \ {c} : ~Counting(d, h)'  BY <1>0, <1>o, <3>2 DEF CountedIn
      <4> QED BY <4>1, <4>2
    <3>7. \A d \in Conns : OneProcess(h) => ~Absent(d, h)'
      <4> SUFFICES ASSUME NEW d \in Conns, OneProcess(h), Absent(d, h)' PROVE FALSE
        OBVIOUS
      <4>1. d # c  BY <1>t, <3>4 DEF Absent
      <4>2. Absent(d, h)  BY <1>o, <4>1
      <4>3. call[d] \in DOMAIN calls /\ calls[call[d]].by = d
        BY <1>t, <4>2 DEF Absent, IndexShape, InCall
      <4>4. call[d] \in HashCalls(h)
        BY <4>2, <4>3 DEF Absent, HashCalls
      <4>5. calls[call[c]].by = c
        BY <1>t, <3>1 DEF Counting, IndexShape, InCall
      <4> QED BY <2>4, <4>1, <4>3, <4>4, <4>5 DEF OneProcess
    <3>8. disk'.hashes[h] <= Cardinality(Done(h)') /\ disk'.hashes[h] > 0
      <4>1. disk.hashes[h] <= Cardinality(Done(h))  BY <1>0 DEF CountedIn
      <4> QED BY <1>d, <3>2, <3>3, <3>5, <4>1
    <3>9. OneProcess(h) => disk'.hashes[h] = Cardinality(Done(h)')
      <4>1. OneProcess(h) => view.hashes[h] = disk.hashes[h] + 1 /\ disk.hashes[h] = Cardinality(Done(h))
        BY <1>0, <3>1 DEF CountedIn
      <4> QED BY <3>3, <3>5, <4>1
    <3> QED BY <2>2, <3>3, <3>6, <3>7, <3>8, <3>9 DEF CountedIn
  <2>5. CASE call[c] \notin HashCalls(h)
    <3>1. ~Counting(c, h) /\ ~Counting(c, h)' /\ ~Absent(c, h)'
      BY <2>1, <2>5 DEF Counting, Absent, HashCalls, Request
    <3>2. Done(h)' = Done(h)
      BY <2>1, <2>3, <2>5 DEF Done
    <3>3. disk'.hashes[h] = disk.hashes[h]
      BY <1>0, <1>n, <2>1, <3>1 DEF CountedIn, storeVars
    <3>4. \A d \in Conns \ {c} : Seen(d)'.hashes[h] = Seen(d).hashes[h]
      <4> TAKE d \in Conns \ {c}
      <4>1. CASE disk' = disk  BY <1>s, <4>1
      <4>2. CASE writer = c
        <5>1. Seen(d) = disk /\ Seen(d)' = disk'
          BY <1>0, <4>2, SeenKept DEF Frame, IndexStored
        <5> QED BY <3>3, <5>1
      <4> QED BY <2>1, <4>1, <4>2 DEF storeVars
    <3> QED BY <1>0, <1>o, <2>1, <2>2, <3>1, <3>2, <3>3, <3>4, CountedKept DEF storeVars
  <2> QED BY <2>4, <2>5
<1>6. ASSUME NEW q \in Requests, Ask(c, q)
      PROVE  CountedIn(h)'
  <2> DEFINE new == Len(calls) + 1
  <2>1. /\ todo[c] = <<>> /\ call'[c] = new
        /\ DOMAIN calls' = DOMAIN calls \union {new} /\ new \notin DOMAIN calls
        /\ calls'[new] = [by |-> c, request |-> q]
        /\ todo'[c] = Statements(new, q) /\ UNCHANGED <<storeVars, returned>>
    BY <1>6, AskStep
  <2> HIDE DEF new
  <2>2. Request(call[c])' = q
    BY <2>1 DEF Request
  <2>3. ~Counting(c, h)' /\ ~Absent(c, h)'
    <3> SUFFICES ASSUME Counting(c, h)' \/ Absent(c, h)' PROVE FALSE
      OBVIOUS
    <3>1. q.kind = "hash" /\ q.sha = h
      BY <2>2 DEF Counting, Absent
    <3>2. todo'[c] = <<HashStep("lookup", h)>>
      BY <2>1, <3>1 DEF Statements, HashStep
    <3>3. todo'[c] = <<Commit>> \/ todo'[c] = <<HashStep("ignore", h), Commit>>
      BY DEF Counting, Absent
    <3>4. \A x, y : (<<x>> = <<y>> => x = y) /\ \A z : <<x>> # <<y, z>>
      OBVIOUS
    <3> QED BY <1>x, <3>2, <3>3, <3>4
  <2>4. ~Counting(c, h)
    BY <1>t, <2>1 DEF Counting
  <2>5. \A id \in DOMAIN calls : calls'[id] = calls[id]
    BY <1>0 DEF Frame, CallsGrow
  <2>6. HashCalls(h) \subseteq HashCalls(h)' /\ \A id \in HashCalls(h)' : id \in HashCalls(h) \/ id = new
    BY <2>1, <2>5 DEF HashCalls, Request
  <2>7. Done(h)' = Done(h)
    <3>1. new \notin returned /\ returned' = returned
      BY <2>1 DEF IndexShape
    <3> QED BY <2>6, <3>1 DEF Done
  <2>8. OneProcess(h)' => OneProcess(h)
    BY <2>5, <2>6 DEF OneProcess, HashCalls
  <2> QED BY <1>0, <1>o, <1>s, <2>1, <2>3, <2>4, <2>7, <2>8, CountedKept DEF storeVars
<1> QED BY <1>1, <1>2, <1>3, <1>4, <1>5, <1>6, ActCases

-----------------------------------------------------------------------------
(* The theorem.                                                                *)

\* An empty index has the invariant.
LEMMA IndexInitInv == IndexInit => IndexInv
<1> SUFFICES ASSUME IndexInit PROVE IndexInv
  OBVIOUS
<1> USE DEF IndexInit
<1>1. IsStore(NoRows)
  BY DEF NoRows, IsStore
<1>2. IndexShape
  <2>1. calls \in Seq([by : Conns, request : Requests]) /\ DOMAIN calls = {}
    OBVIOUS
  <2> QED BY <1>1, <2>1 DEF IndexShape
<1>3. \A h : HashCalls(h) = {} /\ Done(h) = {}
  BY DEF HashCalls, Done
<1>4. IndexStored
  BY IndexAssumption DEF IndexStored, ReturnedIsStored, SecondPart, NoRows
<1>5. IndexWhole
  <2>1. DOMAIN calls = {}
    OBVIOUS
  <2> QED BY <2>1, IndexAssumption DEF IndexWhole, WholeCalls, LockIsReleased
<1>6. ASSUME NEW h \in Shas PROVE CountedIn(h)
  <2>1. Cardinality({}) = 0
    BY FS_EmptySet
  <2>2. NoRows.hashes[h] = 0
    BY DEF NoRows
  <2>3. \A c \in Conns : ~Counting(c, h) /\ ~Absent(c, h)
    <3>1. \A x, y : <<x, y>> # <<>> /\ <<x>> # <<>>  OBVIOUS
    <3> QED BY <3>1 DEF Counting, Absent
  <2>4. disk = NoRows /\ writer = NoConn /\ Done(h) = {}
    BY <1>3
  <2>5. disk.hashes[h] = 0 /\ Cardinality(Done(h)) = 0
    BY <2>1, <2>2, <2>4
  <2> QED BY <2>3, <2>4, <2>5 DEF CountedIn
<1> QED BY <1>2, <1>4, <1>5, <1>6 DEF IndexInv, IndexCounted

\* Every step keeps the invariant.
LEMMA IndexNextInv == IndexInv /\ [IndexNext]_indexVars => IndexInv'
<1> SUFFICES ASSUME IndexInv, [IndexNext]_indexVars PROVE IndexInv'
  OBVIOUS
<1> USE DEF IndexInv
<1>1. CASE IndexNext
  <2>1. PICK c \in Conns : Acts(c)
    BY <1>1, StepActs
  <2>2. IndexShape'  BY <2>1, IndexShapeNext
  <2>3. IndexStored'  BY <2>1, IndexStoredNext
  <2>4. IndexWhole'  BY <2>1, IndexWholeNext
  <2>5. \A h \in Shas : CountedIn(h)'  BY <2>1, IndexCountedNext
  <2> QED BY <2>2, <2>3, <2>4, <2>5 DEF IndexCounted
<1>2. CASE UNCHANGED indexVars
  <2>1. UNCHANGED <<disk, view, writer, users, call, todo, failed, calls, returned, carried>>
    BY <1>2 DEF indexVars, storeVars, clientVars
  <2>2. IndexShape'
    <3>1. \A c \in Conns : /\ Request(call[c])' = Request(call[c]) /\ Script(call[c])' = Script(call[c])
                           /\ Seen(c)' = Seen(c)
      BY <2>1 DEF Request, Script, Seen
    <3>2. \A c \in Conns : \A k : RowStage(c, k) => RowStage(c, k)'
      BY <2>1, <3>1 DEF RowStage
    <3>3. \A c \in Conns : \A h : HashStage(c, h) => HashStage(c, h)'
      BY <2>1 DEF HashStage
    <3>4. \A c \in Conns : HashStage(c, Request(call[c]).sha) => HashStage(c, Request(call[c]).sha)'
      BY <2>1, <3>1 DEF HashStage
    <3>5. \A c \in Conns : InCall(c) => InCall(c)'
      BY <2>1, <3>1, <3>2, <3>4 DEF InCall
    <3> QED BY <2>1, <3>5 DEF IndexShape, IsStore
  <2>3. IndexStored'
    BY <2>1 DEF IndexStored, SecondPart, ReturnedIsStored, RowsOf, Events, Request
  <2>4. IndexWhole'
    BY <2>1 DEF IndexWhole, WholeCalls, LockIsReleased, RowsOf, Events, Request
  <2>5. IndexCounted'
    <3> SUFFICES ASSUME NEW h \in Shas PROVE CountedIn(h)'
      BY DEF IndexCounted
    <3>1. \A c : /\ Counting(c, h)' <=> Counting(c, h)
                 /\ Absent(c, h)' <=> Absent(c, h)
                 /\ Seen(c)' = Seen(c)
      BY <2>1 DEF Counting, Absent, Seen, Request
    <3>2. Done(h)' = Done(h) /\ (OneProcess(h)' <=> OneProcess(h))
      BY <2>1 DEF Done, OneProcess, HashCalls, Request
    <3>3. Counting(writer, h)' <=> Counting(writer, h)
      BY <2>1 DEF Counting, Request
    <3>4. CountedIn(h)
      BY DEF IndexCounted
    <3> QED BY <2>1, <3>1, <3>2, <3>3, <3>4 DEF CountedIn
  <2> QED BY <2>2, <2>3, <2>4, <2>5
<1> QED BY <1>1, <1>2

\* What the index promises (core/indexing/storage.py, engine.py), for any number of
\* processes, calls, rows and batches and wherever a process ends: a call that
\* returned is stored, a call is stored as a whole or not at all while nobody goes on
\* with a connection that failed, the second part of a call is never there without the
\* first, a lock that is kept was kept by a failure, and a hash is counted as often as
\* it was indexed by the one process that does it, and never more often by several.
THEOREM IndexKeepsCalls == IndexSpec => []IndexRight
<1>1. IndexInv => IndexRight
  <2> SUFFICES ASSUME IndexInv PROVE IndexRight
    OBVIOUS
  <2> USE DEF IndexInv
  <2>1. ReturnedIsStored /\ WholeCalls /\ LockIsReleased
    BY DEF IndexStored, IndexWhole
  <2>2. SecondPartLast
    BY DEF IndexStored, SecondPart, SecondPartLast
  <2>3. HashesCounted
    <3> SUFFICES ASSUME NEW h \in Shas
                 PROVE  /\ disk.hashes[h] <= Cardinality(Done(h))
                        /\ Done(h) # {} => disk.hashes[h] > 0
                        /\ Cardinality({calls[id].by : id \in HashCalls(h)}) = 1 =>
                              disk.hashes[h] = Cardinality(Done(h))
      BY DEF HashesCounted, Done
    <3>0. CountedIn(h)
      BY DEF IndexCounted
    <3>1. ASSUME Cardinality({calls[id].by : id \in HashCalls(h)}) = 1
          PROVE  OneProcess(h)
      <4> DEFINE B == {calls[id].by : id \in HashCalls(h)}
      <4>1. IsFiniteSet(B)
        <5>1. DOMAIN calls = 1..Len(calls) /\ Len(calls) \in Nat  BY DEF IndexShape
        <5>2. IsFiniteSet(1..Len(calls))  BY <5>1, FS_Interval
        <5>3. HashCalls(h) \subseteq 1..Len(calls)  BY <5>1 DEF HashCalls
        <5>4. IsFiniteSet(HashCalls(h))  BY <5>2, <5>3, FS_Subset
        <5> DEFINE by == [id \in HashCalls(h) |-> calls[id].by]
        <5>5. by \in Surjection(HashCalls(h), B)
          BY DEF Surjection
        <5> HIDE DEF by, B
        <5> QED BY <5>4, <5>5, FS_Surjection
      <4>2. \E x : B = {x}
        BY <3>1, <4>1, FS_Singleton
      <4> QED BY <4>2 DEF OneProcess
    <3> QED BY <3>0, <3>1 DEF CountedIn
  <2> QED BY <2>1, <2>2, <2>3 DEF IndexRight
<1> QED BY <1>1, IndexInitInv, IndexNextInv, PTL DEF IndexSpec

-----------------------------------------------------------------------------
(* The caches (Caches).                                                        *)

KeepKeyStep(keys, gone) ==
  [p \in (1..Len(keys)) \X Seq(Keys) |-> KeepKey(p[2], keys[p[1]], gone)]

\* Without takes the keys one by one.
LEMMA WithoutUnfolds ==
  ASSUME NEW keys \in Seq(Keys), NEW gone
  PROVE  \E h : /\ Recurs(h, Len(keys), Seq(Keys), <<>>, KeepKeyStep(keys, gone))
                /\ Without(keys, gone) = h[Len(keys)]
<1> DEFINE n == Len(keys)
           V == Seq(Keys)
           step == KeepKeyStep(keys, gone)
           Equation(g) == g = [s \in SUBSET (1..n) |->
                                 IF s = {} THEN <<>> ELSE KeepKey(g[s \ {Max(s)}], keys[Max(s)], gone)]
<1>1. n \in Nat /\ DOMAIN keys = 1..n /\ (\A i \in 1..n : keys[i] \in Keys) /\ <<>> \in V
  BY LenProperties, ElementOfSeq
<1>2. step \in [(1..n) \X V -> V]
  BY <1>1 DEF KeepKeyStep, KeepKey
<1>3. \A i \in 1..n, v \in V : step[<<i, v>>] = KeepKey(v, keys[i], gone)
  BY DEF KeepKeyStep
<1> HIDE DEF n, V, step
<1>4. PICK g0 : Folds(g0, n, V, <<>>, step)
  BY <1>1, <1>2, FoldRecursion, Zenon
<1>5. Equation(g0)
  <2>1. g0 \in [SUBSET (1..n) -> V]
        /\ \A s \in SUBSET (1..n) : g0[s] = IF s = {} THEN <<>> ELSE step[<<Max(s), g0[s \ {Max(s)}]>>]
    BY <1>4 DEF Folds
  <2>2. ASSUME NEW s \in SUBSET (1..n)
        PROVE  g0[s] = IF s = {} THEN <<>> ELSE KeepKey(g0[s \ {Max(s)}], keys[Max(s)], gone)
    <3>1. s # {} => Max(s) \in 1..n
      BY <1>1, MaxRight
    <3>2. g0[s \ {Max(s)}] \in V
      BY <2>1
    <3> QED BY <1>3, <2>1, <3>1, <3>2
  <2> QED BY <2>1, <2>2
<1>6. PICK g : Equation(g) /\ Without(keys, gone) = g[1..n]
  <2> HIDE DEF Equation
  <2>1. Equation(CHOOSE g : Equation(g))
    BY <1>5
  <2>2. Without(keys, gone) = (CHOOSE g : Equation(g))[1..n]
    BY <1>1 DEF Without, FoldLeft, MapThenFoldSet, Equation
  <2> QED BY <2>1, <2>2
<1>7. \A s \in SUBSET (1..n) :
        g[s] = IF s = {} THEN <<>> ELSE KeepKey(g[s \ {Max(s)}], keys[Max(s)], gone)
  BY <1>6
<1> HIDE DEF Equation
<1> DEFINE h == [i \in 0..n |-> g0[1..i]]
<1>8. Recurs(h, n, V, <<>>, step)
  BY <1>1, <1>4, FoldOrder
<1>9. h \in [0..n -> V] /\ h[0] = <<>> /\ \A i \in 1..n : h[i] = step[<<i, h[i - 1]>>]
  BY <1>8 DEF Recurs
<1> HIDE DEF h
<1> DEFINE P == {i \in 0..n : g[1..i] = h[i]}
<1>10. 0 \in P
  <2>1. 1..0 = {} /\ 0 \in 0..n /\ {} \in SUBSET (1..n)
    BY <1>1
  <2>2. g[{}] = <<>>
    BY <1>7, <2>1
  <2> QED BY <1>9, <2>1, <2>2
<1>11. ASSUME NEW i \in 1..n, i - 1 \in P PROVE i \in P
  <2>1. 1..i \in SUBSET (1..n) /\ 1..i # {} /\ Max(1..i) = i /\ (1..i) \ {i} = 1..(i - 1)
    BY <1>1, MaxUpTo
  <2>2. g[1..i] = KeepKey(g[1..(i - 1)], keys[i], gone)
    BY <1>7, <2>1
  <2>3. h[i - 1] \in V /\ g[1..(i - 1)] = h[i - 1]
    BY <1>1, <1>9, <1>11
  <2>4. g[1..i] = h[i]
    BY <1>3, <1>9, <2>2, <2>3
  <2> QED BY <1>1, <2>4
<1> HIDE DEF P
<1>12. n \in P
  <2>1. n \in Nat /\ n \in 0..n
    BY <1>1
  <2> QED BY <1>10, <1>11, <2>1, UpTo
<1>13. Without(keys, gone) = h[n]
  BY <1>6, <1>12 DEF P
<1> QED BY <1>8, <1>13 DEF n, V, step

\* The keys were used one after the other.
InUseOrder(keys, u) == \A i, j \in DOMAIN keys : i < j => u[keys[i]] < u[keys[j]]

\* What is left of the keys without some: fewer keys if one of them was there, no
\* key that is gone, every other one, in their order.
LEMMA WithoutRight ==
  ASSUME NEW keys \in Seq(Keys), NEW gone
  PROVE  /\ Without(keys, gone) \in Seq(Keys)
         /\ Len(Without(keys, gone)) <= Len(keys)
         /\ (\E i \in DOMAIN keys : keys[i] \in gone) => Len(Without(keys, gone)) < Len(keys)
         /\ \A j \in DOMAIN Without(keys, gone) :
               Without(keys, gone)[j] \notin gone /\ \E i \in DOMAIN keys : keys[i] = Without(keys, gone)[j]
         /\ \A u \in [Keys -> Nat] : InUseOrder(keys, u) => InUseOrder(Without(keys, gone), u)
<1>1. PICK h : /\ Recurs(h, Len(keys), Seq(Keys), <<>>, KeepKeyStep(keys, gone))
               /\ Without(keys, gone) = h[Len(keys)]
  BY WithoutUnfolds
<1> DEFINE n == Len(keys)
<1>2. n \in Nat /\ DOMAIN keys = 1..n /\ \A i \in 1..n : keys[i] \in Keys
  BY LenProperties, ElementOfSeq
<1>3. h \in [0..n -> Seq(Keys)] /\ h[0] = <<>> /\ \A i \in 1..n : h[i] = KeepKey(h[i - 1], keys[i], gone)
  <2>1. h \in [0..n -> Seq(Keys)] /\ h[0] = <<>> /\ \A i \in 1..n : h[i] = KeepKeyStep(keys, gone)[<<i, h[i - 1]>>]
    BY <1>1 DEF Recurs
  <2>2. \A i \in 1..n : i - 1 \in 0..n
    BY <1>2
  <2> QED BY <2>1, <2>2 DEF KeepKeyStep
<1> DEFINE Right(m) ==
             /\ Len(h[m]) <= m
             /\ (\E i \in 1..m : keys[i] \in gone) => Len(h[m]) < m
             /\ \A j \in DOMAIN h[m] : h[m][j] \notin gone /\ \E i \in 1..m : keys[i] = h[m][j]
             /\ \A u \in [Keys -> Nat] : InUseOrder(keys, u) => InUseOrder(h[m], u)
           P == {m \in 0..n : Right(m)}
<1>4. 0 \in P
  <2>1. Len(h[0]) = 0 /\ DOMAIN h[0] = {} /\ 0 \in 0..n
    BY <1>2, <1>3
  <2> QED BY <2>1 DEF InUseOrder
<1>5. ASSUME NEW m \in 1..n, m - 1 \in P PROVE m \in P
  <2>1. m - 1 \in 0..n /\ m \in 0..n /\ m \in Nat /\ keys[m] \in Keys /\ h[m - 1] \in Seq(Keys)
    BY <1>2, <1>3
  <2>2. Right(m - 1)
    BY <1>5
  <2>3. h[m] = IF keys[m] \in gone THEN h[m - 1] ELSE Append(h[m - 1], keys[m])
    BY <1>3 DEF KeepKey
  <2>4. CASE keys[m] \in gone
    <3>1. h[m] = h[m - 1]
      BY <2>3, <2>4
    <3>2. Len(h[m - 1]) \in Nat
      BY <2>1
    <3>3. Len(h[m]) < m
      BY <2>1, <2>2, <3>1, <3>2
    <3>4. \A j \in DOMAIN h[m] : h[m][j] \notin gone /\ \E i \in 1..m : keys[i] = h[m][j]
      <4>1. 1..(m - 1) \subseteq 1..m
        BY <2>1
      <4> QED BY <2>2, <3>1, <4>1
    <3> QED BY <2>1, <2>2, <3>1, <3>2, <3>3, <3>4
  <2>5. CASE keys[m] \notin gone
    <3> DEFINE L == Len(h[m - 1])
    <3>1. /\ L \in Nat /\ DOMAIN h[m - 1] = 1..L /\ Len(h[m]) = L + 1 /\ DOMAIN h[m] = 1..(L + 1)
          /\ h[m][L + 1] = keys[m] /\ \A j \in 1..L : h[m][j] = h[m - 1][j]
      BY <2>1, <2>3, <2>5
    <3>2. Len(h[m]) <= m
      BY <2>1, <2>2, <3>1
    <3>3. (\E i \in 1..m : keys[i] \in gone) => Len(h[m]) < m
      <4> SUFFICES ASSUME NEW i \in 1..m, keys[i] \in gone PROVE Len(h[m]) < m
        OBVIOUS
      <4>1. i \in 1..(m - 1)
        BY <2>1, <2>5
      <4> QED BY <2>1, <2>2, <3>1, <4>1
    <3>4. ASSUME NEW j \in DOMAIN h[m]
          PROVE  h[m][j] \notin gone /\ \E i \in 1..m : keys[i] = h[m][j]
      <4>1. CASE j = L + 1
        BY <2>1, <2>5, <3>1, <4>1
      <4>2. CASE j # L + 1
        <5>1. j \in 1..L
          BY <3>1, <4>2
        <5>2. 1..(m - 1) \subseteq 1..m
          BY <2>1
        <5> QED BY <2>2, <3>1, <5>1, <5>2
      <4> QED BY <4>1, <4>2
    <3>5. ASSUME NEW u \in [Keys -> Nat], InUseOrder(keys, u)
          PROVE  InUseOrder(h[m], u)
      <4> SUFFICES ASSUME NEW i \in DOMAIN h[m], NEW j \in DOMAIN h[m], i < j
                   PROVE  u[h[m][i]] < u[h[m][j]]
        BY DEF InUseOrder
      <4>1. i \in 1..L /\ j \in 1..(L + 1)
        BY <3>1
      <4>2. InUseOrder(h[m - 1], u)
        BY <2>2, <3>5
      <4>3. CASE j \in 1..L
        BY <3>1, <4>1, <4>2, <4>3 DEF InUseOrder
      <4>4. CASE j = L + 1
        <5>1. PICK k \in 1..(m - 1) : keys[k] = h[m - 1][i]
          BY <2>2, <3>1, <4>1
        <5>2. k < m /\ k \in DOMAIN keys /\ m \in DOMAIN keys
          BY <1>2, <2>1, <5>1
        <5>3. u[keys[k]] < u[keys[m]]
          BY <3>5, <5>2 DEF InUseOrder
        <5> QED BY <3>1, <4>1, <4>4, <5>1, <5>3
      <4>5. L \in Nat  BY <3>1
      <4> HIDE DEF L
      <4>6. j \in 1..L \/ j = L + 1
        BY <4>1, <4>5
      <4> QED BY <4>3, <4>4, <4>6
    <3> HIDE DEF L
    <3> QED BY <2>1, <3>2, <3>3, <3>4, <3>5
  <2> QED BY <2>4, <2>5
<1> HIDE DEF P
<1>6. n \in P
  <2>1. n \in 0..n
    BY <1>2
  <2> QED BY <1>2, <1>4, <1>5, <2>1, UpTo
<1>7. Right(n) /\ h[n] \in Seq(Keys)
  BY <1>2, <1>3, <1>6 DEF P
<1> QED BY <1>1, <1>2, <1>7

\* The invariant of the caches: never more keys than fit, and in the LRU cache they
\* stand in the order in which they were used, all later than what was evicted.
CacheInv ==
  /\ policy \in {"bounded", "query"} /\ max_size \in Nat
  /\ cached \in Seq(Keys) /\ cached_at \in [Keys -> Nat] /\ ttl \in [Keys -> Int]
  /\ clock \in Nat \ {0} /\ used \in [Keys -> Nat] /\ evicted \in Nat
  /\ Len(cached) <= max_size
  /\ \A k \in Keys : used[k] < clock
  /\ evicted < clock
  /\ policy = "bounded" =>
        /\ InUseOrder(cached, used)
        /\ \A i \in DOMAIN cached : used[cached[i]] > evicted

\* A new cache has it.
LEMMA CacheInitInv == CacheInit => CacheInv
<1> SUFFICES ASSUME CacheInit PROVE CacheInv
  OBVIOUS
<1>1. cached = <<>> /\ Len(cached) = 0 /\ DOMAIN cached = {} /\ cached \in Seq(Keys)
  BY DEF CacheInit
<1>2. policy \in {"bounded", "query"} /\ max_size \in Nat
  BY CacheAssumption DEF CacheInit
<1>3. /\ cached_at \in [Keys -> Nat] /\ ttl \in [Keys -> Int] /\ clock = 1 /\ evicted = 0
      /\ used \in [Keys -> Nat] /\ \A k \in Keys : used[k] = 0
  BY DEF CacheInit
<1> QED BY <1>1, <1>2, <1>3 DEF CacheInv, InUseOrder

\* A call that only drops keys, however many moments it takes, keeps it.
LEMMA DropRight ==
  ASSUME CacheInv, NEW gone, Takes(1), cached' = Without(cached, gone),
         UNCHANGED <<policy, max_size, cached_at, ttl, used, evicted>>
  PROVE  CacheInv'
<1>1. clock' = clock + 1
  BY DEF Takes
<1> DEFINE W == Without(cached, gone)
<1>2. cached \in Seq(Keys) /\ used \in [Keys -> Nat] /\ Len(cached) \in Nat /\ Len(cached) <= max_size
  BY LenProperties DEF CacheInv
<1>3. /\ W \in Seq(Keys) /\ Len(W) <= Len(cached)
      /\ \A j \in DOMAIN W : \E i \in DOMAIN cached : cached[i] = W[j]
      /\ InUseOrder(cached, used) => InUseOrder(W, used)
  BY <1>2, WithoutRight
<1> HIDE DEF W
<1>4. Len(W) \in Nat
  BY <1>3
<1>5. policy = "bounded" =>
        InUseOrder(W, used) /\ \A j \in DOMAIN W : used[W[j]] > evicted
  BY <1>3 DEF CacheInv
<1>6. cached' = W
  BY DEF W
<1>7. Len(W) <= max_size
  BY <1>2, <1>3, <1>4 DEF CacheInv
<1>8. (policy = "bounded" => InUseOrder(cached, used) /\ \A i \in DOMAIN cached : used[cached[i]] > evicted)'
  BY <1>5, <1>6 DEF InUseOrder
<1>9. clock' \in Nat \ {0} /\ evicted' < clock' /\ \A k \in Keys : used'[k] < clock'
  BY <1>1 DEF CacheInv
<1> QED BY <1>3, <1>6, <1>7, <1>8, <1>9 DEF CacheInv

\* A key that is found in the LRU cache goes to the end of it.
LEMMA BoundedGetRight ==
  ASSUME CacheInv, NEW k \in Keys, BoundedGet(k)
  PROVE  CacheInv'
<1> DEFINE W == Without(cached, {k})
<1>1. /\ policy = "bounded" /\ clock' = clock + 1 /\ cached' = Append(W, k)
      /\ used' = [used EXCEPT ![k] = clock]
      /\ UNCHANGED <<policy, max_size, cached_at, ttl, evicted>>
  BY DEF BoundedGet, Takes
<1>2. cached \in Seq(Keys) /\ used \in [Keys -> Nat] /\ Len(cached) \in Nat /\ Len(cached) <= max_size
  BY LenProperties DEF CacheInv
<1>3. \E i \in DOMAIN cached : cached[i] \in {k}
  BY DEF BoundedGet, InCache, Range
<1>4. /\ W \in Seq(Keys) /\ Len(W) < Len(cached)
      /\ \A j \in DOMAIN W : W[j] \notin {k} /\ \E i \in DOMAIN cached : cached[i] = W[j]
      /\ InUseOrder(cached, used) => InUseOrder(W, used)
  BY <1>2, <1>3, WithoutRight
<1> HIDE DEF W
<1>5. /\ Len(W) \in Nat /\ DOMAIN W = 1..Len(W) /\ Append(W, k) \in Seq(Keys)
      /\ Len(Append(W, k)) = Len(W) + 1 /\ DOMAIN Append(W, k) = 1..(Len(W) + 1)
      /\ Append(W, k)[Len(W) + 1] = k /\ \A j \in 1..Len(W) : Append(W, k)[j] = W[j]
  BY <1>4
<1>6. /\ clock \in Nat \ {0} /\ evicted \in Nat /\ evicted < clock /\ max_size \in Nat
      /\ \A x \in Keys : used[x] < clock
  BY DEF CacheInv
<1>7. used' \in [Keys -> Nat] /\ used'[k] = clock /\ \A x \in Keys \ {k} : used'[x] = used[x]
  BY <1>1, <1>2, <1>6
<1>8. \A j \in 1..Len(W) : W[j] \in Keys \ {k} /\ used'[W[j]] = used[W[j]] /\ used[W[j]] < clock /\ used[W[j]] > evicted
  <2> SUFFICES ASSUME NEW j \in 1..Len(W)
               PROVE  W[j] \in Keys \ {k} /\ used'[W[j]] = used[W[j]] /\ used[W[j]] < clock /\ used[W[j]] > evicted
    OBVIOUS
  <2>1. W[j] \in Keys \ {k}
    BY <1>4, <1>5
  <2>2. PICK i \in DOMAIN cached : cached[i] = W[j]
    BY <1>4, <1>5
  <2>3. used[cached[i]] > evicted
    BY <1>1 DEF CacheInv
  <2> QED BY <1>6, <1>7, <2>1, <2>2, <2>3
<1>9. \A i, j \in 1..(Len(W) + 1) : i < j => used'[Append(W, k)[i]] < used'[Append(W, k)[j]]
  <2> SUFFICES ASSUME NEW i \in 1..(Len(W) + 1), NEW j \in 1..(Len(W) + 1), i < j
               PROVE  used'[Append(W, k)[i]] < used'[Append(W, k)[j]]
    OBVIOUS
  <2>1. i \in 1..Len(W)
    BY <1>5
  <2>2. CASE j \in 1..Len(W)
    <3>1. used[W[i]] < used[W[j]]
      BY <1>1, <1>4, <1>5, <2>1, <2>2 DEF CacheInv, InUseOrder
    <3> QED BY <1>5, <1>8, <2>1, <2>2, <3>1
  <2>3. CASE j = Len(W) + 1
    BY <1>5, <1>7, <1>8, <2>1, <2>3
  <2> QED BY <1>5, <2>2, <2>3
<1>10. \A j \in 1..(Len(W) + 1) : used'[Append(W, k)[j]] > evicted
  <2> SUFFICES ASSUME NEW j \in 1..(Len(W) + 1) PROVE used'[Append(W, k)[j]] > evicted
    OBVIOUS
  <2>1. CASE j \in 1..Len(W)
    BY <1>5, <1>8, <2>1
  <2>2. CASE j = Len(W) + 1
    BY <1>5, <1>6, <1>7, <2>2
  <2> QED BY <1>5, <2>1, <2>2
<1>11. (policy = "bounded" => InUseOrder(cached, used) /\ \A i \in DOMAIN cached : used[cached[i]] > evicted)'
  BY <1>1, <1>5, <1>9, <1>10 DEF InUseOrder
<1>12. \A x \in Keys : used'[x] < clock'
  BY <1>1, <1>6, <1>7
<1>13. clock' \in Nat \ {0} /\ evicted' < clock'
  BY <1>1, <1>6
<1>14. cached' \in Seq(Keys) /\ Len(cached') <= max_size
  BY <1>1, <1>2, <1>4, <1>5, <1>6
<1> QED BY <1>1, <1>7, <1>11, <1>12, <1>13, <1>14 DEF CacheInv

\* Several keys that are set go to the end in their order, and what is too much goes
\* from the front: it was used before everything that stays.
LEMMA BoundedSetRight ==
  ASSUME CacheInv, NEW keys \in Seq(Keys), BoundedSet(keys),
         \A i, j \in DOMAIN keys : keys[i] = keys[j] => i = j
  PROVE  CacheInv'
<1> DEFINE W == Without(cached, Range(keys))
           all == W \o keys
           n == Len(all)
           over == Later(n - max_size, 0)
           u == [x \in Keys |-> IF x \in Range(keys) THEN clock + (CHOOSE i \in DOMAIN keys : keys[i] = x) - 1
                                ELSE used[x]]
           use(x) == IF x \in Range(keys) THEN clock + (CHOOSE i \in DOMAIN keys : keys[i] = x) - 1
                     ELSE used[x]
           gone == {evicted} \cup {u[all[i]] : i \in 1..over}
<1>1. /\ cached \in Seq(Keys) /\ used \in [Keys -> Nat] /\ clock \in Nat \ {0}
      /\ evicted \in Nat /\ evicted < clock /\ max_size \in Nat /\ \A x \in Keys : used[x] < clock
  BY DEF CacheInv
<1>2. /\ W \in Seq(Keys)
      /\ \A j \in DOMAIN W : W[j] \notin Range(keys) /\ \E i \in DOMAIN cached : cached[i] = W[j]
      /\ InUseOrder(cached, used) => InUseOrder(W, used)
  BY <1>1, WithoutRight
<1>3. /\ policy = "bounded" /\ clock' = clock + Len(keys) /\ cached' = SubSeq(all, over + 1, n)
      /\ UNCHANGED <<policy, max_size, cached_at, ttl>>
  BY DEF BoundedSet, Takes
<1>4. Len(W) \in Nat /\ DOMAIN W = 1..Len(W) /\ Len(keys) \in Nat /\ DOMAIN keys = 1..Len(keys)
      /\ \A i \in 1..Len(keys) : keys[i] \in Keys
  BY <1>2, LenProperties, ElementOfSeq
<1>5. /\ all \in Seq(Keys) /\ n = Len(W) + Len(keys)
      /\ \A i \in 1..Len(W) : all[i] = W[i]
      /\ \A i \in 1..Len(keys) : all[Len(W) + i] = keys[i]
  <2> HIDE DEF W
  <2>1. W \in Seq(Keys) /\ keys \in Seq(Keys)
    BY <1>2
  <2>2. W \o keys \in Seq(Keys) /\ Len(W \o keys) = Len(W) + Len(keys)
    BY <2>1, ConcatProperties
  <2>3. \A i \in 1..(Len(W) + Len(keys)) :
           (W \o keys)[i] = IF i <= Len(W) THEN W[i] ELSE keys[i - Len(W)]
    BY <2>1, ConcatProperties
  <2>4. ASSUME NEW i \in 1..Len(keys) PROVE (W \o keys)[Len(W) + i] = keys[i]
    BY <1>4, <2>3
  <2> QED BY <1>4, <2>2, <2>3, <2>4
<1>6. over \in 0..n /\ n - over <= max_size /\ n \in Nat
  BY <1>1, <1>4, <1>5 DEF Later
<1>7. /\ \A i \in 1..Len(keys) : u[keys[i]] = clock + i - 1
      /\ \A x \in Keys \ Range(keys) : u[x] = used[x]
      /\ u \in [Keys -> Nat] /\ \A x \in Keys : u[x] < clock + Len(keys)
  <2>1. ASSUME NEW x \in Keys, x \in Range(keys)
        PROVE  /\ u[x] \in Nat /\ u[x] < clock + Len(keys)
               /\ \A i \in 1..Len(keys) : keys[i] = x => u[x] = clock + i - 1
    <3> DEFINE p == CHOOSE i \in DOMAIN keys : keys[i] = x
    <3>1. p \in DOMAIN keys /\ keys[p] = x
      BY <2>1 DEF Range
    <3>2. u[x] = clock + p - 1
      BY <2>1
    <3>3. \A i \in 1..Len(keys) : keys[i] = x => i = p
      BY <1>4, <3>1
    <3>4. p \in 1..Len(keys) /\ Len(keys) \in Nat /\ clock \in Nat \ {0}
      BY <1>1, <1>4, <3>1
    <3> HIDE DEF p, u
    <3>5. u[x] \in Nat /\ u[x] < clock + Len(keys)
      BY <3>2, <3>4
    <3>6. \A i \in 1..Len(keys) : keys[i] = x => u[x] = clock + i - 1
      BY <3>2, <3>3
    <3> QED BY <3>5, <3>6
  <2>2. ASSUME NEW x \in Keys, x \notin Range(keys)
        PROVE  u[x] = used[x] /\ u[x] \in Nat /\ u[x] < clock + Len(keys)
    <3>1. u[x] = used[x]
      BY <2>2
    <3> HIDE DEF u
    <3> QED BY <1>1, <1>4, <3>1
  <2>3. \A i \in 1..Len(keys) : keys[i] \in Range(keys) /\ keys[i] \in Keys
    BY <1>4 DEF Range
  <2>4. u = [x \in Keys |-> u[x]]
    OBVIOUS
  <2> HIDE DEF u
  <2>5. \A x \in Keys : u[x] \in Nat /\ u[x] < clock + Len(keys)
    BY <2>1, <2>2
  <2> QED BY <2>1, <2>2, <2>3, <2>4, <2>5
<1>8. used' = u /\ evicted' = Max(gone)
  <2>1. used' = u
    BY DEF BoundedSet
  <2>2. evicted' = Max({evicted} \cup {use(all[i]) : i \in 1..over})
    BY DEF BoundedSet
  <2>3. \A i \in 1..n : all[i] \in Keys
    BY <1>5, ElementOfSeq
  <2>4. \A i \in 1..over : i \in 1..n
    <3> HIDE DEF n, over
    <3> QED BY <1>6
  <2>5. \A x \in Keys : u[x] = use(x)
    OBVIOUS
  <2> HIDE DEF u, use, all, over, n
  <2>6. {u[all[i]] : i \in 1..over} = {use(all[i]) : i \in 1..over}
    BY <2>3, <2>4, <2>5
  <2> QED BY <2>1, <2>2, <2>6
<1> HIDE DEF W, all, u, n, over, use
<1>9. \A i \in 1..Len(W) : /\ W[i] \in Keys \ Range(keys) /\ u[W[i]] = used[W[i]]
                            /\ used[W[i]] < clock /\ used[W[i]] > evicted
  <2> SUFFICES ASSUME NEW i \in 1..Len(W)
               PROVE  /\ W[i] \in Keys \ Range(keys) /\ u[W[i]] = used[W[i]]
                      /\ used[W[i]] < clock /\ used[W[i]] > evicted
    OBVIOUS
  <2>1. W[i] \in Keys \ Range(keys)
    BY <1>2, <1>4
  <2>2. PICK j \in DOMAIN cached : cached[j] = W[i]
    BY <1>2, <1>4
  <2>3. used[cached[j]] > evicted
    BY <1>3 DEF CacheInv
  <2> QED BY <1>1, <1>7, <2>1, <2>2, <2>3
<1>10. \A i \in 1..n : all[i] \in Keys /\ u[all[i]] \in Nat /\ u[all[i]] > evicted /\ u[all[i]] < clock + Len(keys)
  <2> SUFFICES ASSUME NEW i \in 1..n
               PROVE  all[i] \in Keys /\ u[all[i]] \in Nat /\ u[all[i]] > evicted /\ u[all[i]] < clock + Len(keys)
    OBVIOUS
  <2>1. CASE i \in 1..Len(W)
    BY <1>1, <1>5, <1>7, <1>9, <2>1
  <2>2. CASE i \notin 1..Len(W)
    <3>1. i - Len(W) \in 1..Len(keys) /\ i = Len(W) + (i - Len(W))
      BY <1>4, <1>5, <2>2
    <3>2. all[i] = keys[i - Len(W)]
      BY <1>5, <3>1
    <3>3. u[all[i]] = clock + (i - Len(W)) - 1 /\ all[i] \in Keys
      BY <1>4, <1>7, <3>1, <3>2
    <3>4. ASSUME NEW l \in Nat, NEW p \in 1..l, NEW c \in Nat, NEW e \in Nat, e < c
          PROVE  c + p - 1 \in Nat /\ c + p - 1 > e /\ c + p - 1 < c + l
      <4>1. p \in Nat /\ 1 <= p /\ p <= l
        OBVIOUS
      <4>2. c + p - 1 >= c /\ c + p - 1 < c + l
        BY <4>1
      <4> QED BY <3>4, <4>1, <4>2
    <3>5. Len(keys) \in Nat /\ clock \in Nat /\ evicted \in Nat /\ evicted < clock
      BY <1>1, <1>4
    <3>6. /\ clock + (i - Len(W)) - 1 \in Nat /\ clock + (i - Len(W)) - 1 > evicted
          /\ clock + (i - Len(W)) - 1 < clock + Len(keys)
      BY <3>1, <3>4, <3>5
    <3> QED BY <3>3, <3>6
  <2> QED BY <2>1, <2>2
<1>11. \A i, j \in 1..n : i < j => u[all[i]] < u[all[j]]
  <2> SUFFICES ASSUME NEW i \in 1..n, NEW j \in 1..n, i < j PROVE u[all[i]] < u[all[j]]
    OBVIOUS
  <2>0. Len(W) \in Nat /\ n \in Nat /\ Len(keys) \in Nat /\ n = Len(W) + Len(keys) /\ clock \in Nat
    BY <1>1, <1>4, <1>5
  <2>1. CASE j <= Len(W)
    <3>1. i \in 1..Len(W) /\ j \in 1..Len(W)
      BY <2>0, <2>1
    <3>2. used[W[i]] < used[W[j]]
      BY <1>2, <1>3, <1>4, <3>1 DEF CacheInv, InUseOrder
    <3> QED BY <1>5, <1>9, <3>1, <3>2
  <2>2. CASE i <= Len(W) /\ j > Len(W)
    <3>1. i \in 1..Len(W) /\ j - Len(W) \in 1..Len(keys) /\ j = Len(W) + (j - Len(W))
      BY <2>0, <2>2
    <3>2. all[i] = W[i] /\ all[j] = keys[j - Len(W)]
      BY <1>5, <3>1
    <3>3. u[all[j]] = clock + (j - Len(W)) - 1
      BY <1>7, <3>1, <3>2
    <3>4. u[all[i]] < clock /\ u[all[i]] \in Nat
      BY <1>1, <1>9, <3>1, <3>2
    <3>5. ASSUME NEW p \in Nat \ {0}, NEW c \in Nat, NEW e \in Nat, e < c PROVE e < c + p - 1
      BY <3>5
    <3>6. j - Len(W) \in Nat \ {0} /\ clock \in Nat
      BY <2>0, <3>1
    <3> QED BY <3>3, <3>4, <3>5, <3>6
  <2>3. CASE i > Len(W)
    <3>1. /\ i - Len(W) \in 1..Len(keys) /\ i = Len(W) + (i - Len(W))
          /\ j - Len(W) \in 1..Len(keys) /\ j = Len(W) + (j - Len(W))
      BY <2>0, <2>3
    <3>3. all[i] = keys[i - Len(W)] /\ all[j] = keys[j - Len(W)]
      BY <1>5, <3>1
    <3>2. u[all[i]] = clock + (i - Len(W)) - 1 /\ u[all[j]] = clock + (j - Len(W)) - 1
      BY <1>7, <3>1, <3>3
    <3>4. ASSUME NEW c \in Nat, NEW p \in Nat, NEW q \in Nat, p < q PROVE c + p - 1 < c + q - 1
      BY <3>4
    <3>5. clock \in Nat /\ i - Len(W) \in Nat /\ j - Len(W) \in Nat /\ i - Len(W) < j - Len(W)
      BY <2>0, <3>1
    <3> QED BY <3>2, <3>4, <3>5
  <2> QED BY <2>0, <2>1, <2>2, <2>3
<1>12. evicted' \in gone
  <2>1. gone \in SUBSET Nat /\ evicted \in gone /\ \A x \in gone : x <= clock + Len(keys)
    <3>1. \A i \in 1..over : i \in 1..n
      BY <1>6
    <3>2. \A i \in 1..over : u[all[i]] \in Nat /\ u[all[i]] <= clock + Len(keys)
      BY <1>1, <1>4, <1>10, <3>1
    <3>3. clock + Len(keys) \in Nat /\ evicted \in Nat /\ evicted <= clock + Len(keys)
      BY <1>1, <1>4
    <3>4. \A x \in gone : x = evicted \/ \E i \in 1..over : x = u[all[i]]
      OBVIOUS
    <3>5. evicted \in gone
      OBVIOUS
    <3>6. ASSUME NEW x \in gone PROVE x \in Nat /\ x <= clock + Len(keys)
      <4> HIDE DEF gone
      <4> QED BY <3>2, <3>3, <3>4
    <3> HIDE DEF gone
    <3> QED BY <3>5, <3>6
  <2> HIDE DEF gone
  <2>2. \E x \in gone : \A y \in gone : x >= y
    <3>1. clock + Len(keys) \in Nat /\ gone # {}
      BY <1>1, <1>4, <2>1
    <3> QED BY <2>1, <3>1, GreatestNatural
  <2> QED BY <1>8, <2>2 DEF Max
<1>13. \/ evicted' = evicted
       \/ \E i \in 1..over : evicted' = u[all[i]]
  BY <1>12
<1>14. evicted' \in Nat /\ evicted' < clock + Len(keys)
  BY <1>1, <1>4, <1>6, <1>10, <1>13
<1>15. \A j \in 1..n : j > over => u[all[j]] > evicted'
  <2> SUFFICES ASSUME NEW j \in 1..n, j > over PROVE u[all[j]] > evicted'
    OBVIOUS
  <2>1. CASE evicted' = evicted
    BY <1>10, <2>1
  <2>2. CASE \E i \in 1..over : evicted' = u[all[i]]
    <3>1. PICK i \in 1..over : evicted' = u[all[i]]
      BY <2>2
    <3>2. i \in 1..n /\ i < j
      BY <1>6, <3>1
    <3>3. u[all[i]] < u[all[j]] /\ u[all[i]] \in Nat /\ u[all[j]] \in Nat
      BY <1>10, <1>11, <3>2
    <3> QED BY <3>1, <3>3
  <2> QED BY <1>13, <2>1, <2>2
<1>16. /\ cached' \in Seq(Keys) /\ Len(cached') = n - over /\ DOMAIN cached' = 1..(n - over)
       /\ \A i \in 1..(n - over) : cached'[i] = all[over + i]
  <2>1. over + 1 \in 1..(n + 1) /\ n = Len(all)
    BY <1>6 DEF n
  <2>2. /\ SubSeq(all, over + 1, n) \in Seq(Keys)
        /\ Len(SubSeq(all, over + 1, n)) = IF over + 1 <= n THEN n - (over + 1) + 1 ELSE 0
        /\ \A i \in 1..(n - (over + 1) + 1) : SubSeq(all, over + 1, n)[i] = all[(over + 1) + i - 1]
    BY <1>5, <1>6, <2>1, SubSeqProperties
  <2>3. \A i \in 1..(n - over) : (over + 1) + i - 1 = over + i
    BY <1>6
  <2>4. n - (over + 1) + 1 = n - over
    BY <1>6
  <2>5. Len(cached') = n - over
    BY <1>3, <1>6, <2>2
  <2>6. DOMAIN cached' = 1..(n - over)
    BY <1>3, <2>2, <2>5, LenProperties
  <2> QED BY <1>3, <2>2, <2>3, <2>4, <2>5, <2>6
<1>17. \A i \in 1..(n - over) : over + i \in 1..n /\ over + i > over
  BY <1>6
<1>18. \A i \in DOMAIN cached' : used'[cached'[i]] > evicted'
  BY <1>8, <1>15, <1>16, <1>17
<1>19. \A i, j \in DOMAIN cached' : i < j => used'[cached'[i]] < used'[cached'[j]]
  <2> SUFFICES ASSUME NEW i \in 1..(n - over), NEW j \in 1..(n - over), i < j
               PROVE  used'[cached'[i]] < used'[cached'[j]]
    BY <1>16
  <2>1. over + i < over + j
    BY <1>6
  <2> QED BY <1>8, <1>11, <1>16, <1>17, <2>1
<1>20. /\ clock' \in Nat \ {0} /\ evicted' \in Nat /\ evicted' < clock'
       /\ used' \in [Keys -> Nat] /\ \A x \in Keys : used'[x] < clock'
  BY <1>1, <1>3, <1>4, <1>7, <1>8, <1>14
<1>21. Len(cached') <= max_size'
  BY <1>3, <1>6, <1>16
<1>22. (policy = "bounded" => InUseOrder(cached, used) /\ \A i \in DOMAIN cached : used[cached[i]] > evicted)'
  BY <1>18, <1>19 DEF InUseOrder
<1> QED BY <1>3, <1>16, <1>20, <1>21, <1>22 DEF CacheInv

\* A key that is found in the cache of the queries stays or is dropped.
LEMMA QueryGetRight ==
  ASSUME CacheInv, NEW k \in Keys, QueryGet(k)
  PROVE  CacheInv'
<1>1. CASE Expired(k)
  <2>1. Takes(1) /\ cached' = Without(cached, {k})
        /\ UNCHANGED <<policy, max_size, cached_at, ttl, used, evicted>>
    BY <1>1 DEF QueryGet
  <2> QED BY <2>1, DropRight
<1>2. CASE ~Expired(k)
  <2>1. /\ policy = "query" /\ clock' = clock + 1 /\ used' = [used EXCEPT ![k] = clock]
        /\ UNCHANGED <<policy, max_size, cached, cached_at, ttl, evicted>>
    BY <1>2 DEF QueryGet, Takes
  <2>2. used \in [Keys -> Nat] /\ clock \in Nat \ {0} /\ evicted < clock /\ evicted \in Nat /\ \A x \in Keys : used[x] < clock
    BY DEF CacheInv
  <2>3. used' \in [Keys -> Nat] /\ \A x \in Keys : used'[x] < clock'
    BY <2>1, <2>2
  <2>4. clock' \in Nat \ {0} /\ evicted' < clock'
    BY <2>1, <2>2
  <2> QED BY <2>1, <2>3, <2>4 DEF CacheInv
<1> QED BY <1>1, <1>2

\* A full cache of the queries loses its oldest entry before another is set.
LEMMA QuerySetRight ==
  ASSUME CacheInv, NEW k \in Keys, NEW t \in Ttls \cup {NoTtl}, QuerySet(k, t)
  PROVE  CacheInv'
<1> DEFINE oldest == CHOOSE o \in Range(cached) : \A x \in Range(cached) : cached_at[o] <= cached_at[x]
           full == Len(cached) >= max_size
           W == Without(cached, {oldest})
           rest == IF full THEN W ELSE cached
           time == IF t \in {0, NoTtl} THEN DefaultTtl ELSE t
<1>1. /\ cached \in Seq(Keys) /\ used \in [Keys -> Nat] /\ clock \in Nat \ {0}
      /\ evicted \in Nat /\ evicted < clock /\ max_size \in Nat /\ \A x \in Keys : used[x] < clock
      /\ cached_at \in [Keys -> Nat] /\ ttl \in [Keys -> Int] /\ Len(cached) <= max_size
  BY DEF CacheInv
<1>2. Len(cached) \in Nat /\ DOMAIN cached = 1..Len(cached) /\ \A i \in 1..Len(cached) : cached[i] \in Keys
  BY <1>1, LenProperties, ElementOfSeq
<1>3. /\ policy = "query" /\ max_size > 0 /\ clock' = clock + 1
      /\ cached' = IF k \in Range(rest) THEN rest ELSE Append(rest, k)
      /\ evicted' = IF full /\ oldest # k THEN Later(evicted, used[oldest]) ELSE evicted
      /\ cached_at' = [cached_at EXCEPT ![k] = clock]
      /\ ttl' = [ttl EXCEPT ![k] = time]
      /\ used' = [used EXCEPT ![k] = clock]
      /\ UNCHANGED <<policy, max_size>>
  BY DEF QuerySet, Takes
<1>4. time \in Int
  BY CacheAssumption
<1>5. full => oldest \in Range(cached)
  <2> SUFFICES ASSUME full PROVE \E o \in Range(cached) : \A x \in Range(cached) : cached_at[o] <= cached_at[x]
    OBVIOUS
  <2> DEFINE moments == {cached_at[x] : x \in Range(cached)}
  <2>0. 1 \in 1..Len(cached)
    <3>1. max_size > 0 /\ Len(cached) >= max_size
      BY <1>3
    <3> QED BY <1>1, <1>2, <3>1
  <2>1. Range(cached) \subseteq Keys /\ cached[1] \in Range(cached)
    BY <1>2, <2>0 DEF Range
  <2>2. moments \in SUBSET Nat /\ moments # {}
    BY <1>1, <2>1
  <2>3. PICK m \in moments : \A x \in moments : m <= x
    <3> HIDE DEF moments
    <3> QED BY <2>2, LeastNatural
  <2> QED BY <2>3
<1> HIDE DEF oldest, time
<1>6. full => /\ W \in Seq(Keys) /\ Len(W) < Len(cached)
  <2>1. full => \E i \in DOMAIN cached : cached[i] \in {oldest}
    BY <1>5 DEF Range
  <2> QED BY <1>1, <2>1, WithoutRight
<1>7. rest \in Seq(Keys) /\ Len(rest) < max_size
  <2>1. CASE full
    <3>1. W \in Seq(Keys) /\ Len(W) < Len(cached)
      BY <1>6, <2>1
    <3> HIDE DEF W
    <3>2. Len(W) \in Nat
      BY <3>1, LenProperties
    <3> QED BY <1>1, <1>2, <2>1, <3>1, <3>2
  <2>2. CASE ~full
    BY <1>1, <1>2, <2>2
  <2> QED BY <2>1, <2>2
<1> HIDE DEF rest
<1>8. cached' \in Seq(Keys) /\ Len(cached') <= max_size
  <2>1. Len(rest) \in Nat
    BY <1>7, LenProperties
  <2>2. Append(rest, k) \in Seq(Keys) /\ Len(Append(rest, k)) = Len(rest) + 1
    BY <1>7
  <2>3. CASE k \in Range(rest)
    <3>1. cached' = rest
      BY <1>3, <2>3
    <3> QED BY <1>1, <1>7, <2>1, <3>1
  <2>4. CASE k \notin Range(rest)
    <3>1. cached' = Append(rest, k)
      BY <1>3, <2>4
    <3> QED BY <1>1, <1>7, <2>1, <2>2, <3>1
  <2> QED BY <2>3, <2>4
<1>9. evicted' \in Nat /\ evicted' < clock'
  <2>1. full => oldest \in Keys
    BY <1>1, <1>2, <1>5 DEF Range
  <2>2. CASE full /\ oldest # k
    <3>1. evicted' = Later(evicted, used[oldest]) /\ used[oldest] \in Nat /\ used[oldest] < clock
      BY <1>1, <1>3, <2>1, <2>2
    <3>2. evicted \in Nat /\ evicted < clock /\ clock \in Nat /\ clock' = clock + 1
      BY <1>1, <1>3
    <3>3. evicted' = evicted \/ evicted' = used[oldest]
      BY <3>1 DEF Later
    <3> QED BY <3>1, <3>2, <3>3
  <2>3. CASE ~(full /\ oldest # k)
    <3>1. evicted' = evicted
      BY <1>3, <2>3
    <3> QED BY <1>1, <1>3, <3>1
  <2> QED BY <2>2, <2>3
<1>10. /\ cached_at' \in [Keys -> Nat] /\ ttl' \in [Keys -> Int]
       /\ used' \in [Keys -> Nat] /\ \A x \in Keys : used'[x] < clock'
  BY <1>1, <1>3, <1>4
<1>11. clock' \in Nat \ {0} /\ policy' = "query" /\ max_size' = max_size
  BY <1>1, <1>3
<1> QED BY <1>1, <1>8, <1>9, <1>10, <1>11 DEF CacheInv

\* One or two keys that are set at a time are different ones.
LEMMA SetKeys ==
  ASSUME NEW keys \in {<<k>> : k \in Keys} \cup (Keys \X Keys),
         Cardinality(Range(keys)) = Len(keys)
  PROVE  keys \in Seq(Keys) /\ \A i, j \in DOMAIN keys : keys[i] = keys[j] => i = j
<1>1. CASE \E k \in Keys : keys = <<k>>
  BY <1>1
<1>2. CASE \E k, l \in Keys : keys = <<k, l>>
  <2>1. PICK k, l \in Keys : keys = <<k, l>>
    BY <1>2
  <2>2. Range(keys) = {k, l} /\ Len(keys) = 2 /\ DOMAIN keys = 1..2 /\ keys \in Seq(Keys)
    BY <2>1 DEF Range
  <2>3. k # l
    <3>1. SUFFICES ASSUME k = l PROVE FALSE
      OBVIOUS
    <3>2. Range(keys) = {k}
      BY <2>2, <3>1
    <3>3. Cardinality({k}) = 1
      BY FS_Singleton
    <3>4. Len(keys) = 1
      BY <3>2, <3>3
    <3>5. Len(keys) = 2 /\ 1 # 2
      BY <2>1
    <3> QED BY <3>4, <3>5, Zenon
  <2> QED BY <2>1, <2>2, <2>3
<1> QED BY <1>1, <1>2

\* Every call keeps the invariant.
LEMMA CacheNextInv == CacheInv /\ [CacheNext]_cacheVars => CacheInv'
<1> SUFFICES ASSUME CacheInv, [CacheNext]_cacheVars PROVE CacheInv'
  OBVIOUS
<1>1. ASSUME NEW k \in Keys, BoundedGet(k) PROVE CacheInv'
  BY <1>1, BoundedGetRight
<1>2. ASSUME NEW k \in Keys, QueryGet(k) PROVE CacheInv'
  BY <1>2, QueryGetRight
<1>3. ASSUME NEW gone, Drop(gone) PROVE CacheInv'
  BY <1>3, DropRight DEF Drop
<1>4. ASSUME NEW k \in Keys, NEW t \in Ttls \cup {NoTtl}, QuerySet(k, t) PROVE CacheInv'
  BY <1>4, QuerySetRight
<1>5. ASSUME NEW keys \in {<<k>> : k \in Keys} \cup (Keys \X Keys),
             Cardinality(Range(keys)) = Len(keys), BoundedSet(keys)
      PROVE  CacheInv'
  <2>1. keys \in Seq(Keys) /\ \A i, j \in DOMAIN keys : keys[i] = keys[j] => i = j
    BY <1>5, SetKeys
  <2> QED BY <1>5, <2>1, BoundedSetRight
<1>6. CASE UNCHANGED cacheVars
  BY <1>6 DEF cacheVars, CacheInv, InUseOrder
<1>7. ASSUME CacheNext PROVE CacheInv'
  <2>1. CASE \E k \in Keys : BoundedGet(k) \/ QueryGet(k) \/ Drop({k})
    BY <1>1, <1>2, <1>3, <2>1
  <2>2. CASE \E k \in Keys, t \in Ttls \cup {NoTtl} : QuerySet(k, t)
    BY <1>4, <2>2
  <2>3. CASE \E keys \in {<<k>> : k \in Keys} \cup (Keys \X Keys) :
                Cardinality(Range(keys)) = Len(keys) /\ BoundedSet(keys)
    BY <1>5, <2>3
  <2>4. CASE Drop(Keys)
    BY <1>3, <2>4
  <2> QED BY <1>7, <2>1, <2>2, <2>3, <2>4 DEF CacheNext
<1> QED BY <1>6, <1>7

\* The caches (core/indexing/cache.py, core/optimizer/cache.py), for any keys, sizes
\* and times to live: after every call there are at most max_size entries, also after
\* one that sets more than fit, and the bounded cache has only evicted what was used
\* before everything that it still has.
THEOREM CachesKeepBound == CacheSpec => []CachesRight
<1>1. CacheInv => CachesRight
  BY DEF CacheInv, CachesRight, WithinBound, EvictsLeastRecent, Range
<1> QED BY <1>1, CacheInitInv, CacheNextInv, PTL DEF CacheSpec

-----------------------------------------------------------------------------
(* The worker (Worker).                                                        *)

Stages == {"ready", "taken", "running", "finished", "dropped", "returned"}
Over(t) == exec[t] \in {"finished", "dropped", "returned"}

\* The invariant of the worker: whose task it has is executing that task, and
\* somebody who will set it idle executes while it is busy.
WorkerShape ==
  /\ WorkerTypeOK
  /\ exec \in [Executors -> Stages]
  /\ task_state \in [Executors -> {"PENDING", "RUNNING", "COMPLETED", "FAILED"}]
  /\ wresults \in Seq([thread : Executors, success : BOOLEAN])
WorkerHands ==
  /\ current # NoExecutor => exec[current] \in {"taken", "running", "finished"}
  /\ wstatus = "BUSY" => \E t \in Executors : exec[t] \in {"running", "finished", "dropped"}
WorkerInv == WorkerShape /\ WorkerHands /\ OneResult /\ HeartbeatKept

\* A worker that was made has it.
LEMMA WorkerInitInv == WorkerInit => WorkerInv
<1> SUFFICES ASSUME WorkerInit PROVE WorkerInv
  OBVIOUS
<1> USE DEF WorkerInit, WorkerIdle
<1>1. wresults = <<>> /\ DOMAIN wresults = {} /\ wresults \in Seq([thread : Executors, success : BOOLEAN])
  OBVIOUS
<1>2. DOMAIN exec = Executors /\ exec \in [Executors -> Stages] /\ \A t \in Executors : exec[t] = "ready"
  BY DEF Stages
<1>3. /\ task_state \in [Executors -> {"PENDING", "RUNNING", "COMPLETED", "FAILED"}]
      /\ \A t \in Executors : task_state[t] = "PENDING"
  OBVIOUS
<1>4. WorkerShape
  BY <1>1, <1>2, <1>3, WorkerAssumption DEF WorkerShape, WorkerTypeOK
<1>5. OneResult
  BY <1>1, <1>2, <1>3 DEF OneResult
<1> QED BY <1>4, <1>5 DEF WorkerInv, WorkerHands, HeartbeatKept

\* Starting, stopping and the heartbeats touch no task.
LEMMA ControlRight ==
  ASSUME WorkerInv, StartWorker \/ StopWorker \/ BeatEnds
  PROVE  WorkerInv'
<1> USE DEF WorkerInv
<1>1. UNCHANGED <<current, exec, task_state, wresults>>
  BY DEF StartWorker, StopWorker, BeatEnds
<1>2. /\ wstatus' \in {"IDLE", "STOPPED"} \/ wstatus' = wstatus
      /\ starts \in 0..MaxStarts /\ beats \in 0..starts /\ MaxStarts \in Nat
  BY WorkerAssumption DEF StartWorker, StopWorker, BeatEnds, WorkerShape, WorkerTypeOK
<1>3. starts' \in 0..MaxStarts /\ beats' \in 0..starts'
  BY <1>2 DEF StartWorker, StopWorker, BeatEnds
<1>4. WorkerShape'
  BY <1>1, <1>2, <1>3 DEF WorkerShape, WorkerTypeOK
<1>5. OneResult'
  BY <1>1 DEF OneResult
<1>6. WorkerHands'
  BY <1>1, <1>2 DEF WorkerHands
<1>7. HeartbeatKept'
  <2>1. CASE StartWorker
    BY <1>2, <2>1 DEF StartWorker, HeartbeatKept
  <2>2. CASE StopWorker
    BY <2>2 DEF StopWorker, HeartbeatKept
  <2>3. CASE BeatEnds
    BY <2>3 DEF BeatEnds, HeartbeatKept
  <2> QED BY <2>1, <2>2, <2>3
<1> QED BY <1>4, <1>5, <1>6, <1>7

\* A step of a thread from one stage to another.
LEMMA MovesRight ==
  ASSUME WorkerInv, NEW t \in Executors, NEW from \in Stages, NEW to \in Stages, Moves_(t, from, to)
  PROVE  /\ exec[t] = from /\ exec' \in [Executors -> Stages] /\ exec'[t] = to
         /\ \A o \in Executors \ {t} : exec'[o] = exec[o]
         /\ DOMAIN exec = Executors /\ DOMAIN exec' = Executors
BY DEF WorkerInv, WorkerShape, Moves_

\* Nobody is ready but who was, and a thread that has taken its task is not.
LEMMA NotQuiet ==
  ASSUME WorkerInv, NEW t \in Executors, exec' \in [Executors -> Stages], exec'[t] # "ready"
  PROVE  HeartbeatKept'
BY DEF HeartbeatKept

\* A thread that does not finish its task leaves the results as they are.
LEMMA ResultsStay ==
  ASSUME WorkerInv, NEW t \in Executors, UNCHANGED wresults,
         exec' \in [Executors -> Stages], \A o \in Executors \ {t} : exec'[o] = exec[o],
         task_state' \in [Executors -> {"PENDING", "RUNNING", "COMPLETED", "FAILED"}],
         \A o \in Executors \ {t} : task_state'[o] = task_state[o],
         \/ Over(t) /\ Over(t)' /\ task_state'[t] = task_state[t]
         \/ ~Over(t) /\ ~Over(t)' /\ task_state'[t] \in {"PENDING", "RUNNING"}
  PROVE  OneResult'
<1> USE DEF WorkerInv, Over
<1>1. DOMAIN exec = Executors /\ DOMAIN exec' = Executors
  BY DEF WorkerShape
<1>2. \A i, j \in DOMAIN wresults : wresults[i].thread = wresults[j].thread => i = j
  BY DEF OneResult
<1>3. ASSUME NEW o \in Executors
      PROVE  /\ Over(o)' <=> \E i \in DOMAIN wresults : wresults[i].thread = o
             /\ Over(o)' <=> task_state'[o] \in {"COMPLETED", "FAILED"}
             /\ \A i \in DOMAIN wresults : wresults[i].thread = o =>
                   (wresults[i].success <=> task_state'[o] = "COMPLETED")
  <2>1. /\ Over(o) <=> \E i \in DOMAIN wresults : wresults[i].thread = o
        /\ Over(o) <=> task_state[o] \in {"COMPLETED", "FAILED"}
        /\ \A i \in DOMAIN wresults : wresults[i].thread = o =>
              (wresults[i].success <=> task_state[o] = "COMPLETED")
    BY <1>1 DEF OneResult
  <2>2. CASE o # t
    <3>1. (Over(o)' <=> Over(o)) /\ task_state'[o] = task_state[o]
      BY <2>2
    <3> QED BY <2>1, <3>1
  <2>3. CASE o = t /\ Over(t)
    <3>1. Over(o)' /\ Over(o) /\ task_state'[o] = task_state[o]
      BY <2>3
    <3> QED BY <2>1, <3>1
  <2>4. CASE o = t /\ ~Over(t)
    <3>1. ~Over(o)' /\ ~Over(o) /\ task_state'[o] \notin {"COMPLETED", "FAILED"}
      BY <2>4
    <3>2. ~\E i \in DOMAIN wresults : wresults[i].thread = o
      BY <2>1, <3>1
    <3> QED BY <3>1, <3>2
  <2> QED BY <2>2, <2>3, <2>4
<1>4. wresults' = wresults
  OBVIOUS
<1> QED BY <1>1, <1>2, <1>3, <1>4 DEF OneResult

\* A thread that finishes its task adds its one result, which says what became of it.
LEMMA FinishRight ==
  ASSUME WorkerInv, NEW t \in Executors, FinishTask(t)
  PROVE  wresults' \in Seq([thread : Executors, success : BOOLEAN]) /\ OneResult'
<1> DEFINE r == [thread |-> t, success |-> t \notin BadTasks]
           R == [thread : Executors, success : BOOLEAN]
           n == Len(wresults)
<1>1. /\ wresults \in Seq(R) /\ DOMAIN exec = Executors
      /\ task_state \in [Executors -> {"PENDING", "RUNNING", "COMPLETED", "FAILED"}]
  BY DEF WorkerInv, WorkerShape
<1>2. /\ wresults' = Append(wresults, r) /\ Moves_(t, "running", "finished")
      /\ task_state' = [task_state EXCEPT ![t] = IF t \in BadTasks THEN "FAILED" ELSE "COMPLETED"]
  BY DEF FinishTask
<1>3. /\ exec[t] = "running" /\ exec'[t] = "finished" /\ DOMAIN exec' = Executors
      /\ \A o \in Executors \ {t} : exec'[o] = exec[o]
  BY <1>2, MovesRight DEF Stages
<1>4. r \in R /\ r.thread = t /\ (r.success <=> t \notin BadTasks)
  OBVIOUS
<1>5. /\ task_state'[t] = IF t \in BadTasks THEN "FAILED" ELSE "COMPLETED"
      /\ \A o \in Executors \ {t} : task_state'[o] = task_state[o]
  BY <1>1, <1>2
<1> HIDE DEF R, r
<1>6. /\ wresults' \in Seq(R) /\ n \in Nat /\ DOMAIN wresults = 1..n /\ DOMAIN wresults' = 1..(n + 1)
      /\ wresults'[n + 1] = r /\ \A i \in 1..n : wresults'[i] = wresults[i]
  BY <1>1, <1>2, <1>4
<1> HIDE DEF n
<1>7. /\ \A i, j \in DOMAIN wresults : wresults[i].thread = wresults[j].thread => i = j
      /\ \A o \in DOMAIN exec :
           /\ Over(o) <=> \E i \in DOMAIN wresults : wresults[i].thread = o
           /\ Over(o) <=> task_state[o] \in {"COMPLETED", "FAILED"}
           /\ \A i \in DOMAIN wresults : wresults[i].thread = o =>
                 (wresults[i].success <=> task_state[o] = "COMPLETED")
  BY DEF WorkerInv, OneResult, Over
<1>8. ~Over(t) /\ Over(t)'
  BY <1>3 DEF Over
<1>9. \A i \in 1..n : wresults[i].thread # t
  BY <1>1, <1>6, <1>7, <1>8
<1>10. ASSUME NEW i \in 1..(n + 1), NEW j \in 1..(n + 1), wresults'[i].thread = wresults'[j].thread
       PROVE  i = j
  <2>1. CASE i \in 1..n /\ j \in 1..n
    BY <1>6, <1>7, <1>10, <2>1
  <2>2. CASE i \in 1..n /\ j = n + 1
    BY <1>4, <1>6, <1>9, <1>10, <2>2
  <2>3. CASE i = n + 1 /\ j \in 1..n
    BY <1>4, <1>6, <1>9, <1>10, <2>3
  <2> QED BY <1>6, <2>1, <2>2, <2>3
<1>11. ASSUME NEW o \in Executors
       PROVE  /\ Over(o)' <=> \E i \in 1..(n + 1) : wresults'[i].thread = o
              /\ Over(o)' <=> task_state'[o] \in {"COMPLETED", "FAILED"}
              /\ \A i \in 1..(n + 1) : wresults'[i].thread = o =>
                    (wresults'[i].success <=> task_state'[o] = "COMPLETED")
  <2>1. \A i \in 1..(n + 1) : i \in 1..n \/ i = n + 1
    BY <1>6
  <2>2. 1..n \subseteq 1..(n + 1) /\ n + 1 \in 1..(n + 1)
    BY <1>6
  <2>3. CASE o = t
    <3>1. \A i \in 1..(n + 1) : wresults'[i].thread = t => i = n + 1
      BY <1>6, <1>9, <2>1
    <3>2. wresults'[n + 1].thread = t /\ (wresults'[n + 1].success <=> t \notin BadTasks)
      BY <1>4, <1>6
    <3> QED BY <1>5, <1>8, <2>2, <2>3, <3>1, <3>2
  <2>4. CASE o # t
    <3>1. (Over(o)' <=> Over(o)) /\ task_state'[o] = task_state[o]
      BY <1>3, <1>5, <2>4 DEF Over
    <3>2. \A i \in 1..(n + 1) : wresults'[i].thread = o => i \in 1..n /\ wresults[i].thread = o
      BY <1>4, <1>6, <2>1, <2>4
    <3>3. \A i \in 1..n : wresults[i].thread = o => wresults'[i].thread = o /\ i \in 1..(n + 1)
      BY <1>6, <2>2
    <3>4. /\ Over(o) <=> \E i \in 1..n : wresults[i].thread = o
          /\ Over(o) <=> task_state[o] \in {"COMPLETED", "FAILED"}
          /\ \A i \in 1..n : wresults[i].thread = o => (wresults[i].success <=> task_state[o] = "COMPLETED")
      BY <1>1, <1>6, <1>7
    <3>5. Over(o)' <=> \E i \in 1..(n + 1) : wresults'[i].thread = o
      BY <3>1, <3>2, <3>3, <3>4
    <3>6. \A i \in 1..(n + 1) : wresults'[i].thread = o =>
                    (wresults'[i].success <=> task_state'[o] = "COMPLETED")
      BY <1>6, <3>1, <3>2, <3>4
    <3> QED BY <3>1, <3>4, <3>5, <3>6
  <2> QED BY <2>3, <2>4
<1>12. \A i, j \in DOMAIN wresults' : wresults'[i].thread = wresults'[j].thread => i = j
  BY <1>6, <1>10
<1>13. ASSUME NEW o \in DOMAIN exec'
       PROVE  /\ Over(o)' <=> \E i \in DOMAIN wresults' : wresults'[i].thread = o
              /\ Over(o)' <=> task_state'[o] \in {"COMPLETED", "FAILED"}
              /\ \A i \in DOMAIN wresults' : wresults'[i].thread = o =>
                    (wresults'[i].success <=> task_state'[o] = "COMPLETED")
  BY <1>3, <1>6, <1>11
<1>14. OneResult'
  BY <1>12, <1>13 DEF OneResult, Over
<1> QED BY <1>6, <1>14 DEF R

\* Every step of a thread that executes keeps the invariant, whatever the others and
\* the control thread did between its steps.
LEMMA ExecuteRight ==
  ASSUME WorkerInv, NEW t \in Executors,
         TakeTask(t) \/ SetBusy(t) \/ FinishTask(t) \/ DropTask(t) \/ SetIdle(t)
  PROVE  WorkerInv'
<1> DEFINE States == {"PENDING", "RUNNING", "COMPLETED", "FAILED"}
<1>1. /\ wstatus \in {"IDLE", "BUSY", "STOPPED"} /\ current \in Executors \union {NoExecutor}
      /\ starts \in 0..MaxStarts /\ beats \in 0..starts
      /\ exec \in [Executors -> Stages] /\ task_state \in [Executors -> States]
      /\ wresults \in Seq([thread : Executors, success : BOOLEAN])
      /\ t \in DOMAIN task_state
  BY DEF WorkerInv, WorkerShape, WorkerTypeOK
<1>2. NoExecutor \notin Executors /\ t # NoExecutor
  BY WorkerAssumption
<1>3. /\ current # NoExecutor => exec[current] \in {"taken", "running", "finished"}
      /\ wstatus = "BUSY" => \E o \in Executors : exec[o] \in {"running", "finished", "dropped"}
  BY DEF WorkerInv, WorkerHands
<1>4. CASE TakeTask(t)
  <2>1. /\ exec' \in [Executors -> Stages] /\ exec[t] = "ready" /\ exec'[t] = "taken"
        /\ \A o \in Executors \ {t} : exec'[o] = exec[o]
    BY <1>4, MovesRight DEF TakeTask, Stages
  <2>2. current' = t /\ UNCHANGED <<wstatus, task_state, wresults, starts, beats>>
    BY <1>4 DEF TakeTask
  <2>3. WorkerShape'
    BY <1>1, <2>1, <2>2 DEF WorkerShape, WorkerTypeOK
  <2>4. WorkerHands'
    BY <1>1, <1>3, <2>1, <2>2 DEF WorkerHands
  <2>5. OneResult'
    <3>1. task_state[t] \in {"PENDING", "RUNNING"}
      BY <1>1, <2>1 DEF WorkerInv, OneResult
    <3> QED BY <1>1, <2>1, <2>2, <3>1, ResultsStay DEF Over
  <2> QED BY <2>1, <2>3, <2>4, <2>5, NotQuiet DEF WorkerInv
<1>5. CASE SetBusy(t)
  <2>1. /\ exec' \in [Executors -> Stages] /\ exec[t] = "taken" /\ exec'[t] = "running"
        /\ \A o \in Executors \ {t} : exec'[o] = exec[o]
    BY <1>5, MovesRight DEF SetBusy, Stages
  <2>2. /\ wstatus' = "BUSY" /\ task_state' = [task_state EXCEPT ![t] = "RUNNING"]
        /\ UNCHANGED <<current, wresults, starts, beats>>
    BY <1>5 DEF SetBusy
  <2>3. /\ task_state' \in [Executors -> States] /\ task_state'[t] = "RUNNING"
        /\ \A o \in Executors \ {t} : task_state'[o] = task_state[o]
    BY <1>1, <2>2
  <2>4. WorkerShape'
    BY <1>1, <2>1, <2>2, <2>3 DEF WorkerShape, WorkerTypeOK
  <2>5. WorkerHands'
    BY <1>1, <1>3, <2>1, <2>2 DEF WorkerHands
  <2>6. OneResult'
    BY <2>1, <2>2, <2>3, ResultsStay DEF Over
  <2> QED BY <2>1, <2>4, <2>5, <2>6, NotQuiet DEF WorkerInv
<1>6. CASE FinishTask(t)
  <2>1. /\ exec' \in [Executors -> Stages] /\ exec[t] = "running" /\ exec'[t] = "finished"
        /\ \A o \in Executors \ {t} : exec'[o] = exec[o]
    BY <1>6, MovesRight DEF FinishTask, Stages
  <2>2. /\ task_state' = [task_state EXCEPT ![t] = IF t \in BadTasks THEN "FAILED" ELSE "COMPLETED"]
        /\ UNCHANGED <<wstatus, current, starts, beats>>
    BY <1>6 DEF FinishTask
  <2>3. task_state' \in [Executors -> States]
    BY <1>1, <2>2
  <2>4. wresults' \in Seq([thread : Executors, success : BOOLEAN]) /\ OneResult'
    BY <1>6, FinishRight
  <2>5. WorkerShape'
    BY <1>1, <2>1, <2>2, <2>3, <2>4 DEF WorkerShape, WorkerTypeOK
  <2>6. WorkerHands'
    <3>1. current # NoExecutor => exec'[current] \in {"taken", "running", "finished"}
      BY <1>1, <1>3, <2>1
    <3>2. wstatus = "BUSY" => \E o \in Executors : exec'[o] \in {"running", "finished", "dropped"}
      BY <2>1
    <3> QED BY <2>2, <3>1, <3>2 DEF WorkerHands
  <2> QED BY <2>1, <2>4, <2>5, <2>6, NotQuiet DEF WorkerInv
<1>7. CASE DropTask(t)
  <2>1. /\ exec' \in [Executors -> Stages] /\ exec[t] = "finished" /\ exec'[t] = "dropped"
        /\ \A o \in Executors \ {t} : exec'[o] = exec[o]
    BY <1>7, MovesRight DEF DropTask, Stages
  <2>2. current' = NoExecutor /\ UNCHANGED <<wstatus, task_state, wresults, starts, beats>>
    BY <1>7 DEF DropTask
  <2>3. WorkerShape'
    BY <1>1, <2>1, <2>2 DEF WorkerShape, WorkerTypeOK
  <2>4. WorkerHands'
    BY <2>1, <2>2 DEF WorkerHands
  <2>5. OneResult'
    BY <1>1, <2>1, <2>2, ResultsStay DEF Over
  <2> QED BY <2>1, <2>3, <2>4, <2>5, NotQuiet DEF WorkerInv
<1>8. CASE SetIdle(t)
  <2>1. /\ exec' \in [Executors -> Stages] /\ exec[t] = "dropped" /\ exec'[t] = "returned"
        /\ \A o \in Executors \ {t} : exec'[o] = exec[o]
    BY <1>8, MovesRight DEF SetIdle, Stages
  <2>2. wstatus' = "IDLE" /\ UNCHANGED <<current, task_state, wresults, starts, beats>>
    BY <1>8 DEF SetIdle
  <2>3. WorkerShape'
    BY <1>1, <2>1, <2>2 DEF WorkerShape, WorkerTypeOK
  <2>4. WorkerHands'
    BY <1>1, <1>3, <2>1, <2>2 DEF WorkerHands
  <2>5. OneResult'
    BY <1>1, <2>1, <2>2, ResultsStay DEF Over
  <2> QED BY <2>1, <2>3, <2>4, <2>5, NotQuiet DEF WorkerInv
<1> QED BY <1>4, <1>5, <1>6, <1>7, <1>8

\* A worker (core/distributed/worker.py), for any number of threads that execute in
\* it and of starts, however their steps overlap: every task that was finished has
\* one result, which says what became of it; when nothing executes the worker has no
\* task and is not busy; and it has a heartbeat as long as it was only started.
THEOREM WorkerKeepsResults == WorkerSpec => [](WorkerTypeOK /\ WorkerRight)
<1>1. WorkerInv => WorkerTypeOK /\ WorkerRight
  <2> SUFFICES ASSUME WorkerInv PROVE WorkerTypeOK /\ WorkerRight
    OBVIOUS
  <2>1. WorkerTypeOK /\ exec \in [Executors -> Stages]
    BY DEF WorkerInv, WorkerShape
  <2>2. QuietWhenDone
    BY <2>1 DEF WorkerInv, WorkerHands, QuietWhenDone, Executing, WorkerTypeOK
  <2> QED BY <2>1, <2>2 DEF WorkerInv, WorkerRight
<1>2. WorkerInv /\ [WorkerNext]_workerVars => WorkerInv'
  <2> SUFFICES ASSUME WorkerInv, [WorkerNext]_workerVars PROVE WorkerInv'
    OBVIOUS
  <2>1. DOMAIN exec = Executors
    BY DEF WorkerInv, WorkerShape
  <2>2. CASE UNCHANGED workerVars
    BY <2>2 DEF workerVars, WorkerInv, WorkerShape, WorkerTypeOK, WorkerHands, OneResult, HeartbeatKept
  <2>3. CASE StartWorker \/ StopWorker \/ BeatEnds
    BY <2>3, ControlRight
  <2>4. CASE \E t \in Executors :
                TakeTask(t) \/ SetBusy(t) \/ FinishTask(t) \/ DropTask(t) \/ SetIdle(t)
    BY <2>4, ExecuteRight
  <2> QED BY <2>1, <2>2, <2>3, <2>4 DEF WorkerNext
<1> QED BY <1>1, <1>2, WorkerInitInv, PTL DEF WorkerSpec

-----------------------------------------------------------------------------
(* Acquisition sessions and the transport (Acquisition).                      *)

\* What is logged: an operation, and whose it is or what went through.
By == Sessions \cup Chunks
Entry == [op : {"start", "pause", "resume", "end", "connect", "disconnect", "send", "error", "receive"},
          by : By]

SinceStep(op) ==
  [p \in Seq(By) \X Entry |->
     IF p[2].op = "disconnect" THEN <<>>
     ELSE IF p[2].op = op /\ p[2].by # "" THEN Append(p[1], p[2].by) ELSE p[1]]

\* Since goes through the log from its begin.
LEMMA SinceTakes ==
  ASSUME NEW op
  PROVE  /\ Since(op, <<>>) = <<>>
         /\ \A log \in Seq(Entry) : Since(op, log) \in Seq(By)
         /\ \A log \in Seq(Entry), e \in Entry :
              Since(op, Append(log, e)) =
                IF e.op = "disconnect" THEN <<>>
                ELSE IF e.op = op /\ e.by # "" THEN Append(Since(op, log), e.by) ELSE Since(op, log)
<1> DEFINE V == Seq(By)
           next == SinceStep(op)
           Goes(v, e) == IF e.op = "disconnect" THEN <<>>
                          ELSE IF e.op = op /\ e.by # "" THEN Append(v, e.by) ELSE v
           Equation(g, log) == g = [s \in SUBSET (1..Len(log)) |->
                                      IF s = {} THEN <<>> ELSE Goes(g[s \ {Max(s)}], log[Max(s)])]
<1>1. /\ <<>> \in V /\ next \in [V \X Entry -> V]
      /\ \A v \in V, e \in Entry : next[<<v, e>>] = Goes(v, e)
  <2>1. \A p \in V \X Entry : p[1] \in V /\ p[2] \in Entry
    OBVIOUS
  <2>2. \A v \in V, e \in Entry : e.by \in By /\ Goes(v, e) \in V
    <3> TAKE v \in V, e \in Entry
    <3>1. e.by \in By
      BY DEF Entry
    <3>2. <<>> \in V /\ Append(v, e.by) \in V
      BY <3>1
    <3> QED BY <3>1, <3>2
  <2>3. \A p \in V \X Entry : Goes(p[1], p[2]) \in V
    BY <2>1, <2>2
  <2>4. next = [p \in V \X Entry |-> Goes(p[1], p[2])]
    BY DEF SinceStep
  <2>5. \A v \in V, e \in Entry : <<v, e>> \in V \X Entry /\ <<v, e>>[1] = v /\ <<v, e>>[2] = e
    OBVIOUS
  <2> HIDE DEF V, next, Goes
  <2>6. \A v \in V, e \in Entry : next[<<v, e>>] = Goes(<<v, e>>[1], <<v, e>>[2])
    BY <2>4, <2>5
  <2>7. next \in [V \X Entry -> V]
    BY <2>3, <2>4
  <2>8. <<>> \in V
    BY DEF V
  <2> QED BY <2>5, <2>6, <2>7, <2>8
<1> HIDE DEF V, next, Goes, Equation
<1>2. PICK G : LeftFold(G, V, Entry, <<>>, next) /\ Gathers(G, V, Entry, <<>>, next)
  BY <1>1, LeftFolds, Zenon
<1>3. ASSUME NEW log \in Seq(Entry) PROVE Since(op, log) = G[log]
  <2> DEFINE n == Len(log)
  <2>1. n \in Nat /\ DOMAIN log = 1..n /\ \A i \in 1..n : log[i] \in Entry
    BY LenProperties, ElementOfSeq
  <2>2. PICK g0 : LeftEquation(g0, V, log, <<>>, next)
    BY <1>1, LeftExists, Zenon
  <2>3. Equation(g0, log)
    <3>1. ASSUME NEW s \in SUBSET (1..n)
          PROVE  g0[s] = IF s = {} THEN <<>> ELSE Goes(g0[s \ {Max(s)}], log[Max(s)])
      <4>1. s # {} => log[Max(s)] \in Entry
        BY <2>1, MaxRight
      <4>2. g0[s \ {Max(s)}] \in V
        BY <2>2 DEF LeftEquation
      <4> HIDE DEF Goes
      <4> QED BY <1>1, <2>2, <4>1, <4>2 DEF LeftEquation
    <3> QED BY <2>2, <3>1 DEF Equation, LeftEquation
  <2>4. PICK g : Equation(g, log) /\ Since(op, log) = g[1..n]
    <3> HIDE DEF Equation
    <3>1. Equation(CHOOSE g : Equation(g, log), log)
      BY <2>3
    <3>2. Since(op, log) = (CHOOSE g : Equation(g, log))[1..n]
      BY <2>1 DEF Since, FoldLeft, MapThenFoldSet, Equation, Goes
    <3> QED BY <3>1, <3>2
  <2>5. g[{}] = <<>> /\ \A s \in SUBSET (1..n) : s # {} => g[s] = Goes(g[s \ {Max(s)}], log[Max(s)])
    BY <2>4 DEF Equation
  <2>6. \A s \in SUBSET (1..n) : s # {} => log[Max(s)] \in Entry
    BY <2>1, MaxRight
  <2>7. LeftSteps(g, V, log, <<>>, next)
    BY <1>1, <2>5, <2>6, LeftTakes
  <2> QED BY <1>2, <2>4, <2>7 DEF Gathers
<1>4. /\ G \in [Seq(Entry) -> V] /\ G[<<>>] = <<>>
      /\ \A log \in Seq(Entry), e \in Entry : G[Append(log, e)] = next[<<G[log], e>>]
  BY <1>2 DEF LeftFold
<1>5. \A log \in Seq(Entry), e \in Entry : Append(log, e) \in Seq(Entry) /\ <<>> \in Seq(Entry)
  OBVIOUS
<1>6. \A log \in Seq(Entry), e \in Entry : Since(op, Append(log, e)) = Goes(Since(op, log), e)
  <2> TAKE log \in Seq(Entry), e \in Entry
  <2>1. G[log] \in V /\ Append(log, e) \in Seq(Entry)
    BY <1>4, <1>5
  <2>2. G[Append(log, e)] = Goes(G[log], e)
    BY <1>1, <1>4, <2>1
  <2> QED BY <1>3, <2>1, <2>2
<1>7. Since(op, <<>>) = <<>>
  <2>1. <<>> \in Seq(Entry)
    OBVIOUS
  <2> QED BY <1>3, <1>4, <2>1
<1>8. \A log \in Seq(Entry) : Since(op, log) \in V
  BY <1>3, <1>4
<1> QED BY <1>6, <1>7, <1>8 DEF V, Goes

NonEmptyStep ==
  [p \in Seq(Chunks) \X Chunks |-> IF p[2] # "" THEN Append(p[1], p[2]) ELSE p[1]]

\* NonEmpty goes through the chunks from the first on.
LEMMA NonEmptyTakes ==
  /\ NonEmpty(<<>>) = <<>>
  /\ \A s \in Seq(Chunks) : NonEmpty(s) \in Seq(Chunks)
  /\ \A s \in Seq(Chunks), c \in Chunks :
       NonEmpty(Append(s, c)) = IF c # "" THEN Append(NonEmpty(s), c) ELSE NonEmpty(s)
<1> DEFINE V == Seq(Chunks)
           next == NonEmptyStep
           Goes(v, e) == IF e # "" THEN Append(v, e) ELSE v
           Equation(g, log) == g = [s \in SUBSET (1..Len(log)) |->
                                      IF s = {} THEN <<>> ELSE Goes(g[s \ {Max(s)}], log[Max(s)])]
<1>1. /\ <<>> \in V /\ next \in [V \X Chunks -> V]
      /\ \A v \in V, e \in Chunks : next[<<v, e>>] = Goes(v, e)
  <2>1. \A p \in V \X Chunks : p[1] \in V /\ p[2] \in Chunks
    OBVIOUS
  <2>2. \A v \in V, e \in Chunks : Goes(v, e) \in V
    <3> TAKE v \in V, e \in Chunks
    <3>1. Append(v, e) \in V
      OBVIOUS
    <3> QED BY <3>1
  <2>3. \A p \in V \X Chunks : Goes(p[1], p[2]) \in V
    BY <2>1, <2>2
  <2>4. next = [p \in V \X Chunks |-> Goes(p[1], p[2])]
    BY DEF NonEmptyStep
  <2>5. \A v \in V, e \in Chunks : <<v, e>> \in V \X Chunks /\ <<v, e>>[1] = v /\ <<v, e>>[2] = e
    OBVIOUS
  <2> HIDE DEF V, next, Goes
  <2>6. \A v \in V, e \in Chunks : next[<<v, e>>] = Goes(<<v, e>>[1], <<v, e>>[2])
    BY <2>4, <2>5
  <2>7. next \in [V \X Chunks -> V]
    BY <2>3, <2>4
  <2>8. <<>> \in V
    BY DEF V
  <2> QED BY <2>5, <2>6, <2>7, <2>8
<1> HIDE DEF V, next, Goes, Equation
<1>2. PICK G : LeftFold(G, V, Chunks, <<>>, next) /\ Gathers(G, V, Chunks, <<>>, next)
  BY <1>1, LeftFolds, Zenon
<1>3. ASSUME NEW log \in Seq(Chunks) PROVE NonEmpty(log) = G[log]
  <2> DEFINE n == Len(log)
  <2>1. n \in Nat /\ DOMAIN log = 1..n /\ \A i \in 1..n : log[i] \in Chunks
    BY LenProperties, ElementOfSeq
  <2>2. PICK g0 : LeftEquation(g0, V, log, <<>>, next)
    BY <1>1, LeftExists, Zenon
  <2>3. Equation(g0, log)
    <3>1. ASSUME NEW s \in SUBSET (1..n)
          PROVE  g0[s] = IF s = {} THEN <<>> ELSE Goes(g0[s \ {Max(s)}], log[Max(s)])
      <4>1. s # {} => log[Max(s)] \in Chunks
        BY <2>1, MaxRight
      <4>2. g0[s \ {Max(s)}] \in V
        BY <2>2 DEF LeftEquation
      <4> QED BY <1>1, <2>2, <4>1, <4>2 DEF LeftEquation
    <3> QED BY <2>2, <3>1 DEF Equation, LeftEquation
  <2>4. PICK g : Equation(g, log) /\ NonEmpty(log) = g[1..n]
    <3>1. Equation(CHOOSE g : Equation(g, log), log)
      BY <2>3
    <3>2. NonEmpty(log) = (CHOOSE g : Equation(g, log))[1..n]
      BY <2>1 DEF NonEmpty, FoldLeft, MapThenFoldSet, Equation, Goes
    <3> QED BY <3>1, <3>2
  <2>5. g[{}] = <<>> /\ \A s \in SUBSET (1..n) : s # {} => g[s] = Goes(g[s \ {Max(s)}], log[Max(s)])
    BY <2>4 DEF Equation
  <2>6. \A s \in SUBSET (1..n) : s # {} => log[Max(s)] \in Chunks
    BY <2>1, MaxRight
  <2>7. LeftSteps(g, V, log, <<>>, next)
    BY <1>1, <2>5, <2>6, LeftTakes
  <2> QED BY <1>2, <2>4, <2>7 DEF Gathers
<1>4. /\ G \in [Seq(Chunks) -> V] /\ G[<<>>] = <<>>
      /\ \A log \in Seq(Chunks), e \in Chunks : G[Append(log, e)] = next[<<G[log], e>>]
  BY <1>2 DEF LeftFold
<1>5. \A log \in Seq(Chunks), e \in Chunks : Append(log, e) \in Seq(Chunks) /\ <<>> \in Seq(Chunks)
  OBVIOUS
<1>6. \A log \in Seq(Chunks), e \in Chunks : NonEmpty(Append(log, e)) = Goes(NonEmpty(log), e)
  <2> TAKE log \in Seq(Chunks), e \in Chunks
  <2>1. G[log] \in V /\ Append(log, e) \in Seq(Chunks)
    BY <1>4, <1>5
  <2>2. G[Append(log, e)] = Goes(G[log], e)
    BY <1>1, <1>4, <2>1
  <2> QED BY <1>3, <2>1, <2>2
<1>7. NonEmpty(<<>>) = <<>>
  <2>1. <<>> \in Seq(Chunks)
    OBVIOUS
  <2> QED BY <1>3, <1>4, <2>1
<1>8. \A log \in Seq(Chunks) : NonEmpty(log) \in V
  BY <1>3, <1>4
<1> QED BY <1>6, <1>7, <1>8 DEF V, Goes

\* Lists of chunks are joined in any grouping.
LEMMA ChunksJoin ==
  \A a, b, d \in Seq(Chunks) : (a \o b) \o d = a \o (b \o d)
BY ConcatAssociative

\* So are those of the names in the log.
LEMMA EntriesJoin ==
  \A a, b, d \in Seq(By) : (a \o b) \o d = a \o (b \o d)
BY ConcatAssociative

\* What is appended to the second of two lists is appended to both.
LEMMA AppendJoin ==
  ASSUME NEW a \in Seq(By), NEW b \in Seq(By), NEW c \in By
  PROVE  Append(a \o b, c) = a \o Append(b, c)
<1>1. a \o b \in Seq(By) /\ <<c>> \in Seq(By)
  BY ConcatProperties
<1>2. Append(a \o b, c) = (a \o b) \o <<c>> /\ Append(b, c) = b \o <<c>>
  BY <1>1, AppendIsConcat
<1>3. (a \o b) \o <<c>> = a \o (b \o <<c>>)
  BY <1>1, EntriesJoin
<1> QED BY <1>2, <1>3

\* The same for chunks.
LEMMA ChunkAppendJoin ==
  ASSUME NEW a \in Seq(Chunks), NEW b \in Seq(Chunks), NEW c \in Chunks
  PROVE  Append(a \o b, c) = a \o Append(b, c)
<1>1. a \o b \in Seq(Chunks) /\ <<c>> \in Seq(Chunks)
  BY ConcatProperties
<1>2. Append(a \o b, c) = (a \o b) \o <<c>> /\ Append(b, c) = b \o <<c>>
  BY <1>1, AppendIsConcat
<1>3. (a \o b) \o <<c>> = a \o (b \o <<c>>)
  BY <1>1, ChunksJoin
<1> QED BY <1>2, <1>3

\* What it makes of a chunk stands in front of what it makes of those behind it.
LEMMA NonEmptyFirst ==
  ASSUME NEW s \in Seq(Chunks), s # <<>>
  PROVE  NonEmpty(s) = (IF Head(s) # "" THEN <<Head(s)>> ELSE <<>>) \o NonEmpty(Tail(s))
<1> DEFINE First(t) == IF Head(t) # "" THEN <<Head(t)>> ELSE <<>>
           P == {n \in 0..Len(s) : \A t \in Seq(Chunks) :
                    (t # <<>> /\ Len(t) = n) => NonEmpty(t) = First(t) \o NonEmpty(Tail(t))}
<1>1. Len(s) \in Nat
  BY LenProperties
<1>2. 0 \in P
  <2>1. \A t \in Seq(Chunks) : Len(t) = 0 => t = <<>>
    BY EmptySeq
  <2>2. 0 \in 0..Len(s)
    BY <1>1
  <2> HIDE DEF First
  <2> QED BY <2>1, <2>2
<1>3. ASSUME NEW n \in 1..Len(s), n - 1 \in P PROVE n \in P
  <2>1. ASSUME NEW t \in Seq(Chunks), t # <<>>, Len(t) = n
        PROVE  NonEmpty(t) = First(t) \o NonEmpty(Tail(t))
    <3> DEFINE f == SubSeq(t, 1, n - 1)
               c == t[n]
    <3>1. n \in Nat /\ DOMAIN t = 1..n /\ \A i \in 1..n : t[i] \in Chunks
      BY <1>1, <2>1, LenProperties, ElementOfSeq
    <3>2. f \in Seq(Chunks) /\ Len(f) = n - 1 /\ \A i \in 1..(n - 1) : f[i] = t[i]
      BY <2>1, <3>1
    <3>3. t = Append(f, c)
      <4>1. Append(f, c) \in Seq(Chunks) /\ Len(Append(f, c)) = n
        BY <3>1, <3>2
      <4>2. \A i \in 1..n : Append(f, c)[i] = t[i]
        BY <3>1, <3>2
      <4> HIDE DEF f, c
      <4> QED BY <2>1, <4>1, <4>2, SeqEqual
    <3>4. c \in Chunks
      BY <3>1
    <3> HIDE DEF f, c
    <3>5. NonEmpty(t) = IF c # "" THEN Append(NonEmpty(f), c) ELSE NonEmpty(f)
      BY <3>2, <3>3, <3>4, NonEmptyTakes
    <3>6. CASE n = 1
      <4>1. f = <<>>
        BY <3>2, <3>6, EmptySeq
      <4>2. t = <<c>> /\ Tail(t) = <<>> /\ Head(t) = c
        BY <3>3, <4>1
      <4>3. NonEmpty(f) = <<>> /\ NonEmpty(Tail(t)) = <<>>
        BY <4>1, <4>2, NonEmptyTakes
      <4>4. NonEmpty(t) = IF c # "" THEN <<c>> ELSE <<>>
        <5>1. Append(<<>>, c) = <<c>>
          OBVIOUS
        <5> QED BY <3>5, <4>3, <5>1
      <4>5. First(t) = IF c # "" THEN <<c>> ELSE <<>>
        BY <4>2
      <4>6. First(t) \o <<>> = First(t)
        <5>1. <<c>> \in Seq(Chunks) /\ <<>> \in Seq(Chunks)
          BY <3>4
        <5>2. First(t) \in Seq(Chunks)
          BY <4>5, <5>1
        <5> HIDE DEF First
        <5> QED BY <5>2, ConcatEmptySeq
      <4> HIDE DEF First
      <4> QED BY <4>3, <4>4, <4>5, <4>6
    <3>7. CASE n # 1
      <4>1. f # <<>> /\ Head(f) = Head(t) /\ Tail(f) \in Seq(Chunks)
        BY <2>1, <3>1, <3>2, <3>7
      <4>2. NonEmpty(f) = First(f) \o NonEmpty(Tail(f))
        BY <1>3, <3>2, <4>1
      <4>3. Tail(t) = Append(Tail(f), c)
        <5>1. Tail(Append(f, c)) = IF f = <<>> THEN <<>> ELSE Append(Tail(f), c)
          BY <3>2, <3>4, HeadTailAppend
        <5> QED BY <3>3, <4>1, <5>1
      <4>4. NonEmpty(Tail(t)) = IF c # "" THEN Append(NonEmpty(Tail(f)), c) ELSE NonEmpty(Tail(f))
        BY <3>4, <4>1, <4>3, NonEmptyTakes
      <4>5. First(f) \in Seq(Chunks) /\ First(f) = First(t)
        <5>1. Head(f) \in Chunks
          BY <3>2, <4>1
        <5>2. <<Head(f)>> \in Seq(Chunks) /\ <<>> \in Seq(Chunks)
          BY <5>1
        <5>3. Head(f) = Head(t)
          BY <4>1
        <5> HIDE DEF P
        <5> QED BY <5>2, <5>3
      <4>6. NonEmpty(Tail(f)) \in Seq(Chunks)
        BY <4>1, NonEmptyTakes
      <4> HIDE DEF First
      <4>7. CASE c = ""
        BY <3>5, <4>2, <4>4, <4>5, <4>7
      <4>8. CASE c # ""
        <5>1. Append(First(f) \o NonEmpty(Tail(f)), c) = First(f) \o Append(NonEmpty(Tail(f)), c)
          <6> DEFINE x == First(f)
                     y == NonEmpty(Tail(f))
          <6>1. x \in Seq(Chunks) /\ y \in Seq(Chunks)
            BY <4>5, <4>6
          <6> HIDE DEF x, y
          <6>2. Append(x \o y, c) = x \o Append(y, c)
            BY <3>4, <6>1, ChunkAppendJoin
          <6> QED BY <6>2 DEF x, y
        <5> QED BY <3>5, <4>2, <4>4, <4>5, <4>8, <5>1
      <4> QED BY <4>7, <4>8
    <3> QED BY <3>6, <3>7
  <2>2. n \in 0..Len(s)
    BY <1>1
  <2> QED BY <2>1, <2>2
<1> HIDE DEF P
<1>4. Len(s) \in P
  <2>1. Len(s) \in 0..Len(s)
    BY <1>1
  <2> QED BY <1>1, <1>2, <1>3, <2>1, UpTo
<1> QED BY <1>4 DEF P

\* The last of some places, or 0.
LEMMA LastRight ==
  ASSUME NEW n \in Nat, NEW P \in SUBSET (1..n)
  PROVE  /\ LastOf(P) \in {0} \cup P /\ LastOf(P) \in 0..n
         /\ \A i \in P : i <= LastOf(P)
         /\ LastOf(P \cup {n + 1}) = n + 1
<1>1. ASSUME NEW m \in Nat, NEW Q \in SUBSET (1..m)
      PROVE  LastOf(Q) \in {0} \cup Q /\ LastOf(Q) \in 0..m /\ \A i \in Q : i <= LastOf(Q)
  <2> DEFINE T == {0} \cup Q
  <2>1. T \in SUBSET Nat /\ T # {} /\ \A t \in T : t <= m
    OBVIOUS
  <2>2. \A t \in T : t \in 0..m
    OBVIOUS
  <2>3. \A i \in Q : i \in T
    OBVIOUS
  <2> HIDE DEF T
  <2>4. \E x \in T : \A y \in T : x >= y
    BY <2>1, GreatestNatural
  <2>5. Max(T) \in T /\ \A y \in T : Max(T) >= y
    BY <2>4 DEF Max
  <2>6. LastOf(Q) = Max(T)
    BY DEF LastOf, T
  <2>7. LastOf(Q) \in T /\ LastOf(Q) \in 0..m
    BY <2>2, <2>5, <2>6
  <2>8. \A i \in Q : i <= LastOf(Q)
    <3> TAKE i \in Q
    <3>1. i \in Nat /\ Max(T) \in Nat /\ Max(T) >= i
      BY <2>1, <2>3, <2>5
    <3> QED BY <2>6, <3>1
  <2> QED BY <2>7, <2>8 DEF T
<1>2. P \cup {n + 1} \in SUBSET (1..(n + 1)) /\ n + 1 \in Nat
  OBVIOUS
<1>3. LastOf(P \cup {n + 1}) \in 0..(n + 1) /\ n + 1 <= LastOf(P \cup {n + 1})
  BY <1>1, <1>2
<1>4. LastOf(P \cup {n + 1}) = n + 1
  BY <1>3
<1> QED BY <1>1, <1>4

\* An operation is one entry more in the log.
LEMMA LogTakes ==
  ASSUME acq_log \in Seq(Entry), NEW op, NEW by, [op |-> op, by |-> by] \in Entry, Logs(op, by)
  PROVE  /\ acq_log' \in Seq(Entry) /\ acq_log' = Append(acq_log, [op |-> op, by |-> by])
         /\ Len(acq_log) \in Nat
         /\ \A o : Places(o) \in SUBSET (1..Len(acq_log))
         /\ \A o : Places(o)' = IF o = op THEN Places(o) \cup {Len(acq_log) + 1} ELSE Places(o)
         /\ \A o : LastOf(Places(o)') = IF o = op THEN Len(acq_log) + 1 ELSE LastOf(Places(o))
         /\ \A i \in 1..Len(acq_log) : acq_log'[i] = acq_log[i]
         /\ acq_log'[Len(acq_log) + 1] = [op |-> op, by |-> by]
<1> DEFINE n == Len(acq_log)
           e == [op |-> op, by |-> by]
<1>1. n \in Nat /\ DOMAIN acq_log = 1..n /\ acq_log' = Append(acq_log, e) /\ e \in Entry /\ e.op = op
  BY DEF Logs
<1> HIDE DEF e
<1>2. /\ acq_log' \in Seq(Entry) /\ DOMAIN acq_log' = 1..(n + 1) /\ acq_log'[n + 1] = e
      /\ \A i \in 1..n : acq_log'[i] = acq_log[i]
  BY <1>1
<1> HIDE DEF n
<1>3. \A o : Places(o) \in SUBSET (1..n)
  BY <1>1 DEF Places
<1>4. ASSUME NEW o PROVE Places(o)' = IF o = op THEN Places(o) \cup {n + 1} ELSE Places(o)
  <2>1. Places(o)' = {i \in 1..(n + 1) : acq_log'[i].op = o} /\ Places(o) = {i \in 1..n : acq_log[i].op = o}
    BY <1>1, <1>2 DEF Places
  <2>2. 1..(n + 1) = 1..n \cup {n + 1} /\ n + 1 \notin 1..n
    BY <1>1
  <2> QED BY <1>1, <1>2, <2>1, <2>2
<1>5. ASSUME NEW o PROVE LastOf(Places(o)') = IF o = op THEN n + 1 ELSE LastOf(Places(o))
  <2>1. LastOf(Places(o) \cup {n + 1}) = n + 1
    BY <1>1, <1>3, LastRight
  <2> QED BY <1>4, <2>1
<1> QED BY <1>1, <1>2, <1>3, <1>4, <1>5 DEF n, e

Statuses == {"PENDING", "ACTIVE", "PAUSED", "COMPLETED", "FAILED", "CANCELLED"}
AcquisitionShape ==
  /\ acq_log \in Seq(Entry) /\ session_status \in [Sessions -> Statuses]
  /\ opened \in BOOLEAN /\ connected \in BOOLEAN /\ buffer \in Seq(Chunks)

\* The invariant of the sessions and the transport.
AcquisitionInv == AcquisitionShape /\ AcquisitionRight

\* The larger of two numbers.
LEMMA MaxOfTwo ==
  ASSUME NEW a \in Nat, NEW b \in Nat
  PROVE  Max({a, b}) = IF a >= b THEN a ELSE b
<1>1. \E x \in {a, b} : \A y \in {a, b} : x >= y
  OBVIOUS
<1>2. Max({a, b}) \in {a, b} /\ \A y \in {a, b} : Max({a, b}) >= y
  BY <1>1 DEF Max
<1> QED BY <1>2

\* The last entry of a kind by somebody is this one, or the one it was.
LEMMA LastByTakes ==
  ASSUME acq_log \in Seq(Entry), NEW op, NEW by, [op |-> op, by |-> by] \in Entry, Logs(op, by)
  PROVE  \A o, u : /\ LastBy(o, u) \in 0..Len(acq_log)
                   /\ LastBy(o, u)' = IF o = op /\ u = by THEN Len(acq_log) + 1 ELSE LastBy(o, u)
<1> DEFINE n == Len(acq_log)
<1>1. /\ n \in Nat
      /\ \A o : Places(o) \in SUBSET (1..n)
      /\ \A o : Places(o)' = IF o = op THEN Places(o) \cup {n + 1} ELSE Places(o)
      /\ \A i \in 1..n : acq_log'[i] = acq_log[i]
      /\ acq_log'[n + 1].by = by
  BY LogTakes
<1> HIDE DEF n
<1>2. TAKE o, u
<1> DEFINE own == {i \in Places(o) : acq_log[i].by = u}
<1>3. own \in SUBSET (1..n)
  BY <1>1
<1>4. {i \in Places(o)' : acq_log'[i].by = u} = IF o = op /\ u = by THEN own \cup {n + 1} ELSE own
  <2>1. CASE o = op
    <3>1. Places(o)' = Places(o) \cup {n + 1} /\ \A i \in Places(o) : acq_log'[i] = acq_log[i]
      BY <1>1, <2>1
    <3> QED BY <1>1, <2>1, <3>1
  <2>2. CASE o # op
    <3>1. Places(o)' = Places(o) /\ \A i \in Places(o) : acq_log'[i] = acq_log[i]
      BY <1>1, <2>2
    <3> QED BY <2>2, <3>1
  <2> QED BY <2>1, <2>2
<1>5. LastBy(o, u) = LastOf(own) /\ LastBy(o, u)' = LastOf({i \in Places(o)' : acq_log'[i].by = u})
  BY DEF LastBy, LastOf
<1> HIDE DEF own
<1>6. LastOf(own) \in 0..n /\ LastOf(own \cup {n + 1}) = n + 1
  BY <1>1, <1>3, LastRight
<1> QED BY <1>4, <1>5, <1>6 DEF n

\* Before the first operation.
LEMMA AcquisitionInitInv == AcquisitionInit => AcquisitionInv
<1> SUFFICES ASSUME AcquisitionInit PROVE AcquisitionInv
  OBVIOUS
<1>1. /\ acq_log = <<>> /\ session_status = [s \in Sessions |-> "PENDING"] /\ opened = FALSE
      /\ connected = FALSE /\ buffer = <<>>
  BY DEF AcquisitionInit, AcquisitionIdle
<1>2. AcquisitionShape
  <2>1. acq_log \in Seq(Entry) /\ buffer \in Seq(Chunks)
    BY <1>1
  <2>2. session_status \in [Sessions -> Statuses]
    BY <1>1 DEF Statuses
  <2> QED BY <1>1, <2>1, <2>2 DEF AcquisitionShape
<1>3. OpenFromStart
  <2>1. \A o : Places(o) = {}
    BY <1>1 DEF Places
  <2>2. {} \in SUBSET (1..0) /\ 0 \in Nat
    OBVIOUS
  <2>3. LastOf({}) = 0
    BY <2>2, LastRight
  <2>4. Places("start") = {} /\ Places("end") = {}
    BY <2>1
  <2>5. LastOf(Places("start")) = 0 /\ LastOf(Places("end")) = 0
    BY <2>3, <2>4
  <2>6. ~(LastOf(Places("start")) > LastOf(Places("end")))
    BY <2>5
  <2> QED BY <1>1, <2>6 DEF OpenFromStart
<1>4. ActiveSinceOwnStart
  <2>1. \A o : Places(o) = {}
    BY <1>1 DEF Places
  <2>2. {} \in SUBSET (1..0) /\ 0 \in Nat
    OBVIOUS
  <2>3. LastOf({}) = 0
    BY <2>2, LastRight
  <2>4. \A o, u : LastBy(o, u) = 0
    <3>1. \A o, u : {i \in Places(o) : acq_log[i].by = u} = {}
      BY <2>1
    <3> QED BY <2>3, <3>1 DEF LastBy
  <2>5. ~(Max({0, 0}) > Max({0, 0}))
    BY MaxOfTwo
  <2>6. \A u \in Sessions : session_status[u] # "ACTIVE"
    BY <1>1
  <2> QED BY <2>4, <2>5, <2>6 DEF ActiveSinceOwnStart
<1>5. TransportKeepsOrder
  <2>1. Since("send", <<>>) = <<>> /\ Since("receive", <<>>) = <<>> /\ NonEmpty(<<>>) = <<>>
    BY SinceTakes, NonEmptyTakes
  <2>2. <<>> \o <<>> = <<>>
    OBVIOUS
  <2> QED BY <1>1, <2>1, <2>2 DEF TransportKeepsOrder
<1> QED BY <1>2, <1>3, <1>4, <1>5 DEF AcquisitionInv, AcquisitionRight

\* An operation that is neither a start nor an end of a session leaves the target as it is.
LEMMA TargetKept ==
  ASSUME AcquisitionInv, NEW op, NEW by, [op |-> op, by |-> by] \in Entry, Logs(op, by),
         op \notin {"start", "end"}, UNCHANGED opened
  PROVE  OpenFromStart'
<1>1. /\ LastOf(Places("start")') = LastOf(Places("start"))
      /\ LastOf(Places("end")') = LastOf(Places("end"))
  BY LogTakes DEF AcquisitionInv, AcquisitionShape
<1> QED BY <1>1 DEF AcquisitionInv, AcquisitionRight, OpenFromStart, LastOf

\* Who does nothing with its own lifecycle is as active as before.
LEMMA OthersKept ==
  ASSUME NEW op, NEW by, NEW u \in Sessions,
         AcquisitionInv, [op |-> op, by |-> by] \in Entry, Logs(op, by),
         u # by \/ op \notin {"start", "resume", "pause", "end"}, session_status'[u] = session_status[u]
  PROVE  (session_status[u] = "ACTIVE" <=>
            Max({LastBy("start", u), LastBy("resume", u)}) > Max({LastBy("pause", u), LastBy("end", u)}))'
<1>1. /\ LastBy("start", u)' = LastBy("start", u) /\ LastBy("resume", u)' = LastBy("resume", u)
      /\ LastBy("pause", u)' = LastBy("pause", u) /\ LastBy("end", u)' = LastBy("end", u)
  BY LastByTakes DEF AcquisitionInv, AcquisitionShape
<1>2. session_status[u] = "ACTIVE" <=>
        Max({LastBy("start", u), LastBy("resume", u)}) > Max({LastBy("pause", u), LastBy("end", u)})
  BY DEF AcquisitionInv, AcquisitionRight, ActiveSinceOwnStart
<1> QED BY <1>1, <1>2 DEF Max

\* Operations of sessions move no chunk.
LEMMA OrderKept ==
  ASSUME AcquisitionInv, NEW op, NEW by, [op |-> op, by |-> by] \in Entry, Logs(op, by),
         op \notin {"disconnect", "send", "receive"}, UNCHANGED buffer
  PROVE  TransportKeepsOrder'
<1>1. acq_log \in Seq(Entry) /\ acq_log' = Append(acq_log, [op |-> op, by |-> by])
  BY LogTakes DEF AcquisitionInv, AcquisitionShape
<1>2. PICK e \in Entry : e = [op |-> op, by |-> by]
  OBVIOUS
<1>3. e.op = op
  BY <1>2
<1>4. Since("send", acq_log') = Since("send", acq_log) /\ Since("receive", acq_log') = Since("receive", acq_log)
  BY <1>1, <1>2, <1>3, SinceTakes
<1> QED BY <1>4 DEF AcquisitionInv, AcquisitionRight, TransportKeepsOrder

\* Whatever is done with a session.
LEMMA SessionRight ==
  ASSUME AcquisitionInv, NEW s \in Sessions,
         \/ StartSession(s) \/ PauseSession(s) \/ ResumeSession(s)
         \/ CompleteSession(s) \/ FailSession(s) \/ CancelSession(s)
  PROVE  AcquisitionInv'
<1> DEFINE ops == {"start", "pause", "resume", "end"}
<1>1. PICK op \in ops, to \in Statuses :
        /\ Turns(s, op, to)
        /\ op \in {"start", "resume"} <=> to = "ACTIVE"
        /\ opened' = (IF op = "start" THEN TRUE ELSE IF op = "end" THEN FALSE ELSE opened)
  BY DEF StartSession, PauseSession, ResumeSession, CompleteSession, FailSession, CancelSession, Statuses
<1>2. /\ Logs(op, s) /\ session_status' = [session_status EXCEPT ![s] = to]
      /\ UNCHANGED <<connected, buffer>>
  BY <1>1 DEF Turns
<1>3. [op |-> op, by |-> s] \in Entry
  BY DEF Entry, By
<1>4. AcquisitionShape
  BY DEF AcquisitionInv
<1>5. session_status' \in [Sessions -> Statuses] /\ opened' \in BOOLEAN
  BY <1>1, <1>2, <1>4 DEF AcquisitionShape
<1>6. acq_log \in Seq(Entry)
  BY <1>4 DEF AcquisitionShape
<1>7. acq_log' \in Seq(Entry)
  BY <1>2, <1>3, <1>6, LogTakes
<1>8. AcquisitionShape'
  BY <1>2, <1>4, <1>5, <1>7 DEF AcquisitionShape
<1>9. OpenFromStart'
  <2> DEFINE n == Len(acq_log)
  <2>1. /\ n \in Nat /\ \A o : Places(o) \in SUBSET (1..n)
        /\ \A o : LastOf(Places(o)') = IF o = op THEN n + 1 ELSE LastOf(Places(o))
    BY <1>2, <1>3, <1>6, LogTakes
  <2>2. \A o : LastOf(Places(o)) \in 0..n
    BY <2>1, LastRight
  <2> HIDE DEF n
  <2>3. LastOf(Places("start"))' = LastOf(Places("start")') /\ LastOf(Places("end"))' = LastOf(Places("end")')
    BY DEF LastOf
  <2>4. CASE op = "start"
    <3>1. LastOf(Places("start")') = n + 1 /\ LastOf(Places("end")') \in 0..n
      BY <2>1, <2>2, <2>4
    <3>2. opened' = TRUE
      BY <1>1, <2>4
    <3> QED BY <2>1, <2>3, <3>1, <3>2 DEF OpenFromStart
  <2>5. CASE op = "end"
    <3>1. LastOf(Places("end")') = n + 1 /\ LastOf(Places("start")') \in 0..n
      BY <2>1, <2>2, <2>5
    <3>2. opened' = FALSE
      BY <1>1, <2>5
    <3> QED BY <2>1, <2>3, <3>1, <3>2 DEF OpenFromStart
  <2>6. CASE op \notin {"start", "end"}
    <3>1. opened' = opened
      BY <1>1, <2>6
    <3> QED BY <1>2, <1>3, <2>6, <3>1, TargetKept
  <2> QED BY <2>4, <2>5, <2>6
<1>10. ActiveSinceOwnStart'
  <2> DEFINE n == Len(acq_log)
             IsRight(u) == session_status[u] = "ACTIVE" <=>
               Max({LastBy("start", u), LastBy("resume", u)}) > Max({LastBy("pause", u), LastBy("end", u)})
  <2>1. ASSUME NEW u \in Sessions, u # s PROVE IsRight(u)'
    <3>1. session_status'[u] = session_status[u]
      BY <1>2, <1>4, <2>1 DEF AcquisitionShape
    <3> QED BY <1>2, <1>3, <2>1, <3>1, OthersKept
  <2>2. /\ n \in Nat
        /\ \A o : LastBy(o, s) \in 0..n /\ LastBy(o, s)' = IF o = op THEN n + 1 ELSE LastBy(o, s)
    BY <1>2, <1>3, <1>6, LastByTakes
  <2>3. session_status'[s] = to
    BY <1>2, <1>4 DEF AcquisitionShape
  <2> HIDE DEF n
  <2>4. PICK a, b, c, d \in 0..(n + 1) :
          /\ a = LastBy("start", s)' /\ b = LastBy("resume", s)' /\ c = LastBy("pause", s)' /\ d = LastBy("end", s)'
    <3>1. \A o : LastBy(o, s)' \in 0..(n + 1)
      BY <2>2
    <3> QED BY <3>1
  <2>5. /\ op = "start" => a = n + 1 /\ c <= n /\ d <= n
        /\ op = "resume" => b = n + 1 /\ c <= n /\ d <= n
        /\ op = "pause" => c = n + 1 /\ a <= n /\ b <= n
        /\ op = "end" => d = n + 1 /\ a <= n /\ b <= n
    BY <2>2, <2>4
  <2>6. /\ Max({a, b}) = IF a >= b THEN a ELSE b
        /\ Max({c, d}) = IF c >= d THEN c ELSE d
    <3>1. a \in Nat /\ b \in Nat /\ c \in Nat /\ d \in Nat
      BY <2>2, <2>4
    <3> QED BY <3>1, MaxOfTwo
  <2>7. op \in {"start", "resume"} <=> Max({a, b}) > Max({c, d})
    BY <1>1, <2>2, <2>4, <2>5, <2>6
  <2>8. IsRight(s)'
    BY <1>1, <2>3, <2>4, <2>7 DEF Max
  <2> HIDE DEF IsRight
  <2>9. \A u \in Sessions : IsRight(u)'
    BY <2>1, <2>8
  <2> QED BY <2>9 DEF ActiveSinceOwnStart, IsRight
<1>11. TransportKeepsOrder'
  BY <1>2, <1>3, OrderKept
<1> QED BY <1>8, <1>9, <1>10, <1>11 DEF AcquisitionInv, AcquisitionRight

\* What the transport does leaves sessions and target alone.
LEMMA TransportRight ==
  ASSUME AcquisitionInv, Connect \/ Disconnect \/ ReceiveChunk \/ \E c \in Chunks : SendChunk(c)
  PROVE  AcquisitionInv'
<1>1. AcquisitionShape /\ acq_log \in Seq(Entry) /\ buffer \in Seq(Chunks)
  BY DEF AcquisitionInv, AcquisitionShape
<1>2. UNCHANGED <<session_status, opened>>
  BY DEF Connect, Disconnect, ReceiveChunk, SendChunk
<1>3. ASSUME NEW op, op \notin {"start", "resume", "pause", "end"}, NEW by, [op |-> op, by |-> by] \in Entry, Logs(op, by),
             connected' \in BOOLEAN, buffer' \in Seq(Chunks), TransportKeepsOrder'
      PROVE  AcquisitionInv'
  <2>1. acq_log' \in Seq(Entry)
    BY <1>1, <1>3, LogTakes
  <2>2. AcquisitionShape'
    BY <1>1, <1>2, <1>3, <2>1 DEF AcquisitionShape
  <2>3. OpenFromStart'
    BY <1>2, <1>3, TargetKept
  <2>4. ActiveSinceOwnStart'
    <3>1. ASSUME NEW u \in Sessions
          PROVE  (session_status[u] = "ACTIVE" <=>
                    Max({LastBy("start", u), LastBy("resume", u)}) > Max({LastBy("pause", u), LastBy("end", u)}))'
      BY <1>2, <1>3, OthersKept
    <3> QED BY <3>1 DEF ActiveSinceOwnStart
  <2> QED BY <1>3, <2>2, <2>3, <2>4 DEF AcquisitionInv, AcquisitionRight
<1>4. TransportKeepsOrder
  BY DEF AcquisitionInv, AcquisitionRight
<1>5. CASE Connect
  <2>1. Logs("connect", "") /\ connected' = TRUE /\ UNCHANGED buffer
    BY <1>5 DEF Connect
  <2>2. [op |-> "connect", by |-> ""] \in Entry
    BY AcquisitionAssumption DEF Entry, By
  <2>3. TransportKeepsOrder'
    BY <2>1, <2>2, OrderKept
  <2> QED BY <1>1, <1>3, <2>1, <2>2, <2>3
<1>6. CASE Disconnect
  <2>1. Logs("disconnect", "") /\ connected' = FALSE /\ buffer' = <<>>
    BY <1>6 DEF Disconnect
  <2>2. PICK e \in Entry : e = [op |-> "disconnect", by |-> ""] /\ e.op = "disconnect"
    <3>1. [op |-> "disconnect", by |-> ""] \in Entry
      BY AcquisitionAssumption DEF Entry, By
    <3>2. PICK e \in Entry : e = [op |-> "disconnect", by |-> ""]
      BY <3>1
    <3> QED BY <3>2
  <2>3. acq_log' = Append(acq_log, e)
    BY <1>1, <2>1, <2>2, LogTakes
  <2>4. Since("send", acq_log') = <<>> /\ Since("receive", acq_log') = <<>> /\ NonEmpty(<<>>) = <<>>
    BY <1>1, <2>2, <2>3, SinceTakes, NonEmptyTakes
  <2>5. <<>> \o <<>> = <<>> /\ <<>> \in Seq(Chunks)
    OBVIOUS
  <2>6. TransportKeepsOrder'
    BY <2>1, <2>4, <2>5 DEF TransportKeepsOrder
  <2> QED BY <1>3, <2>1, <2>2, <2>5, <2>6
<1>7. ASSUME NEW c \in Chunks, SendChunk(c) PROVE AcquisitionInv'
  <2>1. UNCHANGED connected
    BY <1>7 DEF SendChunk
  <2>2. CASE ~connected
    <3>1. Logs("error", c) /\ UNCHANGED buffer
      BY <1>7, <2>2 DEF SendChunk
    <3>2. [op |-> "error", by |-> c] \in Entry
      BY DEF Entry, By
    <3>3. TransportKeepsOrder'
      BY <3>1, <3>2, OrderKept
    <3> QED BY <1>1, <1>3, <2>1, <3>1, <3>2, <3>3 DEF AcquisitionShape
  <2>3. CASE connected
    <3>1. Logs("send", c) /\ buffer' = Append(buffer, c)
      BY <1>7, <2>3 DEF SendChunk
    <3>2. PICK e \in Entry : e = [op |-> "send", by |-> c] /\ e.op = "send" /\ e.by = c
      <4>1. [op |-> "send", by |-> c] \in Entry
        BY DEF Entry, By
      <4>2. PICK e \in Entry : e = [op |-> "send", by |-> c]
        BY <4>1
      <4> QED BY <4>2
    <3>3. acq_log' = Append(acq_log, e)
      BY <1>1, <3>1, <3>2, LogTakes
    <3> DEFINE S == Since("send", acq_log)
               R == Since("receive", acq_log)
               N == NonEmpty(buffer)
    <3>4. /\ Since("send", acq_log') = IF c # "" THEN Append(S, c) ELSE S
          /\ Since("receive", acq_log') = R
          /\ NonEmpty(buffer') = IF c # "" THEN Append(N, c) ELSE N
      BY <1>1, <3>1, <3>2, <3>3, SinceTakes, NonEmptyTakes
    <3>5. S = R \o N /\ R \in Seq(By) /\ N \in Seq(By) /\ c \in By
      <4>1. R \in Seq(By) /\ N \in Seq(Chunks)
        BY <1>1, SinceTakes, NonEmptyTakes
      <4>2. Seq(Chunks) \subseteq Seq(By)
        BY SeqMonotonic DEF By
      <4>3. c \in By
        BY DEF By
      <4> QED BY <1>4, <4>1, <4>2, <4>3 DEF TransportKeepsOrder
    <3> HIDE DEF S, R, N
    <3>6. Append(R \o N, c) = R \o Append(N, c)
      BY <3>5, AppendJoin
    <3>7. TransportKeepsOrder'
      BY <3>4, <3>5, <3>6 DEF TransportKeepsOrder
    <3>8. buffer' \in Seq(Chunks)
      BY <1>1, <3>1
    <3> QED BY <1>1, <1>3, <2>1, <3>1, <3>2, <3>7, <3>8 DEF AcquisitionShape
  <2> QED BY <2>2, <2>3
<1>8. CASE ReceiveChunk
  <2> DEFINE got == connected /\ buffer # <<>>
             next == IF got THEN Head(buffer) ELSE ""
  <2>1. /\ Logs(IF connected THEN "receive" ELSE "error", next) /\ UNCHANGED connected
        /\ buffer' = IF got THEN Tail(buffer) ELSE buffer
    BY <1>8 DEF ReceiveChunk
  <2>2. next \in Chunks /\ buffer' \in Seq(Chunks)
    <3>1. buffer # <<>> => Head(buffer) \in Chunks /\ Tail(buffer) \in Seq(Chunks)
      BY <1>1
    <3> QED BY <1>1, <2>1, <3>1, AcquisitionAssumption
  <2> HIDE DEF next, got
  <2>3. CASE ~connected
    <3>1. Logs("error", next) /\ UNCHANGED buffer
      BY <2>1, <2>3 DEF got
    <3>2. [op |-> "error", by |-> next] \in Entry
      BY <2>2 DEF Entry, By
    <3>3. TransportKeepsOrder'
      BY <3>1, <3>2, OrderKept
    <3> QED BY <1>1, <1>3, <2>1, <2>2, <3>1, <3>2, <3>3 DEF AcquisitionShape
  <2>4. CASE connected
    <3>1. PICK e \in Entry : e = [op |-> "receive", by |-> next] /\ e.op = "receive" /\ e.by = next
      <4>1. [op |-> "receive", by |-> next] \in Entry
        BY <2>2 DEF Entry, By
      <4>2. PICK e \in Entry : e = [op |-> "receive", by |-> next]
        BY <4>1
      <4> QED BY <4>2
    <3>2. Logs("receive", next)
      BY <2>1, <2>4
    <3>3. acq_log' = Append(acq_log, e)
      BY <1>1, <3>1, <3>2, LogTakes
    <3> DEFINE S == Since("send", acq_log)
               R == Since("receive", acq_log)
    <3>4. Since("send", acq_log') = S /\ Since("receive", acq_log') = IF next # "" THEN Append(R, next) ELSE R
      BY <1>1, <3>1, <3>3, SinceTakes
    <3>5. S = R \o NonEmpty(buffer)
      BY <1>4 DEF TransportKeepsOrder
    <3>6. R \in Seq(By) /\ NonEmpty(buffer') \in Seq(By) /\ next \in By
      <4>1. R \in Seq(By) /\ NonEmpty(buffer') \in Seq(Chunks)
        BY <1>1, <2>2, SinceTakes, NonEmptyTakes
      <4>2. Seq(Chunks) \subseteq Seq(By)
        BY SeqMonotonic DEF By
      <4>3. next \in By
        BY <2>2 DEF By
      <4> QED BY <4>1, <4>2, <4>3
    <3> HIDE DEF S, R
    <3>7. CASE ~got
      <4>1. buffer' = buffer /\ next = ""
        BY <2>1, <3>7 DEF next
      <4>2. TransportKeepsOrder'
        BY <3>4, <3>5, <4>1 DEF TransportKeepsOrder
      <4> QED BY <1>1, <1>3, <2>1, <2>2, <3>1, <3>2, <4>2 DEF AcquisitionShape
    <3>8. CASE got
      <4>1. buffer # <<>> /\ buffer' = Tail(buffer) /\ next = Head(buffer)
        BY <2>1, <3>8 DEF next, got
      <4>2. NonEmpty(buffer) = (IF next # "" THEN <<next>> ELSE <<>>) \o NonEmpty(buffer')
        BY <1>1, <4>1, NonEmptyFirst
      <4> DEFINE N == NonEmpty(buffer')
      <4>3. R \o ((IF next # "" THEN <<next>> ELSE <<>>) \o N) = (IF next # "" THEN Append(R, next) ELSE R) \o N
        <5> HIDE DEF N
        <5>1. <<next>> \in Seq(By) /\ N \in Seq(By)
          BY <3>6 DEF N
        <5>2. R \o (<<next>> \o N) = (R \o <<next>>) \o N
          BY <3>6, <5>1, EntriesJoin
        <5>3. Append(R, next) = R \o <<next>>
          BY <3>6, AppendIsConcat
        <5>4. <<>> \o N = N
          BY <5>1, ConcatEmptySeq
        <5> QED BY <5>2, <5>3, <5>4
      <4>4. TransportKeepsOrder'
        BY <3>4, <3>5, <4>2, <4>3 DEF TransportKeepsOrder
      <4> QED BY <1>1, <1>3, <2>1, <2>2, <3>1, <3>2, <4>4 DEF AcquisitionShape
    <3> QED BY <3>7, <3>8
  <2> QED BY <2>3, <2>4 DEF AcquisitionShape
<1> QED BY <1>5, <1>6, <1>7, <1>8

\* Every operation keeps it.
LEMMA AcquisitionNextInv == AcquisitionInv /\ [AcquisitionNext]_acqVars => AcquisitionInv'
<1> SUFFICES ASSUME AcquisitionInv, [AcquisitionNext]_acqVars PROVE AcquisitionInv'
  OBVIOUS
<1>1. CASE UNCHANGED acqVars
  BY <1>1 DEF acqVars, AcquisitionInv, AcquisitionShape, AcquisitionRight, OpenFromStart,
              ActiveSinceOwnStart, TransportKeepsOrder, Places, LastOf, LastBy
<1>2. CASE AcquisitionNext
  BY <1>2, SessionRight, TransportRight DEF AcquisitionNext
<1> QED BY <1>1, <1>2

\* In whatever order sessions that share a target are started, paused, resumed and ended
\* (core/acquisition/sessions.py), the target is open from the last start to the last end
\* of any of them, and a session is active from its own last start or resume to its own
\* last pause or end; a transport gives what was sent in order and once.
THEOREM AcquisitionKept == AcquisitionSpec => []AcquisitionRight
<1>1. AcquisitionInv => AcquisitionRight
  BY DEF AcquisitionInv
<1> QED BY <1>1, AcquisitionInitInv, AcquisitionNextInv, PTL DEF AcquisitionSpec

-----------------------------------------------------------------------------
(* The memory guard, parallel analyses and the indexer (Performance).         *)

Threads == DOMAIN Amounts
AllocStates == {"ready", "granted", "held", "refused", "released"}

\* What the threads hold adds up to the fold of the guard's property.
LEMMA HeldAddsUp ==
  ASSUME NEW S, IsFiniteSet(S), \A x \in S : Amounts[x] \in Nat
  PROVE  FoldSet(LAMBDA t, n : n + Amounts[t], 0, S) = SumOf(S, Amounts)
<1>1. PICK g : AddsSet(g, S, Amounts) /\ FoldSet(LAMBDA t, n : n + Amounts[t], 0, S) = g[S]
  <2> DEFINE Equation(g) == AddsSet(g, S, Amounts)
  <2>1. \E g : Equation(g)
    BY SetSums
  <2> HIDE DEF Equation
  <2>2. Equation(CHOOSE g : Equation(g))
    BY <2>1
  <2>3. FoldSet(LAMBDA t, n : n + Amounts[t], 0, S) = (CHOOSE g : Equation(g))[S]
    BY DEF Equation, AddsSet, FoldSet, MapThenFoldSet
  <2>4. PICK g : g = (CHOOSE h : Equation(h))
    OBVIOUS
  <2> QED BY <2>2, <2>3, <2>4 DEF Equation
<1> QED BY <1>1, SetSums

\* The memory in use is what is held.  Unless a thread has raced, one at most has been
\* granted its memory and not recorded it, and there is room for it.
GuardInv ==
  /\ alloc \in [Threads -> AllocStates] /\ raced \in BOOLEAN
  /\ usage = SumOf(Holders, Amounts)
  /\ ~raced => usage <= MaxMemory
  /\ ~raced => \A t \in Threads : alloc[t] = "granted" =>
        usage + Amounts[t] <= MaxMemory /\ \A u \in Threads : alloc[u] = "granted" => u = t

\* What is held is finite.
LEMMA HeldFinite ==
  ASSUME alloc \in [Threads -> AllocStates]
  PROVE  /\ Holders = {t \in Threads : alloc[t] = "held"} /\ IsFiniteSet(Holders)
         /\ \A t \in Threads : Amounts[t] \in Nat
         /\ SumOf(Holders, Amounts) \in Nat
<1>1. Holders = {t \in Threads : alloc[t] = "held"} /\ Holders \subseteq Threads
  BY DEF Holders
<1>2. IsFiniteSet(Threads) /\ \A t \in Threads : Amounts[t] \in Nat
  BY PerformanceAssumption DEF Threads
<1>3. IsFiniteSet(Holders)
  BY <1>1, <1>2, FS_Subset
<1>4. \A t \in Holders : Amounts[t] \in Nat
  BY <1>1, <1>2
<1> QED BY <1>1, <1>2, <1>3, <1>4, UnitsFinite

\* The steps of the guard keep it.
LEMMA GuardRight ==
  ASSUME GuardInv, NEW t \in Threads, Check(t) \/ RecordAllocation(t) \/ RecordRelease(t)
  PROVE  GuardInv'
<1>1. /\ alloc \in [Threads -> AllocStates] /\ raced \in BOOLEAN /\ MaxMemory \in Nat
      /\ usage = SumOf(Holders, Amounts) /\ usage \in Nat
      /\ \A u \in Threads : Amounts[u] \in Nat
      /\ IsFiniteSet(Holders) /\ Holders = {u \in Threads : alloc[u] = "held"}
  BY HeldFinite, PerformanceAssumption DEF GuardInv
<1>2. /\ ~raced => usage <= MaxMemory
      /\ ~raced => \A u \in Threads : alloc[u] = "granted" =>
            usage + Amounts[u] <= MaxMemory /\ \A o \in Threads : alloc[o] = "granted" => o = u
  BY DEF GuardInv
<1>3. CASE Check(t)
  <2> DEFINE fits == usage + Amounts[t] <= MaxMemory
             to == IF fits THEN "granted" ELSE "refused"
  <2>1. /\ alloc[t] = "ready" /\ alloc' = [alloc EXCEPT ![t] = to] /\ usage' = usage
        /\ raced' = (raced \/ (fits /\ \E u \in DOMAIN alloc : alloc[u] = "granted"))
    BY <1>3 DEF Check
  <2>2. alloc' \in [Threads -> AllocStates] /\ alloc'[t] = to /\ \A u \in Threads \ {t} : alloc'[u] = alloc[u]
    BY <1>1, <2>1 DEF AllocStates
  <2>3. to \in {"granted", "refused"} /\ (to = "granted" <=> fits)
    OBVIOUS
  <2> HIDE DEF to
  <2>4. Holders' = Holders
    <3>1. Holders' = {u \in Threads : alloc'[u] = "held"}
      BY <2>2 DEF Holders
    <3>2. \A u \in Threads : alloc'[u] = "held" <=> alloc[u] = "held"
      BY <2>1, <2>2, <2>3
    <3> QED BY <1>1, <3>1, <3>2
  <2>5. raced' \in BOOLEAN
    BY <1>1, <2>1
  <2>6. ASSUME ~raced', NEW u \in Threads, alloc'[u] = "granted"
        PROVE  usage + Amounts[u] <= MaxMemory /\ \A o \in Threads : alloc'[o] = "granted" => o = u
    <3>1. ~raced /\ (fits => \A o \in Threads : alloc[o] # "granted")
      BY <1>1, <2>1, <2>6
    <3>2. CASE u = t
      <4>1. fits /\ \A o \in Threads : alloc[o] # "granted"
        BY <2>2, <2>3, <2>6, <3>1, <3>2
      <4> QED BY <2>2, <3>2, <4>1
    <3>3. CASE u # t
      <4>1. alloc[u] = "granted"
        BY <2>2, <2>6, <3>3
      <4>2. ~fits
        BY <3>1, <4>1
      <4> HIDE DEF fits
      <4>3. alloc'[t] # "granted"
        BY <2>2, <2>3, <4>2
      <4>4. usage + Amounts[u] <= MaxMemory /\ \A o \in Threads : alloc[o] = "granted" => o = u
        BY <1>2, <3>1, <4>1
      <4> QED BY <2>2, <4>3, <4>4
    <3> QED BY <3>2, <3>3
  <2>7. ~raced' => usage' <= MaxMemory
    BY <1>2, <2>1
  <2>8. usage' = SumOf(Holders', Amounts)
    BY <1>1, <2>1, <2>4
  <2> QED BY <2>1, <2>2, <2>5, <2>6, <2>7, <2>8 DEF GuardInv
<1>4. CASE RecordAllocation(t)
  <2>1. /\ alloc[t] = "granted" /\ alloc' = [alloc EXCEPT ![t] = "held"] /\ usage' = usage + Amounts[t]
        /\ raced' = raced
    BY <1>4 DEF RecordAllocation
  <2>2. alloc' \in [Threads -> AllocStates] /\ alloc'[t] = "held" /\ \A u \in Threads \ {t} : alloc'[u] = alloc[u]
    BY <1>1, <2>1 DEF AllocStates
  <2>3. t \notin Holders /\ Holders' = Holders \cup {t}
    <3>1. Holders' = {u \in Threads : alloc'[u] = "held"}
      BY <2>2 DEF Holders
    <3> QED BY <1>1, <2>1, <2>2, <3>1
  <2>4. SumOf(Holders', Amounts) = SumOf(Holders, Amounts) + Amounts[t]
    <3>1. IsFiniteSet(Holders') /\ t \in Holders' /\ Holders' \ {t} = Holders
      BY <1>1, <2>3, FS_AddElement
    <3>2. \A u \in Holders' : Amounts[u] \in Nat
      BY <1>1, <2>3
    <3> QED BY <3>1, <3>2, SumTakes
  <2>5. ASSUME ~raced' PROVE usage' <= MaxMemory /\ \A u \in Threads : alloc'[u] # "granted"
    <3>1. usage + Amounts[t] <= MaxMemory /\ \A o \in Threads : alloc[o] = "granted" => o = t
      BY <1>2, <2>1, <2>5
    <3> QED BY <2>1, <2>2, <3>1
  <2>6. usage' = SumOf(Holders', Amounts)
    BY <1>1, <2>1, <2>4
  <2> QED BY <1>1, <2>1, <2>2, <2>5, <2>6 DEF GuardInv
<1>5. CASE RecordRelease(t)
  <2>1. /\ alloc[t] = "held" /\ alloc' = [alloc EXCEPT ![t] = "released"]
        /\ usage' = Max({0, usage - Amounts[t]}) /\ raced' = raced
    BY <1>5 DEF RecordRelease
  <2>2. alloc' \in [Threads -> AllocStates] /\ alloc'[t] = "released" /\ \A u \in Threads \ {t} : alloc'[u] = alloc[u]
    BY <1>1, <2>1 DEF AllocStates
  <2>3. t \in Holders /\ Holders' = Holders \ {t}
    <3>1. Holders' = {u \in Threads : alloc'[u] = "held"}
      BY <2>2 DEF Holders
    <3> QED BY <1>1, <2>1, <2>2, <3>1
  <2>4. usage = SumOf(Holders', Amounts) + Amounts[t] /\ SumOf(Holders', Amounts) \in Nat
    <3>1. \A u \in Holders : Amounts[u] \in Nat
      BY <1>1
    <3>2. SumOf(Holders, Amounts) = SumOf(Holders \ {t}, Amounts) + Amounts[t]
      BY <1>1, <2>3, <3>1, SumTakes
    <3>3. IsFiniteSet(Holders \ {t})
      BY <1>1, FS_RemoveElement
    <3>4. SumOf(Holders \ {t}, Amounts) \in Nat
      BY <3>1, <3>3, UnitsFinite
    <3> QED BY <1>1, <2>3, <3>2, <3>4
  <2>5. usage' = SumOf(Holders', Amounts) /\ usage' <= usage /\ usage' \in Nat
    <3>1. PICK d : d = SumOf(Holders', Amounts)
      OBVIOUS
    <3>2. usage - Amounts[t] = d /\ d \in Nat
      BY <1>1, <2>4, <3>1
    <3>3. \A y \in {0, d} : d >= y
      BY <3>2
    <3>4. \A x \in {0, d} : (\A y \in {0, d} : x >= y) => x = d
      BY <3>2
    <3>5. Max({0, d}) = d
      BY <3>3, <3>4 DEF Max
    <3>6. usage' = d
      BY <2>1, <3>2, <3>5
    <3>7. PICK amount \in Nat : amount = Amounts[t]
      BY <1>1
    <3>8. d <= usage
      BY <1>1, <3>2, <3>7
    <3> QED BY <3>1, <3>2, <3>6, <3>8
  <2>6. ASSUME ~raced PROVE usage' <= MaxMemory
    BY <1>1, <1>2, <2>5, <2>6
  <2>7. ASSUME ~raced, NEW u \in Threads, alloc'[u] = "granted"
        PROVE  usage' + Amounts[u] <= MaxMemory /\ \A o \in Threads : alloc'[o] = "granted" => o = u
    <3>1. u # t /\ alloc[u] = "granted"
      BY <2>2, <2>7
    <3>2. usage + Amounts[u] <= MaxMemory /\ \A o \in Threads : alloc[o] = "granted" => o = u
      BY <1>2, <2>7, <3>1
    <3>3. usage' + Amounts[u] <= MaxMemory
      BY <1>1, <2>5, <3>2
    <3> QED BY <2>2, <3>2, <3>3
  <2> QED BY <1>1, <2>1, <2>2, <2>5, <2>6, <2>7 DEF GuardInv
<1> QED BY <1>3, <1>4, <1>5

TheRuns == DOMAIN Analyses
AllAnalyses == UNION {Analyses[r] : r \in TheRuns}

\* What stands in the list of some run.
Listed == UNION {ToSet(lists[r]) : r \in DOMAIN lists}
OncePlaced ==
  \A r, q \in DOMAIN lists : \A i \in DOMAIN lists[r], j \in DOMAIN lists[q] :
    lists[r][i] = lists[q][j] => r = q /\ i = j

ParallelShape ==
  /\ DOMAIN running_ = TheRuns
  /\ \A r \in TheRuns : running_[r] = NotBegun \/ running_[r] \subseteq Analyses[r]
  /\ result_list \in TheRuns \cup {"none"}
  /\ lists \in [TheRuns \cup {"none"} -> Seq(AllAnalyses)]
  /\ given \in [TheRuns -> Seq(TheRuns \cup {"none"})]

\* A run that has not begun has no results, and the list that is in use is that of a run
\* that has.
OwnLists ==
  /\ lists["none"] = <<>>
  /\ \A r \in TheRuns : running_[r] = NotBegun => lists[r] = <<>> /\ result_list # r
  /\ result_list = "none" => \A r \in TheRuns : running_[r] = NotBegun

\* A run that was alone has given its own list.
GivenRight ==
  \A r \in TheRuns :
    /\ given[r] # <<>> => running_[r] = {}
    /\ (given[r] # <<>> /\ \A q \in TheRuns \ {r} : running_[q] = NotBegun) => given[r] = <<r>>

\* The results that are listed, once each, are those of the analyses that succeeded.
ParallelInv ==
  /\ ParallelShape /\ OwnLists /\ GivenRight /\ OncePlaced
  /\ Listed = UNION {Succeeded(r) : r \in TheRuns}

\* No analysis has the name of what has not begun.
LEMMA BegunDiffer ==
  /\ "none" \notin TheRuns
  /\ \A r \in TheRuns : "not begun" \notin Analyses[r]
  /\ \A r, q \in TheRuns : r # q => Analyses[r] \cap Analyses[q] = {}
  /\ \A r \in TheRuns : \A s : s \subseteq Analyses[r] => s # NotBegun
BY PerformanceAssumption DEF TheRuns, NotBegun

\* A run begins with a list of its own.
LEMMA BeginRight ==
  ASSUME ParallelInv, NEW r \in TheRuns, BeginRun(r)
  PROVE  ParallelInv'
<1> USE DEF ParallelInv
<1>1. /\ running_[r] = NotBegun /\ running_' = [running_ EXCEPT ![r] = Analyses[r]]
      /\ result_list' = r /\ lists' = lists /\ given' = given
  BY DEF BeginRun
<1>2. /\ DOMAIN running_' = TheRuns /\ running_'[r] = Analyses[r] /\ running_'[r] # NotBegun
      /\ \A q \in TheRuns \ {r} : running_'[q] = running_[q]
  BY <1>1, BegunDiffer DEF ParallelShape
<1>3. ParallelShape'
  BY <1>1, <1>2 DEF ParallelShape
<1>4. OwnLists'
  BY <1>1, <1>2, BegunDiffer DEF OwnLists
<1>5. given[r] = <<>>
  BY <1>1, BegunDiffer DEF GivenRight, NotBegun
<1>6. GivenRight'
  BY <1>1, <1>2, <1>5 DEF GivenRight
<1>7. OncePlaced'
  BY <1>1 DEF OncePlaced
<1>8. \A q \in TheRuns : Succeeded(q)' = Succeeded(q)
  <2>1. Succeeded(r)' = {} /\ Succeeded(r) = {}
    BY <1>1, <1>2 DEF Succeeded
  <2>2. \A q \in TheRuns \ {r} : Succeeded(q)' = Succeeded(q)
    BY <1>2 DEF Succeeded
  <2> QED BY <2>1, <2>2
<1>9. Listed' = UNION {Succeeded(q)' : q \in TheRuns}
  <2>1. Listed' = Listed
    BY <1>1 DEF Listed
  <2>2. UNION {Succeeded(q)' : q \in TheRuns} = UNION {Succeeded(q) : q \in TheRuns}
    BY <1>8
  <2> QED BY <2>1, <2>2
<1> QED BY <1>3, <1>4, <1>6, <1>7, <1>9

\* A run that ends gives the list that is in use.
LEMMA EndRunRight ==
  ASSUME ParallelInv, NEW r \in TheRuns, EndRun(r)
  PROVE  ParallelInv'
<1> USE DEF ParallelInv
<1>1. /\ running_[r] = {} /\ given[r] = <<>> /\ given' = [given EXCEPT ![r] = <<result_list>>]
      /\ UNCHANGED <<result_list, lists, running_>>
  BY DEF EndRun
<1>2. given' \in [TheRuns -> Seq(TheRuns \cup {"none"})] /\ given'[r] = <<result_list>>
      /\ \A q \in TheRuns \ {r} : given'[q] = given[q]
  <2>1. <<result_list>> \in Seq(TheRuns \cup {"none"})
    BY DEF ParallelShape
  <2> QED BY <1>1, <2>1 DEF ParallelShape
<1>3. ParallelShape'
  BY <1>1, <1>2 DEF ParallelShape
<1>4. OwnLists'
  BY <1>1 DEF OwnLists
<1>5. ASSUME \A q \in TheRuns \ {r} : running_[q] = NotBegun PROVE result_list = r
  <2>1. running_[r] # NotBegun
    BY <1>1 DEF NotBegun
  <2>2. result_list \in TheRuns
    BY <2>1 DEF OwnLists, ParallelShape
  <2>3. running_[result_list] # NotBegun
    BY <2>2 DEF OwnLists
  <2> QED BY <1>5, <2>2, <2>3
<1>6. GivenRight'
  BY <1>1, <1>2, <1>5 DEF GivenRight
<1>7. OncePlaced'
  BY <1>1 DEF OncePlaced
<1>8. \A q \in TheRuns : Succeeded(q)' = Succeeded(q)
  BY <1>1 DEF Succeeded
<1>9. Listed' = UNION {Succeeded(q)' : q \in TheRuns}
  <2>1. Listed' = Listed
    BY <1>1 DEF Listed
  <2>2. UNION {Succeeded(q)' : q \in TheRuns} = UNION {Succeeded(q) : q \in TheRuns}
    BY <1>8
  <2> QED BY <2>1, <2>2
<1> QED BY <1>3, <1>4, <1>6, <1>7, <1>9

\* An analysis that ends well is listed then, and was not before.
LEMMA EndAnalysisRight ==
  ASSUME ParallelInv, NEW r \in TheRuns, NEW a \in Analyses[r], EndAnalysis(r, a)
  PROVE  ParallelInv'
<1> USE DEF ParallelInv
<1>1. /\ a \in running_[r] /\ a \notin NotBegun
      /\ running_' = [running_ EXCEPT ![r] = @ \ {a}]
      /\ lists' = IF a \in BadAnalyses THEN lists ELSE [lists EXCEPT ![result_list] = Append(@, a)]
      /\ UNCHANGED <<result_list, given>>
  BY DEF EndAnalysis
<1>2. running_[r] # NotBegun /\ running_[r] \subseteq Analyses[r]
  BY <1>1 DEF ParallelShape
<1>3. /\ DOMAIN running_' = TheRuns /\ running_'[r] = running_[r] \ {a}
      /\ running_'[r] \subseteq Analyses[r] /\ running_'[r] # NotBegun
      /\ \A q \in TheRuns \ {r} : running_'[q] = running_[q]
  BY <1>1, <1>2, BegunDiffer DEF ParallelShape
<1>4. \A q \in TheRuns : running_'[q] = NotBegun <=> running_[q] = NotBegun
  BY <1>2, <1>3
<1> DEFINE R == result_list
           L == TheRuns \cup {"none"}
<1>5. R \in TheRuns /\ running_[R] # NotBegun /\ R # "none"
  BY <1>2, BegunDiffer DEF OwnLists, ParallelShape
<1>6. /\ lists \in [L -> Seq(AllAnalyses)] /\ DOMAIN lists = L /\ R \in L /\ a \in AllAnalyses
      /\ \A q \in L : Len(lists[q]) \in Nat /\ DOMAIN lists[q] = 1..Len(lists[q])
  <2>1. lists \in [L -> Seq(AllAnalyses)]
    BY DEF ParallelShape
  <2>2. a \in AllAnalyses
    BY DEF AllAnalyses
  <2>3. \A s \in Seq(AllAnalyses) : Len(s) \in Nat /\ DOMAIN s = 1..Len(s)
    OBVIOUS
  <2>4. R \in L
    BY <1>5
  <2> HIDE DEF L, R
  <2> QED BY <2>1, <2>2, <2>3, <2>4
<1> DEFINE n == Len(lists[R])
<1>7. /\ Append(lists[R], a) \in Seq(AllAnalyses) /\ DOMAIN Append(lists[R], a) = 1..(n + 1)
      /\ Append(lists[R], a)[n + 1] = a /\ \A i \in 1..n : Append(lists[R], a)[i] = lists[R][i]
      /\ n \in Nat
  <2>1. lists[R] \in Seq(AllAnalyses) /\ a \in AllAnalyses
    BY <1>6
  <2> QED BY <2>1
<1>8. a \notin Listed
  <2>1. \A q \in TheRuns : a \notin Succeeded(q)
    <3>1. a \notin Succeeded(r)
      BY <1>1 DEF Succeeded
    <3>2. \A q \in TheRuns \ {r} : a \notin Analyses[q]
      BY BegunDiffer
    <3> QED BY <3>1, <3>2 DEF Succeeded
  <2> QED BY <2>1
<1>9. \A q \in L : \A i \in DOMAIN lists[q] : lists[q][i] # a
  BY <1>6, <1>8 DEF Listed, ToSet
<1> HIDE DEF R, L, n
<1>10. CASE a \in BadAnalyses
  <2>1. lists' = lists
    BY <1>1, <1>10
  <2>2. ParallelShape'
    BY <1>1, <1>3, <2>1 DEF ParallelShape
  <2>3. OwnLists'
    BY <1>1, <1>4, <2>1 DEF OwnLists
  <2>4. OncePlaced'
    BY <2>1 DEF OncePlaced
  <2>5. \A q \in TheRuns : Succeeded(q)' = Succeeded(q)
    <3>1. Succeeded(r)' = Succeeded(r)
      BY <1>2, <1>3, <1>10 DEF Succeeded
    <3>2. \A q \in TheRuns \ {r} : Succeeded(q)' = Succeeded(q)
      BY <1>3 DEF Succeeded
    <3> QED BY <3>1, <3>2
  <2>6. Listed' = UNION {Succeeded(q)' : q \in TheRuns}
    <3>1. Listed' = Listed
      BY <2>1 DEF Listed
    <3>2. UNION {Succeeded(q)' : q \in TheRuns} = UNION {Succeeded(q) : q \in TheRuns}
      BY <2>5
    <3> QED BY <3>1, <3>2
  <2>7. GivenRight'
    BY <1>1, <1>3, <1>4 DEF GivenRight
  <2> QED BY <2>2, <2>3, <2>4, <2>6, <2>7
<1>11. CASE a \notin BadAnalyses
  <2>1. lists' = [lists EXCEPT ![R] = Append(lists[R], a)]
    BY <1>1, <1>11 DEF R
  <2>2. /\ lists' \in [L -> Seq(AllAnalyses)] /\ DOMAIN lists' = L
        /\ lists'[R] = Append(lists[R], a) /\ \A q \in L \ {R} : lists'[q] = lists[q]
    BY <1>6, <1>7, <2>1
  <2>3. ParallelShape'
    BY <1>1, <1>3, <2>2 DEF ParallelShape, L
  <2>4. OwnLists'
    <3>1. lists'["none"] = <<>>
      BY <1>5, <2>2 DEF OwnLists, L
    <3>2. ASSUME NEW q \in TheRuns, running_'[q] = NotBegun PROVE lists'[q] = <<>> /\ result_list # q
      <4>1. running_[q] = NotBegun
        BY <1>4, <3>2
      <4>2. lists[q] = <<>> /\ result_list # q
        BY <4>1 DEF OwnLists
      <4> QED BY <2>2, <4>2 DEF L, R
    <3>3. result_list = "none" => \A q \in TheRuns : running_'[q] = NotBegun
      BY <1>5 DEF R
    <3> QED BY <1>1, <3>1, <3>2, <3>3 DEF OwnLists
  <2>5. ASSUME NEW q \in L, NEW i \in DOMAIN lists'[q]
        PROVE  \/ i \in DOMAIN lists[q] /\ lists'[q][i] = lists[q][i]
               \/ q = R /\ i = n + 1 /\ lists'[q][i] = a
    <3>1. CASE q = R
      <4>1. i \in 1..(n + 1) /\ DOMAIN lists[R] = 1..n
        BY <1>6, <1>7, <2>2, <2>5, <3>1 DEF n
      <4>2. CASE i = n + 1
        BY <1>7, <2>2, <3>1, <4>2
      <4>3. CASE i # n + 1
        <5>1. i \in 1..n
          BY <1>7, <4>1, <4>3
        <5> QED BY <1>7, <2>2, <3>1, <4>1, <5>1
      <4> QED BY <4>2, <4>3
    <3>2. CASE q # R
      BY <2>2, <2>5, <3>2
    <3> QED BY <3>1, <3>2
  <2>6. OncePlaced'
    <3>1. ASSUME NEW q \in L, NEW p \in L, NEW i \in DOMAIN lists'[q], NEW j \in DOMAIN lists'[p],
                 lists'[q][i] = lists'[p][j]
          PROVE  q = p /\ i = j
      <4>1. CASE i \in DOMAIN lists[q] /\ lists'[q][i] = lists[q][i]
        <5>1. lists[q][i] # a
          BY <1>9, <4>1
        <5>2. j \in DOMAIN lists[p] /\ lists'[p][j] = lists[p][j]
          BY <2>5, <3>1, <4>1, <5>1
        <5>3. lists[q][i] = lists[p][j] /\ q \in DOMAIN lists /\ p \in DOMAIN lists
          BY <1>6, <3>1, <4>1, <5>2
        <5>4. OncePlaced
          OBVIOUS
        <5> QED BY <4>1, <5>2, <5>3, <5>4 DEF OncePlaced
      <4>2. CASE q = R /\ i = n + 1 /\ lists'[q][i] = a
        <5>1. ~(j \in DOMAIN lists[p] /\ lists'[p][j] = lists[p][j])
          BY <1>9, <3>1, <4>2
        <5>2. p = R /\ j = n + 1
          BY <2>5, <5>1
        <5> QED BY <4>2, <5>2
      <4> QED BY <2>5, <4>1, <4>2
    <3> QED BY <2>2, <3>1 DEF OncePlaced
  <2>7. Listed' = Listed \cup {a}
    <3>1. ASSUME NEW x \in Listed' PROVE x \in Listed \cup {a}
      <4>1. PICK q \in L : x \in ToSet(lists'[q])
        BY <2>2, <3>1 DEF Listed
      <4>2. PICK i \in DOMAIN lists'[q] : x = lists'[q][i]
        BY <4>1 DEF ToSet
      <4>3. CASE i \in DOMAIN lists[q] /\ lists'[q][i] = lists[q][i]
        <5>1. x \in ToSet(lists[q])
          BY <4>2, <4>3 DEF ToSet
        <5> QED BY <1>6, <5>1 DEF Listed
      <4> QED BY <2>5, <4>2, <4>3
    <3>2. ASSUME NEW x \in Listed PROVE x \in Listed'
      <4>0. PICK q \in L : x \in ToSet(lists[q])
        BY <1>6, <3>2 DEF Listed
      <4>1. PICK i \in DOMAIN lists[q] : x = lists[q][i]
        BY <4>0 DEF ToSet
      <4>2. i \in DOMAIN lists'[q] /\ lists'[q][i] = lists[q][i]
        <5>1. CASE q = R
          <6>1. i \in 1..n /\ i \in 1..(n + 1)
            BY <1>6, <1>7, <4>1, <5>1 DEF n
          <6> QED BY <1>7, <2>2, <5>1, <6>1
        <5>2. CASE q # R
          BY <2>2, <4>1, <5>2
        <5> QED BY <5>1, <5>2
      <4>3. x \in ToSet(lists'[q])
        BY <4>1, <4>2 DEF ToSet
      <4> QED BY <2>2, <4>3 DEF Listed
    <3>3. a \in Listed'
      <4>1. n + 1 \in DOMAIN lists'[R] /\ lists'[R][n + 1] = a /\ R \in DOMAIN lists'
        BY <1>6, <1>7, <2>2
      <4>2. a \in ToSet(lists'[R])
        BY <4>1 DEF ToSet
      <4> QED BY <4>1, <4>2 DEF Listed
    <3> QED BY <3>1, <3>2, <3>3
  <2>8. Listed' = UNION {Succeeded(q)' : q \in TheRuns}
    <3>1. Succeeded(r)' = Succeeded(r) \cup {a}
      BY <1>1, <1>2, <1>3, <1>11 DEF Succeeded
    <3>2. \A q \in TheRuns \ {r} : Succeeded(q)' = Succeeded(q)
      BY <1>3 DEF Succeeded
    <3>3. UNION {Succeeded(q)' : q \in TheRuns} = (UNION {Succeeded(q) : q \in TheRuns}) \cup {a}
      BY <3>1, <3>2
    <3> QED BY <2>7, <3>3
  <2>9. GivenRight'
    BY <1>1, <1>3, <1>4 DEF GivenRight
  <2> QED BY <2>3, <2>4, <2>6, <2>8, <2>9
<1> QED BY <1>10, <1>11

\* So each has the results of its own when it was alone.
LEMMA ResultsFollow ==
  ASSUME ParallelInv
  PROVE  ResultsKept
<1>1. Runs = TheRuns /\ DOMAIN lists = TheRuns \cup {"none"}
  BY DEF Runs, ParallelInv, ParallelShape
<1>2. ASSUME NEW r \in TheRuns, given[r] # <<>>, \A q \in TheRuns \ {r} : running_[q] = NotBegun
      PROVE  given[r] = <<r>> /\ ToSet(lists[r]) = Analyses[r] \ BadAnalyses
  <2>1. given[r] = <<r>> /\ running_[r] = {}
    BY <1>2 DEF ParallelInv, GivenRight
  <2>2. Succeeded(r) = Analyses[r] \ BadAnalyses
    BY <2>1 DEF Succeeded, NotBegun
  <2>3. \A q \in TheRuns \ {r} : Succeeded(q) = {}
    BY <1>2 DEF Succeeded
  <2>4. UNION {Succeeded(q) : q \in TheRuns} = Analyses[r] \ BadAnalyses
    BY <2>2, <2>3
  <2>5. \A q \in DOMAIN lists \ {r} : lists[q] = <<>>
    BY <1>1, <1>2 DEF ParallelInv, OwnLists
  <2>6. ToSet(<<>>) = {}
    BY DEF ToSet
  <2>7. Listed = ToSet(lists[r])
    BY <1>1, <2>5, <2>6 DEF Listed
  <2> QED BY <2>1, <2>4, <2>7 DEF ParallelInv
<1>3. UNION {ToSet(lists[r]) : r \in DOMAIN lists} = UNION {Succeeded(r) : r \in Runs}
  BY <1>1 DEF ParallelInv, Listed
<1> QED BY <1>1, <1>2, <1>3 DEF ResultsKept, ParallelInv, OncePlaced

\* What the calls that are left have to see is the end of what there was; what was
\* marked was there at one of those before.
CallsDone == Len(Totals) - Len(calls_left)
SoFar(k) == {0} \cup {Totals[i] : i \in 1..k}
IndexerInv ==
  /\ calls_left \in Seq(Nat) /\ Len(calls_left) <= Len(Totals)
  /\ \A j \in 1..Len(calls_left) : calls_left[j] = Totals[CallsDone + j]
  /\ last_position \in Nat /\ processed \in Nat /\ buffered \in Nat
  /\ processed + buffered = last_position
  /\ \E x \in SoFar(CallsDone) : last_position <= x

\* What there was at one of the calls is not more than the most.
LEMMA MostOfThem ==
  ASSUME NEW k \in Nat, NEW f, \A i \in 1..k : f[i] \in Nat,
         NEW x \in {0} \cup {f[i] : i \in 1..k}
  PROVE  x <= Max({0} \cup {f[i] : i \in 1..k}) /\ Max({0} \cup {f[i] : i \in 1..k}) \in Nat
<1> DEFINE T == {0} \cup {f[i] : i \in 1..k}
           Bound(m) == \E b \in Nat : \A i \in 1..m : f[i] <= b
           P == {m \in 0..k : Bound(m)}
<1>1. 0 \in P
  <2>1. 0 \in 0..k /\ 1..0 = {} /\ 0 \in Nat
    OBVIOUS
  <2> QED BY <2>1
<1>2. ASSUME NEW m \in 1..k, m - 1 \in P PROVE m \in P
  <2>1. PICK b \in Nat : \A i \in 1..(m - 1) : f[i] <= b
    BY <1>2
  <2>2. PICK y \in Nat : y = f[m]
    OBVIOUS
  <2>3. PICK c \in Nat : b <= c /\ y <= c
    <3>1. b <= y \/ y <= b
      BY <2>1, <2>2
    <3> QED BY <2>1, <2>2, <3>1
  <2>4. \A i \in 1..m : f[i] <= c
    <3> TAKE i \in 1..m
    <3>1. i = m \/ i \in 1..(m - 1)
      OBVIOUS
    <3>2. f[i] \in Nat
      OBVIOUS
    <3> QED BY <2>1, <2>2, <2>3, <3>1, <3>2
  <2>5. m \in 0..k
    OBVIOUS
  <2> QED BY <2>4, <2>5
<1> HIDE DEF P
<1>3. k \in P
  <2>1. k \in 0..k
    OBVIOUS
  <2> QED BY <1>1, <1>2, <2>1, UpTo
<1>4. PICK b \in Nat : \A i \in 1..k : f[i] <= b
  BY <1>3 DEF P
<1>5. T \in SUBSET Nat /\ T # {} /\ \A t \in T : t <= b
  BY <1>4
<1>6. x \in T
  OBVIOUS
<1> HIDE DEF T
<1>7. \E y \in T : \A z \in T : y >= z
  BY <1>5, GreatestNatural
<1>8. Max(T) \in T /\ \A z \in T : Max(T) >= z
  BY <1>7 DEF Max
<1>9. x <= Max(T) /\ Max(T) \in Nat
  <2>1. x \in Nat /\ Max(T) \in Nat /\ Max(T) >= x
    BY <1>5, <1>6, <1>8
  <2> QED BY <2>1
<1> QED BY <1>9 DEF T

\* The larger and the smaller of two numbers.
LEMMA OfTwo ==
  ASSUME NEW x \in Int, NEW y \in Int
  PROVE  /\ Max({x, y}) = (IF x >= y THEN x ELSE y)
         /\ Min({x, y}) = (IF x <= y THEN x ELSE y)
<1>1. \A z \in {x, y} : (\A w \in {x, y} : z >= w) <=> z = IF x >= y THEN x ELSE y
  OBVIOUS
<1>2. \A z \in {x, y} : (\A w \in {x, y} : z =< w) <=> z = IF x <= y THEN x ELSE y
  OBVIOUS
<1>3. PICK m : m = (IF x >= y THEN x ELSE y) /\ m \in {x, y}
  OBVIOUS
<1>4. PICK n : n = (IF x <= y THEN x ELSE y) /\ n \in {x, y}
  OBVIOUS
<1>5. Max({x, y}) = m
  BY <1>1, <1>3 DEF Max
<1>6. Min({x, y}) = n
  BY <1>2, <1>4 DEF Min
<1> QED BY <1>3, <1>4, <1>5, <1>6

\* Items that are added are flushed or kept.
LEMMA AddRight ==
  ASSUME NEW n \in Nat, buffered \in Nat
  PROVE  /\ AddItems(n).flushed \in Nat /\ AddItems(n).kept \in Nat
         /\ AddItems(n).flushed + AddItems(n).kept = buffered + n
<1>1. PICK m : m = buffered + n /\ m \in Nat
  OBVIOUS
<1>2. PICK q : q = m \div Buffer
  OBVIOUS
<1>3. Buffer \in Nat \ {0}
  BY PerformanceAssumption
<1>4. q \in Nat /\ m = Buffer * q + (m % Buffer) /\ m % Buffer \in Nat
  BY <1>1, <1>2, <1>3
<1>5. PICK full : full = q * Buffer
  OBVIOUS
<1>6. full \in Nat /\ full <= m
  <2>1. full = Buffer * q /\ Buffer * q \in Nat
    BY <1>3, <1>4, <1>5
  <2>2. PICK rest \in Nat : rest = m % Buffer
    BY <1>4
  <2>3. m = full + rest
    BY <1>4, <2>1, <2>2
  <2> QED BY <2>1, <2>2, <2>3
<1>7. AddItems(n) = [flushed |-> full, kept |-> m - full]
  <2>1. AddItems(n) = [flushed |-> ((buffered + n) \div Buffer) * Buffer,
                       kept |-> buffered + n - ((buffered + n) \div Buffer) * Buffer]
    BY DEF AddItems
  <2>2. ((buffered + n) \div Buffer) * Buffer = full
    BY <1>1, <1>2, <1>5
  <2>3. AddItems(n) = [flushed |-> full, kept |-> buffered + n - full]
    BY <2>1, <2>2, Zenon
  <2>4. buffered + n - full = m - full
    BY <1>1, <1>6
  <2> QED BY <2>3, <2>4, Zenon
<1>8. AddItems(n).flushed = full /\ AddItems(n).kept = m - full
  BY <1>7
<1> QED BY <1>1, <1>6, <1>8

\* A call of the indexer, and the flush at the end.
LEMMA IndexerRight ==
  ASSUME IndexerInv, IndexBatch \/ Flush
  PROVE  IndexerInv'
<1>1. /\ calls_left \in Seq(Nat) /\ Len(calls_left) <= Len(Totals)
      /\ \A j \in 1..Len(calls_left) : calls_left[j] = Totals[CallsDone + j]
      /\ last_position \in Nat /\ processed \in Nat /\ buffered \in Nat
      /\ processed + buffered = last_position
      /\ \E x \in SoFar(CallsDone) : last_position <= x
  BY DEF IndexerInv
<1>2. Totals \in Seq(Nat) /\ Len(Totals) \in Nat /\ Len(calls_left) \in Nat /\ Batch \in Nat \ {0}
  BY <1>1, LenProperties, PerformanceAssumption
<1>3. CASE IndexBatch
  <2> DEFINE h == Head(calls_left)
             top == Min({last_position + Batch, h})
             count == Max({0, top - last_position})
             k == CallsDone
  <2>1. /\ calls_left # <<>> /\ calls_left' = Tail(calls_left) /\ last_position' = last_position + count
        /\ processed' = processed + AddItems(count).flushed /\ buffered' = AddItems(count).kept
    BY <1>3 DEF IndexBatch
  <2>2. /\ h \in Nat /\ h = calls_left[1] /\ Len(calls_left) \in Nat \ {0}
        /\ calls_left' \in Seq(Nat) /\ Len(calls_left') = Len(calls_left) - 1
        /\ \A j \in 1..(Len(calls_left) - 1) : calls_left'[j] = calls_left[j + 1]
    BY <1>1, <1>2, <2>1
  <2> HIDE DEF h
  <2>3. k \in Nat /\ CallsDone' = k + 1 /\ k + 1 <= Len(Totals)
    BY <1>1, <1>2, <2>2 DEF CallsDone
  <2>4. h = Totals[k + 1]
    <3>1. 1 \in 1..Len(calls_left)
      BY <2>2
    <3> QED BY <1>1, <2>2, <3>1
  <2>5. \A j \in 1..Len(calls_left') : calls_left'[j] = Totals[CallsDone' + j]
    <3> TAKE j \in 1..Len(calls_left')
    <3>1. j \in 1..(Len(calls_left) - 1) /\ j + 1 \in 1..Len(calls_left) /\ j \in Nat
      BY <2>2
    <3>2. calls_left'[j] = Totals[k + (j + 1)]
      BY <1>1, <2>2, <3>1
    <3>3. k + (j + 1) = CallsDone' + j
      BY <2>3, <3>1
    <3> QED BY <3>2, <3>3
  <2> HIDE DEF k
  <2>6. count \in Nat /\ (last_position + count <= last_position \/ last_position + count <= h)
    <3>0. last_position + Batch \in Int /\ h \in Int
      BY <1>1, <1>2, <2>2
    <3>1. top = IF last_position + Batch <= h THEN last_position + Batch ELSE h
      BY <3>0, OfTwo
    <3> HIDE DEF top
    <3>2. top \in Int /\ top <= h
      BY <3>0, <3>1
    <3>3. count = IF 0 >= top - last_position THEN 0 ELSE top - last_position
      <4>1. top - last_position \in Int /\ 0 \in Int
        BY <1>1, <3>2
      <4> QED BY <4>1, OfTwo
    <3> HIDE DEF count
    <3> QED BY <1>1, <2>2, <3>2, <3>3
  <2> HIDE DEF count
  <2>7. /\ AddItems(count).flushed \in Nat /\ AddItems(count).kept \in Nat
        /\ AddItems(count).flushed + AddItems(count).kept = buffered + count
    BY <1>1, <2>6, AddRight
  <2>8. /\ last_position' \in Nat /\ processed' \in Nat /\ buffered' \in Nat
        /\ processed' + buffered' = last_position'
    <3>1. PICK f \in Nat : f = AddItems(count).flushed
      BY <2>7
    <3>2. PICK g \in Nat : g = AddItems(count).kept
      BY <2>7
    <3>3. f + g = buffered + count
      BY <2>7, <3>1, <3>2
    <3>4. processed' = processed + f /\ buffered' = g
      BY <2>1, <3>1, <3>2
    <3>5. \A p, b, l, c \in Nat : (p + b = l /\ f + g = b + c) => (p + f) + g = l + c
      OBVIOUS
    <3>6. (processed + f) + g = last_position + count
      BY <1>1, <2>6, <3>3, <3>5
    <3>7. last_position + count \in Nat /\ processed + f \in Nat
      BY <1>1, <2>6
    <3> QED BY <2>1, <3>4, <3>6, <3>7
  <2>9. \E x \in SoFar(CallsDone') : last_position' <= x
    <3>1. h \in SoFar(k + 1)
      BY <2>3, <2>4 DEF SoFar
    <3>2. PICK x \in SoFar(k) : last_position <= x
      BY <1>1 DEF k
    <3>3. x \in SoFar(k + 1)
      BY <2>3, <3>2 DEF SoFar
    <3>4. last_position' <= last_position \/ last_position' <= h
      BY <2>1, <2>6
    <3>5. CASE last_position' <= last_position
      <4>1. last_position' = last_position
        BY <1>1, <2>1, <2>6, <3>5
      <4> QED BY <2>3, <3>2, <3>3, <4>1
    <3>6. CASE last_position' <= h
      BY <2>3, <3>1, <3>6
    <3> QED BY <3>4, <3>5, <3>6
  <2>10. Len(calls_left') <= Len(Totals)
    BY <1>1, <1>2, <2>2
  <2> QED BY <2>2, <2>5, <2>8, <2>9, <2>10 DEF IndexerInv
<1>4. CASE Flush
  <2>1. processed' = processed + buffered /\ buffered' = 0 /\ UNCHANGED <<last_position, calls_left>>
    BY <1>4 DEF Flush
  <2>2. CallsDone' = CallsDone
    BY <2>1 DEF CallsDone
  <2>3. processed' \in Nat /\ buffered' \in Nat /\ processed' + buffered' = last_position'
    BY <1>1, <2>1
  <2> QED BY <1>1, <2>1, <2>2, <2>3 DEF IndexerInv
<1> QED BY <1>3, <1>4

PerformanceInv == GuardInv /\ ParallelInv /\ IndexerInv

\* Before anything is called.
LEMMA PerformanceInitInv == PerformanceInit => PerformanceInv
<1> SUFFICES ASSUME PerformanceInit PROVE PerformanceInv
  OBVIOUS
<1>1. GuardInv
  <2>1. usage = 0 /\ alloc = [t \in Threads |-> "ready"] /\ raced = FALSE
    BY DEF PerformanceInit, GuardIdle, Threads
  <2>2. Holders = {}
    BY <2>1 DEF Holders
  <2>3. SumOf({}, Amounts) = 0
    BY FS_EmptySet DEF SumOf, Units
  <2>4. MaxMemory \in Nat
    BY PerformanceAssumption
  <2>5. alloc \in [Threads -> AllocStates] /\ \A t \in Threads : alloc[t] # "granted"
    BY <2>1 DEF AllocStates
  <2>6. usage = SumOf(Holders, Amounts)
    BY <2>1, <2>2, <2>3
  <2>7. usage <= MaxMemory
    BY <2>1, <2>4
  <2> QED BY <2>1, <2>5, <2>6, <2>7 DEF GuardInv
<1>2. ParallelInv
  <2>1. /\ result_list = "none" /\ lists = [r \in TheRuns \cup {"none"} |-> <<>>]
        /\ running_ = [r \in TheRuns |-> NotBegun] /\ given = [r \in TheRuns |-> <<>>]
    BY DEF PerformanceInit, ParallelIdle, TheRuns
  <2>2. ParallelShape
    <3>1. <<>> \in Seq(AllAnalyses) /\ <<>> \in Seq(TheRuns \cup {"none"})
      OBVIOUS
    <3> QED BY <2>1, <3>1 DEF ParallelShape
  <2>3. OwnLists /\ GivenRight
    BY <2>1, BegunDiffer DEF OwnLists, GivenRight
  <2>4. \A r \in DOMAIN lists : lists[r] = <<>> /\ DOMAIN lists[r] = {}
    BY <2>1
  <2>5. OncePlaced /\ Listed = {}
    BY <2>4 DEF OncePlaced, Listed, ToSet
  <2>6. \A r \in TheRuns : Succeeded(r) = {}
    BY <2>1 DEF Succeeded
  <2> QED BY <2>2, <2>3, <2>5, <2>6 DEF ParallelInv
<1>3. IndexerInv
  <2>1. last_position = 0 /\ processed = 0 /\ buffered = 0 /\ calls_left = Totals
    BY DEF PerformanceInit, IndexerIdle
  <2>2. Totals \in Seq(Nat) /\ Len(Totals) \in Nat
    BY LenProperties, PerformanceAssumption
  <2>3. CallsDone = 0
    BY <2>1, <2>2 DEF CallsDone
  <2>4. 0 \in SoFar(CallsDone)
    BY DEF SoFar
  <2>5. \A j \in 1..Len(calls_left) : calls_left[j] = Totals[CallsDone + j]
    BY <2>1, <2>2, <2>3
  <2> QED BY <2>1, <2>2, <2>4, <2>5 DEF IndexerInv
<1> QED BY <1>1, <1>2, <1>3 DEF PerformanceInv

\* Every call keeps it: each helper's are its own.
LEMMA PerformanceNextInv == PerformanceInv /\ [PerformanceNext]_performanceVars => PerformanceInv'
<1> SUFFICES ASSUME PerformanceInv, [PerformanceNext]_performanceVars PROVE PerformanceInv'
  OBVIOUS
<1> USE DEF PerformanceInv
<1>1. UNCHANGED guardVars => GuardInv'
  BY DEF guardVars, GuardInv, Holders
<1>2. UNCHANGED parallelVars => ParallelInv'
  <2> SUFFICES ASSUME UNCHANGED parallelVars PROVE ParallelInv'
    OBVIOUS
  <2>1. UNCHANGED <<result_list, lists, running_, given>>
    BY DEF parallelVars
  <2>2. ParallelShape' /\ OwnLists' /\ GivenRight' /\ OncePlaced'
    BY <2>1 DEF ParallelInv, ParallelShape, OwnLists, GivenRight, OncePlaced
  <2>3. Listed' = Listed /\ \A r \in TheRuns : Succeeded(r)' = Succeeded(r)
    BY <2>1 DEF Listed, Succeeded
  <2>4. UNION {Succeeded(r)' : r \in TheRuns} = UNION {Succeeded(r) : r \in TheRuns}
    BY <2>3
  <2> QED BY <2>2, <2>3, <2>4 DEF ParallelInv
<1>3. UNCHANGED indexerVars => IndexerInv'
  BY DEF indexerVars, IndexerInv, CallsDone
<1>4. CASE UNCHANGED performanceVars
  BY <1>1, <1>2, <1>3, <1>4 DEF performanceVars
<1>5. ASSUME NEW t \in DOMAIN alloc, Check(t) \/ RecordAllocation(t) \/ RecordRelease(t)
      PROVE  PerformanceInv'
  <2>1. t \in Threads
    BY <1>5 DEF GuardInv
  <2>2. UNCHANGED <<parallelVars, indexerVars>>
    BY <1>5 DEF Check, RecordAllocation, RecordRelease
  <2> QED BY <1>2, <1>3, <1>5, <2>1, <2>2, GuardRight
<1>6. ASSUME NEW r \in Runs, BeginRun(r) \/ EndRun(r) \/ \E a \in Analyses[r] : EndAnalysis(r, a)
      PROVE  PerformanceInv'
  <2>1. r \in TheRuns
    BY <1>6 DEF Runs, ParallelInv, ParallelShape
  <2>2. UNCHANGED <<guardVars, indexerVars>>
    BY <1>6 DEF BeginRun, EndRun, EndAnalysis
  <2> QED BY <1>1, <1>3, <1>6, <2>1, <2>2, BeginRight, EndRunRight, EndAnalysisRight
<1>7. CASE IndexBatch \/ Flush
  <2>1. UNCHANGED <<guardVars, parallelVars>>
    BY <1>7 DEF IndexBatch, Flush
  <2> QED BY <1>1, <1>2, <1>7, <2>1, IndexerRight
<1> QED BY <1>4, <1>5, <1>6, <1>7 DEF PerformanceNext

\* Threads that ask for memory, runs at once and an indexer that is called bit by bit
\* keep their counts.
THEOREM PerformanceKept == PerformanceSpec => []PerformanceRight
<1>1. PerformanceSpec => []PerformanceInv
  BY PerformanceInitInv, PerformanceNextInv, PTL DEF PerformanceSpec
<1>2. PerformanceInv => PerformanceRight
  <2> SUFFICES ASSUME PerformanceInv PROVE PerformanceRight
    OBVIOUS
  <2> USE DEF PerformanceInv
  <2>1. LimitHolds
    <3>1. IsFiniteSet(Holders) /\ \A t \in Holders : Amounts[t] \in Nat
      BY HeldFinite DEF GuardInv
    <3>2. FoldSet(LAMBDA t, n : n + Amounts[t], 0, Holders) = SumOf(Holders, Amounts)
      BY <3>1, HeldAddsUp
    <3> QED BY <3>2 DEF LimitHolds, GuardInv
  <2>2. IndexedOnce
    <3>1. CallsDone \in Nat /\ \A i \in 1..CallsDone : Totals[i] \in Nat
      <4>1. Totals \in Seq(Nat) /\ Len(Totals) \in Nat /\ Len(calls_left) \in Nat /\ Len(calls_left) <= Len(Totals)
        BY LenProperties, PerformanceAssumption DEF IndexerInv
      <4>2. CallsDone \in 0..Len(Totals)
        BY <4>1 DEF CallsDone
      <4> QED BY <4>1, <4>2, ElementOfSeq
    <3>2. PICK x \in SoFar(CallsDone) : last_position <= x
      BY DEF IndexerInv
    <3>3. x <= Max(SoFar(CallsDone)) /\ Max(SoFar(CallsDone)) \in Nat
      BY <3>1, MostOfThem DEF SoFar
    <3>4. x \in Nat /\ last_position \in Nat
      BY <3>1 DEF SoFar, IndexerInv
    <3>5. last_position <= Max(SoFar(CallsDone))
      BY <3>2, <3>3, <3>4
    <3> QED BY <3>5 DEF IndexedOnce, IndexerInv, SoFar, CallsDone
  <2> QED BY <2>1, <2>2, ResultsFollow DEF PerformanceRight
<1> QED BY <1>1, <1>2, PTL

-----------------------------------------------------------------------------
(* Loader, registry and lifecycle of plugins (Plugins).                       *)

Class == [kind : {"plugin", "nameless", "raises"}, plugin : PluginSet]
Module == [runs : BOOLEAN, classes : Seq(Class)]
MadeStep ==
  [p \in Seq(PluginSet) \X Class |-> IF p[2].kind = "plugin" THEN Append(p[1], p[2].plugin) ELSE p[1]]

\* What is made of classes is a list of plugins.
LEMMA MadeRight ==
  ASSUME NEW classes \in Seq(Class)
  PROVE  Made(classes) \in Seq(PluginSet)
<1> DEFINE V == Seq(PluginSet)
           next == MadeStep
           Goes(v, c) == IF c.kind = "plugin" THEN Append(v, c.plugin) ELSE v
           n == Len(classes)
           Equation(g) == g = [s \in SUBSET (1..n) |->
                                 IF s = {} THEN <<>> ELSE Goes(g[s \ {Max(s)}], classes[Max(s)])]
<1>1. /\ <<>> \in V /\ next \in [V \X Class -> V]
      /\ \A v \in V, c \in Class : next[<<v, c>>] = Goes(v, c)
  <2>1. \A p \in V \X Class : p[1] \in V /\ p[2] \in Class
    OBVIOUS
  <2>2. \A v \in V, c \in Class : Goes(v, c) \in V
    <3> TAKE v \in V, c \in Class
    <3>1. c.plugin \in PluginSet
      BY DEF Class
    <3>2. Append(v, c.plugin) \in V
      BY <3>1
    <3> QED BY <3>2
  <2>3. \A p \in V \X Class : Goes(p[1], p[2]) \in V
    BY <2>1, <2>2
  <2>4. next = [p \in V \X Class |-> Goes(p[1], p[2])]
    BY DEF MadeStep
  <2>5. \A v \in V, c \in Class : <<v, c>> \in V \X Class /\ <<v, c>>[1] = v /\ <<v, c>>[2] = c
    OBVIOUS
  <2> HIDE DEF V, next, Goes
  <2>6. \A v \in V, c \in Class : next[<<v, c>>] = Goes(<<v, c>>[1], <<v, c>>[2])
    BY <2>4, <2>5
  <2>7. next \in [V \X Class -> V]
    BY <2>3, <2>4
  <2>8. <<>> \in V
    BY DEF V
  <2> QED BY <2>5, <2>6, <2>7, <2>8
<1>2. n \in Nat /\ DOMAIN classes = 1..n /\ \A i \in 1..n : classes[i] \in Class
  BY LenProperties, ElementOfSeq
<1> HIDE DEF V, next, Goes, Equation
<1>3. PICK G : LeftFold(G, V, Class, <<>>, next) /\ Gathers(G, V, Class, <<>>, next)
  BY <1>1, LeftFolds, Zenon
<1>4. PICK g0 : LeftEquation(g0, V, classes, <<>>, next)
  BY <1>1, LeftExists, Zenon
<1>5. Equation(g0)
  <2>1. ASSUME NEW s \in SUBSET (1..n)
        PROVE  g0[s] = IF s = {} THEN <<>> ELSE Goes(g0[s \ {Max(s)}], classes[Max(s)])
    <3>1. s # {} => classes[Max(s)] \in Class
      BY <1>2, MaxRight
    <3>2. g0[s \ {Max(s)}] \in V
      BY <1>4 DEF LeftEquation
    <3> QED BY <1>1, <1>4, <3>1, <3>2 DEF LeftEquation
  <2> QED BY <1>4, <2>1 DEF Equation, LeftEquation
<1>6. PICK g : Equation(g) /\ Made(classes) = g[1..n]
  <2>1. Equation(CHOOSE g : Equation(g))
    BY <1>5
  <2>2. Made(classes) = (CHOOSE g : Equation(g))[1..n]
    BY <1>2 DEF Made, FoldLeft, MapThenFoldSet, Equation, Goes
  <2> QED BY <2>1, <2>2
<1>7. g[{}] = <<>> /\ \A s \in SUBSET (1..n) : s # {} => g[s] = Goes(g[s \ {Max(s)}], classes[Max(s)])
  BY <1>6 DEF Equation
<1>8. \A s \in SUBSET (1..n) : s # {} => classes[Max(s)] \in Class
  BY <1>2, MaxRight
<1>9. LeftSteps(g, V, classes, <<>>, next)
  BY <1>1, <1>7, <1>8, LeftTakes
<1>10. Made(classes) = G[classes]
  BY <1>3, <1>6, <1>9 DEF Gathers
<1>11. G[classes] \in V
  BY <1>3 DEF LeftFold
<1> QED BY <1>10, <1>11 DEF V

\* So is what a module has, whether it can be run to its end or not.
LEMMA ExtractedRight ==
  ASSUME NEW module \in Module
  PROVE  Extracted(module) \in Seq(PluginSet)
<1> DEFINE classes == module.classes
           n == Len(classes)
           bad == {k \in DOMAIN classes : classes[k].kind = "raises"}
           looked == IF ~module.runs THEN <<>>
                   ELSE IF bad = {} THEN classes ELSE SubSeq(classes, 1, Min(bad) - 1)
<1>1. classes \in Seq(Class)
  BY DEF Module
<1>2. n \in Nat /\ DOMAIN classes = 1..n
  BY <1>1, LenProperties
<1> HIDE DEF classes
<1>3. bad \in SUBSET (1..n)
  BY <1>2
<1>4. bad # {} => Min(bad) \in 1..n
  BY <1>2, <1>3, MinRight
<1>5. bad # {} => SubSeq(classes, 1, Min(bad) - 1) \in Seq(Class)
  <2> SUFFICES ASSUME bad # {} PROVE SubSeq(classes, 1, Min(bad) - 1) \in Seq(Class)
    OBVIOUS
  <2>1. PICK m \in 1..n : m = Min(bad)
    BY <1>4
  <2>2. SubSeq(classes, 1, m - 1) \in Seq(Class)
    BY <1>1, <1>2
  <2> QED BY <2>1, <2>2
<1> HIDE DEF bad
<1>6. looked \in Seq(Class)
  <2>1. <<>> \in Seq(Class)
    OBVIOUS
  <2> QED BY <1>1, <1>5, <2>1
<1>7. Extracted(module) = Made(looked)
  BY DEF Extracted, bad, classes
<1> HIDE DEF looked
<1> QED BY <1>6, <1>7, MadeRight

PluginNames == {p.name : p \in PluginSet}
PluginTables == UNION {[D -> PluginSet] : D \in SUBSET PluginNames}
NamedStep == [x \in PluginTables \X PluginSet |-> Named(x[1], x[2])]

\* A plugin more in a table.
LEMMA NamedRight ==
  ASSUME NEW table \in PluginTables, NEW p \in PluginSet
  PROVE  /\ Named(table, p) \in PluginTables
         /\ DOMAIN Named(table, p) = DOMAIN table \cup {p.name}
         /\ Named(table, p)[p.name] = p
         /\ \A n \in DOMAIN table : n # p.name => Named(table, p)[n] = table[n]
<1>1. PICK D \in SUBSET PluginNames : table \in [D -> PluginSet]
  BY DEF PluginTables
<1>2. D \cup {p.name} \in SUBSET PluginNames /\ DOMAIN table = D
  BY <1>1 DEF PluginNames
<1>3. Named(table, p) \in [D \cup {p.name} -> PluginSet]
  BY <1>1, <1>2 DEF Named
<1>4. Named(table, p) \in PluginTables
  BY <1>2, <1>3 DEF PluginTables
<1> QED BY <1>1, <1>2, <1>4 DEF Named

\* All that is loaded one after the other is in the table then, or another of its name.
LEMMA LoadedRight ==
  ASSUME NEW table \in PluginTables, NEW all \in Seq(PluginSet)
  PROVE  /\ FoldLeft(Named, table, all) \in PluginTables
         /\ \A i \in DOMAIN all : \E j \in DOMAIN all :
              /\ all[j].name = all[i].name
              /\ FoldLeft(Named, table, all)[all[i].name] = all[j]
<1> DEFINE V == PluginTables
           next == NamedStep
           n == Len(all)
           Equation(g) == g = [s \in SUBSET (1..n) |->
                                 IF s = {} THEN table ELSE Named(g[s \ {Max(s)}], all[Max(s)])]
<1>1. /\ next \in [V \X PluginSet -> V]
      /\ \A v \in V, p \in PluginSet : next[<<v, p>>] = Named(v, p)
  <2>1. \A x \in V \X PluginSet : x[1] \in V /\ x[2] \in PluginSet
    OBVIOUS
  <2>2. \A x \in V \X PluginSet : Named(x[1], x[2]) \in V
    BY <2>1, NamedRight
  <2>3. \A v \in V, p \in PluginSet : <<v, p>> \in V \X PluginSet /\ <<v, p>>[1] = v /\ <<v, p>>[2] = p
    OBVIOUS
  <2>4. next = [x \in V \X PluginSet |-> Named(x[1], x[2])]
    BY DEF NamedStep
  <2> HIDE DEF V, next
  <2>5. \A v \in V, p \in PluginSet : next[<<v, p>>] = Named(<<v, p>>[1], <<v, p>>[2])
    BY <2>3, <2>4
  <2>6. next \in [V \X PluginSet -> V]
    BY <2>2, <2>4
  <2> QED BY <2>3, <2>5, <2>6
<1>2. n \in Nat /\ DOMAIN all = 1..n /\ \A i \in 1..n : all[i] \in PluginSet
  BY LenProperties, ElementOfSeq
<1> HIDE DEF next, Equation
<1>3. PICK G : LeftFold(G, V, PluginSet, table, next) /\ Gathers(G, V, PluginSet, table, next)
  BY <1>1, LeftFolds, Zenon
<1>4. PICK g0 : LeftEquation(g0, V, all, table, next)
  BY <1>1, LeftExists, Zenon
<1> HIDE DEF V
<1>5. Equation(g0)
  <2>1. ASSUME NEW s \in SUBSET (1..n)
        PROVE  g0[s] = IF s = {} THEN table ELSE Named(g0[s \ {Max(s)}], all[Max(s)])
    <3>1. s # {} => all[Max(s)] \in PluginSet
      BY <1>2, MaxRight
    <3>2. g0[s \ {Max(s)}] \in V
      BY <1>4 DEF LeftEquation
    <3> QED BY <1>1, <1>4, <3>1, <3>2 DEF LeftEquation
  <2> QED BY <1>4, <2>1 DEF Equation, LeftEquation
<1>6. PICK g : Equation(g) /\ FoldLeft(Named, table, all) = g[1..n]
  <2>1. Equation(CHOOSE g : Equation(g))
    BY <1>5
  <2>2. FoldLeft(Named, table, all) = (CHOOSE g : Equation(g))[1..n]
    BY <1>2 DEF FoldLeft, MapThenFoldSet, Equation
  <2> QED BY <2>1, <2>2
<1>7. g[{}] = table /\ \A s \in SUBSET (1..n) : s # {} => g[s] = Named(g[s \ {Max(s)}], all[Max(s)])
  BY <1>6 DEF Equation
<1>8. \A s \in SUBSET (1..n) : s # {} => all[Max(s)] \in PluginSet
  BY <1>2, MaxRight
<1>9. LeftSteps(g, V, all, table, next)
  BY <1>1, <1>7, <1>8, LeftTakes
<1>10. FoldLeft(Named, table, all) = G[all]
  BY <1>3, <1>6, <1>9 DEF Gathers
<1>11. /\ \A s \in Seq(PluginSet) : G[s] \in PluginTables
       /\ \A s \in Seq(PluginSet), p \in PluginSet : G[Append(s, p)] = Named(G[s], p)
  BY <1>1, <1>3 DEF LeftFold, V
<1> DEFINE Right(s) == \A i \in DOMAIN s :
                          /\ s[i].name \in DOMAIN G[s]
                          /\ \E j \in DOMAIN s : s[j].name = s[i].name /\ G[s][s[i].name] = s[j]
           P == {m \in 0..n : \A s \in Seq(PluginSet) : Len(s) = m => Right(s)}
<1>12. 0 \in P
  <2>1. \A s \in Seq(PluginSet) : Len(s) = 0 => DOMAIN s = {}
    BY LenProperties
  <2>2. 0 \in 0..n
    BY <1>2
  <2> QED BY <2>1, <2>2
<1>13. ASSUME NEW m \in 1..n, m - 1 \in P PROVE m \in P
  <2>1. ASSUME NEW s \in Seq(PluginSet), Len(s) = m PROVE Right(s)
    <3>1. s # <<>>
      BY <2>1, EmptySeq
    <3>2. PICK f \in Seq(PluginSet), p \in PluginSet : s = Append(f, p)
      BY <3>1, SequenceEmptyOrAppend
    <3> DEFINE k == Len(f)
    <3>3. /\ k \in Nat /\ Len(s) = k + 1 /\ DOMAIN f = 1..k /\ DOMAIN s = 1..(k + 1)
          /\ s[k + 1] = p /\ \A i \in 1..k : s[i] = f[i]
      BY <3>2
    <3> HIDE DEF k
    <3>4. Len(f) = m - 1
      BY <2>1, <3>3 DEF k
    <3>5. Right(f)
      BY <1>13, <3>4
    <3>6. G[f] \in PluginTables /\ G[s] = Named(G[f], p)
      BY <1>11, <3>2
    <3>7. /\ DOMAIN G[s] = DOMAIN G[f] \cup {p.name} /\ G[s][p.name] = p
          /\ \A x \in DOMAIN G[f] : x # p.name => G[s][x] = G[f][x]
      <4>1. PICK tab \in PluginTables : tab = G[f]
        BY <3>6
      <4>2. PICK more : more = Named(tab, p) /\ more = G[s]
        BY <3>6, <4>1
      <4>3. /\ DOMAIN more = DOMAIN tab \cup {p.name} /\ more[p.name] = p
            /\ \A x \in DOMAIN tab : x # p.name => more[x] = tab[x]
        <5>1. /\ DOMAIN Named(tab, p) = DOMAIN tab \cup {p.name} /\ Named(tab, p)[p.name] = p
              /\ \A x \in DOMAIN tab : x # p.name => Named(tab, p)[x] = tab[x]
          BY <4>1, NamedRight, Zenon
        <5> QED BY <4>2, <5>1
      <4> QED BY <4>1, <4>2, <4>3
    <3>8. ASSUME NEW i \in DOMAIN s
          PROVE  /\ s[i].name \in DOMAIN G[s]
                 /\ \E j \in DOMAIN s : s[j].name = s[i].name /\ G[s][s[i].name] = s[j]
      <4>1. CASE s[i].name = p.name
        <5>1. k + 1 \in DOMAIN s /\ s[k + 1] = p
          BY <3>3
        <5> QED BY <3>7, <4>1, <5>1
      <4>2. CASE s[i].name # p.name
        <5>1. i \in 1..k
          BY <3>3, <3>8, <4>2
        <5>2. s[i] = f[i] /\ i \in DOMAIN f
          BY <3>3, <5>1
        <5>3. f[i].name \in DOMAIN G[f]
          BY <3>5, <5>2
        <5>4. PICK j \in DOMAIN f : f[j].name = f[i].name /\ G[f][f[i].name] = f[j]
          BY <3>5, <5>2
        <5>5. s[j] = f[j] /\ j \in DOMAIN s
          BY <3>3, <5>4
        <5> QED BY <3>7, <4>2, <5>2, <5>3, <5>4, <5>5
      <4> QED BY <4>1, <4>2
    <3> QED BY <3>8
  <2>2. m \in 0..n
    BY <1>2
  <2> HIDE DEF Right
  <2> QED BY <2>1, <2>2
<1> HIDE DEF P
<1>14. n \in P
  <2>1. n \in 0..n
    BY <1>2
  <2> QED BY <1>2, <1>12, <1>13, <2>1, UpTo
<1>15. Right(all)
  BY <1>14 DEF P
<1> QED BY <1>10, <1>11, <1>15

\* What a directory gives is loaded.
LEMMA LoadKeeps ==
  ASSUME loaded \in PluginTables, NEW directory \in Directories, LoadFromPath(directory)
  PROVE  loaded' \in PluginTables /\ LoadRight'
<1> DEFINE bad == {m \in DOMAIN directory : Fails(directory[m])}
           n == Len(directory)
           upto == IF bad = {} THEN n ELSE Min(bad)
           parts == [m \in 1..upto |-> Extracted(directory[m])]
           all == FlattenSeq(parts)
<1>1. directory \in Seq(Module)
  BY DirectoryAssumption DEF Module, Class
<1>2. n \in Nat /\ DOMAIN directory = 1..n /\ \A m \in 1..n : directory[m] \in Module
  BY <1>1, LenProperties, ElementOfSeq
<1>3. upto \in 0..n
  <2>1. bad \in SUBSET (1..n)
    BY <1>2
  <2> HIDE DEF bad, n
  <2>2. bad # {} => Min(bad) \in 1..n
    BY <1>2, <2>1, MinRight
  <2> QED BY <1>2, <2>2
<1>4. /\ loaded' = FoldLeft(Named, loaded, all)
      /\ load_result' = [raised |-> bad # {}, plugins |-> IF bad = {} THEN all ELSE <<>>]
  BY DEF LoadFromPath
<1> HIDE DEF bad, upto, n
<1>5. all \in Seq(PluginSet)
  <2>1. ASSUME NEW m \in 1..upto PROVE Extracted(directory[m]) \in Seq(PluginSet)
    <3>1. m \in 1..n
      BY <1>2, <1>3
    <3> QED BY <1>2, <3>1, ExtractedRight
  <2>2. parts \in [1..upto -> Seq(PluginSet)]
    BY <2>1
  <2>3. upto \in Nat
    BY <1>2, <1>3
  <2> HIDE DEF parts
  <2>4. parts \in Seq(Seq(PluginSet))
    BY <2>2, <2>3 DEF Seq
  <2> QED BY <2>4, FlattenType
<1> HIDE DEF all
<1>6. PICK table \in PluginTables : table = loaded
  OBVIOUS
<1>7. PICK after : after = FoldLeft(Named, table, all)
  OBVIOUS
<1>8. /\ after \in PluginTables
      /\ \A i \in DOMAIN all : \E j \in DOMAIN all : all[j].name = all[i].name /\ after[all[i].name] = all[j]
  <2>1. /\ FoldLeft(Named, table, all) \in PluginTables
        /\ \A i \in DOMAIN all : \E j \in DOMAIN all :
              all[j].name = all[i].name /\ FoldLeft(Named, table, all)[all[i].name] = all[j]
    BY <1>5, LoadedRight, Zenon
  <2> QED BY <1>7, <2>1
<1>9. loaded' = after
  BY <1>4, <1>6, <1>7
<1>10. DOMAIN <<>> = {}
  OBVIOUS
<1>11. load_result'.raised => load_result'.plugins = <<>>
  BY <1>4
<1>12. load_result'.plugins = all \/ load_result'.plugins = <<>>
  BY <1>4
<1> QED BY <1>8, <1>9, <1>10, <1>11, <1>12 DEF LoadRight

\* One is removed from a list, and what differs from it stays.
LEMMA RemoveRight ==
  ASSUME NEW S, NEW s \in Seq(S), NEW e, \E i \in DOMAIN s : s[i] = e
  PROVE  /\ RemoveFirst(s, e) \in Seq(S)
         /\ Len(s) \in Nat \ {0} /\ Len(RemoveFirst(s, e)) = Len(s) - 1
         /\ ToSet(s) \ {e} \subseteq ToSet(RemoveFirst(s, e))
<1> DEFINE I == {i \in 1..Len(s) : s[i] = e}
           l == SubSeq(s, 1, Min(I) - 1)
           r == SubSeq(s, Min(I) + 1, Len(s))
<1>1. PICK n \in Nat : n = Len(s) /\ DOMAIN s = 1..n
  BY LenProperties
<1>2. I \in SUBSET (1..n) /\ I # {}
  BY <1>1
<1>3. RemoveFirst(s, e) = l \o r
  <2>1. \E i \in 1..Len(s) : s[i] = e
    BY <1>1
  <2>2. RemoveFirst(s, e) = RemoveAt(s, Min(I))
    BY <1>2, <2>1 DEF RemoveFirst, SelectInSeq
  <2> QED BY <2>2 DEF RemoveAt
<1> HIDE DEF I
<1>4. PICK m \in 1..n : m = Min(I) /\ m \in I
  BY <1>2, MinRight
<1>5. s[m] = e
  BY <1>4 DEF I
<1>6. /\ l \in Seq(S) /\ Len(l) = m - 1 /\ \A i \in 1..(m - 1) : l[i] = s[i]
  <2>1. l = SubSeq(s, 1, m - 1)
    BY <1>4
  <2> HIDE DEF l
  <2> QED BY <1>1, <2>1
<1>7. /\ r \in Seq(S) /\ Len(r) = n - m /\ \A i \in 1..(n - m) : r[i] = s[m + i]
  <2>1. r = SubSeq(s, m + 1, n)
    BY <1>1, <1>4
  <2> HIDE DEF r
  <2>2. r \in Seq(S) /\ Len(r) = n - m
    BY <1>1, <2>1
  <2>3. \A i \in 1..(n - m) : r[i] = s[m + i]
    BY <1>1, <2>1
  <2> QED BY <2>2, <2>3
<1> HIDE DEF l, r
<1>8. PICK rest \in Seq(S) : rest = l \o r
  BY <1>6, <1>7, ConcatProperties
<1>9. /\ Len(rest) = n - 1
      /\ \A i \in 1..(m - 1) : rest[i] = s[i]
      /\ \A i \in 1..(n - m) : rest[m - 1 + i] = s[m + i]
  <2>1. /\ Len(rest) = (m - 1) + (n - m)
        /\ \A i \in 1..((m - 1) + (n - m)) : rest[i] = IF i <= m - 1 THEN l[i] ELSE r[i - (m - 1)]
    <3>1. PICK a, b \in Nat : a = m - 1 /\ b = n - m
      OBVIOUS
    <3>2. PICK s1, s2 \in Seq(S) : s1 = l /\ s2 = r
      BY <1>6, <1>7
    <3>3. /\ Len(s1 \o s2) = Len(s1) + Len(s2)
          /\ \A i \in 1..(Len(s1) + Len(s2)) : (s1 \o s2)[i] = IF i <= Len(s1) THEN s1[i] ELSE s2[i - Len(s1)]
      BY ConcatProperties
    <3>4. rest = s1 \o s2 /\ Len(s1) = a /\ Len(s2) = b
      BY <1>6, <1>7, <1>8, <3>1, <3>2
    <3>5. /\ Len(rest) = a + b
          /\ \A i \in 1..(a + b) : rest[i] = IF i <= a THEN s1[i] ELSE s2[i - a]
      BY <3>3, <3>4
    <3> QED BY <3>1, <3>2, <3>5
  <2>2. Len(rest) = n - 1
    BY <2>1
  <2>3. \A i \in 1..(m - 1) : i \in 1..((m - 1) + (n - m)) /\ i <= m - 1
    OBVIOUS
  <2>4. \A i \in 1..(n - m) : /\ m - 1 + i \in 1..((m - 1) + (n - m)) /\ ~(m - 1 + i <= m - 1)
                              /\ m - 1 + i - (m - 1) = i
    OBVIOUS
  <2>5. \A i \in 1..(m - 1) : rest[i] = s[i]
    BY <1>6, <2>1, <2>3
  <2>6. \A i \in 1..(n - m) : rest[m - 1 + i] = r[i]
    BY <2>1, <2>4
  <2> QED BY <1>7, <2>2, <2>5, <2>6
<1>10. DOMAIN rest = 1..(n - 1)
  BY <1>9
<1>11. ASSUME NEW i \in 1..n, s[i] # e PROVE \E k \in 1..(n - 1) : rest[k] = s[i]
  <2>1. CASE i < m
    BY <1>9, <2>1
  <2>2. CASE i > m
    <3>1. i - m \in 1..(n - m) /\ m - 1 + (i - m) = i - 1 /\ m + (i - m) = i /\ i - 1 \in 1..(n - 1)
      BY <2>2
    <3> QED BY <1>9, <3>1
  <2> QED BY <1>5, <1>11, <2>1, <2>2
<1>12. ToSet(s) \ {e} \subseteq ToSet(rest)
  BY <1>1, <1>10, <1>11 DEF ToSet
<1>13. n # 0
  OBVIOUS
<1> QED BY <1>1, <1>3, <1>8, <1>9, <1>12, <1>13

\* Lengths of lists add up to the fold of the registry's property.
LEMMA LengthsAddUp ==
  ASSUME NEW S, IsFiniteSet(S), NEW table \in [S -> Seq(PluginSet)]
  PROVE  FoldSet(LAMBDA t, n : n + Len(table[t]), 0, S) = SumOf(S, [t \in S |-> Len(table[t])])
<1> DEFINE f == [t \in S |-> Len(table[t])]
           Equation(g) == g = [s \in SUBSET S |->
              IF s = {} THEN 0 ELSE g[s \ {CHOOSE x \in s : TRUE}] + Len(table[CHOOSE x \in s : TRUE])]
<1>1. \A x \in S : f[x] = Len(table[x]) /\ f[x] \in Nat
  BY LenProperties
<1> HIDE DEF f
<1>2. \A s \in SUBSET S : s # {} => f[CHOOSE x \in s : TRUE] = Len(table[CHOOSE x \in s : TRUE])
  BY <1>1
<1>3. \A g : Equation(g) <=> AddsSet(g, S, f)
  <2> TAKE g
  <2> DEFINE lengths(s) == IF s = {} THEN 0 ELSE g[s \ {CHOOSE x \in s : TRUE}] + Len(table[CHOOSE x \in s : TRUE])
             numbers(s) == IF s = {} THEN 0 ELSE g[s \ {CHOOSE x \in s : TRUE}] + f[CHOOSE x \in s : TRUE]
  <2>1. \A s \in SUBSET S : lengths(s) = numbers(s)
    BY <1>2
  <2>2. (Equation(g) <=> g = [s \in SUBSET S |-> lengths(s)]) /\ (AddsSet(g, S, f) <=> g = [s \in SUBSET S |-> numbers(s)])
    BY DEF AddsSet
  <2> HIDE DEF lengths, numbers, Equation
  <2>3. [s \in SUBSET S |-> lengths(s)] = [s \in SUBSET S |-> numbers(s)]
    BY <2>1
  <2> QED BY <2>2, <2>3
<1>4. PICK g : g = (CHOOSE h : Equation(h))
  OBVIOUS
<1>5. FoldSet(LAMBDA t, n : n + Len(table[t]), 0, S) = g[S]
  BY <1>4 DEF FoldSet, MapThenFoldSet
<1> HIDE DEF Equation
<1>6. \E h : Equation(h)
  BY <1>1, <1>3, SetSums
<1>7. AddsSet(g, S, f)
  BY <1>3, <1>4, <1>6
<1>8. g[S] = SumOf(S, f)
  BY <1>1, <1>7, SetSums
<1> QED BY <1>5, <1>8 DEF f

PluginTypes == {p.type : p \in PluginSet}
Lists == UNION {[T -> Seq(PluginSet)] : T \in SUBSET PluginTypes}
Lengths(table) == [t \in DOMAIN table |-> Len(table[t])]

\* The tables of the loader and of the registry, which knows plugins by their own names.
PluginShape ==
  /\ loaded \in PluginTables /\ replacements \in Nat
  /\ by_name \in PluginTables /\ IsFiniteSet(DOMAIN by_name)
  /\ \A n \in DOMAIN by_name : by_name[n].name = n
  /\ by_type \in Lists /\ IsFiniteSet(DOMAIN by_type)

\* Every plugin with a name is in the list of its type, and the lengths of the lists
\* are the names in use and the replacements.
ListsInv ==
  /\ \A p \in Names(by_name) : p \in ToSet(OfKind(p.type))
  /\ SumOf(DOMAIN by_type, Lengths(by_type)) = Cardinality(DOMAIN by_name) + replacements

\* What is live and not displaced is registered, and initialized by name.
LiveInv == \A p \in live \ displaced : p \in Names(by_name) /\ p.name \in initialized

PluginsInv == PluginShape /\ ListsInv /\ LiveInv /\ LoadRight

\* What the shape says of the registry.
LEMMA RegistryShape ==
  ASSUME PluginShape
  PROVE  /\ DOMAIN by_name \subseteq PluginNames /\ \A n \in DOMAIN by_name : by_name[n] \in PluginSet
         /\ DOMAIN by_type \subseteq PluginTypes /\ by_type \in [DOMAIN by_type -> Seq(PluginSet)]
         /\ \A t : OfKind(t) \in Seq(PluginSet)
         /\ \A t \in DOMAIN by_type : Lengths(by_type)[t] \in Nat /\ Lengths(by_type)[t] = Len(OfKind(t))
         /\ Cardinality(DOMAIN by_name) \in Nat
<1>1. PICK D \in SUBSET PluginNames : by_name \in [D -> PluginSet]
  BY DEF PluginShape, PluginTables
<1>2. PICK T \in SUBSET PluginTypes : by_type \in [T -> Seq(PluginSet)]
  BY DEF PluginShape, Lists
<1>3. \A t : OfKind(t) \in Seq(PluginSet)
  <2>1. <<>> \in Seq(PluginSet)
    OBVIOUS
  <2> QED BY <1>2, <2>1 DEF OfKind
<1>4. \A t \in DOMAIN by_type : Lengths(by_type)[t] \in Nat /\ Lengths(by_type)[t] = Len(OfKind(t))
  <2>1. \A t \in DOMAIN by_type : Lengths(by_type)[t] = Len(OfKind(t))
    BY DEF Lengths, OfKind
  <2>2. \A t \in DOMAIN by_type : Len(OfKind(t)) \in Nat
    BY <1>3, LenProperties
  <2> QED BY <2>1, <2>2
<1>5. Cardinality(DOMAIN by_name) \in Nat
  BY FS_CardinalityType DEF PluginShape
<1>6. DOMAIN by_name = D /\ DOMAIN by_type = T
  BY <1>1, <1>2
<1>7. DOMAIN by_name \subseteq PluginNames /\ \A n \in DOMAIN by_name : by_name[n] \in PluginSet
  BY <1>1, <1>6
<1>8. DOMAIN by_type \subseteq PluginTypes /\ by_type \in [DOMAIN by_type -> Seq(PluginSet)]
  BY <1>2, <1>6
<1> QED BY <1>3, <1>4, <1>5, <1>7, <1>8

\* A list of the table is changed: the others stay, and the sum by as much.
LEMMA TypedRight ==
  ASSUME PluginShape, NEW t \in PluginTypes, NEW list \in Seq(PluginSet), by_type' = Typed(t, list)
  PROVE  /\ by_type' \in Lists /\ IsFiniteSet(DOMAIN by_type')
         /\ OfKind(t)' = list /\ \A u : u # t => OfKind(u)' = OfKind(u)
         /\ SumOf(DOMAIN by_type', Lengths(by_type'))
                = SumOf(DOMAIN by_type, Lengths(by_type)) + Len(list) - Len(OfKind(t))
         /\ SumOf(DOMAIN by_type, Lengths(by_type)) \in Nat
<1> DEFINE S == DOMAIN by_type
           f == Lengths(by_type)
           g == Lengths(by_type')
<1>1. /\ S \subseteq PluginTypes /\ by_type \in [S -> Seq(PluginSet)] /\ IsFiniteSet(S)
      /\ \A u \in S : f[u] \in Nat /\ f[u] = Len(OfKind(u))
  BY RegistryShape DEF PluginShape
<1>2. /\ DOMAIN by_type' = S \union {t} /\ by_type'[t] = list /\ \A u \in S \ {t} : by_type'[u] = by_type[u]
  BY DEF Typed
<1>3. by_type' \in [S \union {t} -> Seq(PluginSet)]
  BY <1>1 DEF Typed
<1>4. S \union {t} \in SUBSET PluginTypes /\ IsFiniteSet(S \union {t})
  BY <1>1, FS_AddElement
<1>5. by_type' \in Lists
  BY <1>3, <1>4 DEF Lists
<1>6. OfKind(t)' = list
  BY <1>2 DEF OfKind
<1>7. ASSUME NEW u, u # t PROVE OfKind(u)' = OfKind(u)
  BY <1>2, <1>7 DEF OfKind
<1>8. g[t] = Len(list) /\ \A u \in S \ {t} : g[u] = f[u]
  <2>1. \A u \in S \union {t} : g[u] = Len(by_type'[u])
    BY <1>2 DEF Lengths
  <2>2. \A u \in S : f[u] = Len(by_type[u])
    BY DEF Lengths
  <2> HIDE DEF g, f
  <2> QED BY <1>2, <2>1, <2>2
<1>9. Len(list) \in Nat
  BY LenProperties
<1>10. Len(OfKind(t)) = IF t \in S THEN f[t] ELSE 0
  <2>1. t \notin S => OfKind(t) = <<>>
    BY DEF OfKind
  <2>2. Len(<<>>) = 0
    OBVIOUS
  <2> QED BY <1>1, <2>1, <2>2
<1> HIDE DEF S, f, g
<1>11. SumOf(S \union {t}, g) = SumOf(S, f) + Len(list) - (IF t \in S THEN f[t] ELSE 0)
  <2>1. PICK n \in Nat : n = Len(list)
    BY <1>9
  <2>2. IsFiniteSet(S) /\ (\A y \in S : f[y] \in Nat) /\ g[t] = n /\ \A y \in S \ {t} : g[y] = f[y]
    BY <1>1, <1>8, <2>1
  <2>3. g[t] \in Nat
    BY <2>2
  <2>4. SumOf(S \union {t}, g) = SumOf(S, f) + g[t] - (IF t \in S THEN f[t] ELSE 0)
    BY <2>2, <2>3, SumChanges
  <2> QED BY <2>1, <2>2, <2>4
<1>12. SumOf(S, f) \in Nat
  BY <1>1, UnitsFinite
<1>13. /\ SumOf(DOMAIN by_type', Lengths(by_type')) = SumOf(S, f) + Len(list) - Len(OfKind(t))
  BY <1>2, <1>10, <1>11 DEF g
<1> QED BY <1>2, <1>4, <1>5, <1>6, <1>7, <1>12, <1>13 DEF S, f

\* A plugin is registered.
LEMMA RegisterRight ==
  ASSUME PluginsInv, NEW p \in PluginSet, Register(p)
  PROVE  PluginsInv'
<1> DEFINE N == DOMAIN by_name
           kind == OfKind(p.type)
<1>1. PluginShape /\ ListsInv /\ LiveInv /\ LoadRight
  BY DEF PluginsInv
<1>2. /\ by_name' = Named(by_name, p) /\ by_type' = Typed(p.type, Append(kind, p))
      /\ displaced' = displaced \union ((Old(p.name) \ {p}) \intersect live)
      /\ replacements' = replacements + Cardinality(Old(p.name))
      /\ loaded' = loaded /\ load_result' = load_result /\ initialized' = initialized /\ live' = live
  BY DEF Register
<1>3. /\ by_name' \in PluginTables /\ DOMAIN by_name' = N \cup {p.name} /\ by_name'[p.name] = p
      /\ \A n \in N : n # p.name => by_name'[n] = by_name[n]
  <2>1. PICK tab \in PluginTables : tab = by_name
    BY <1>1 DEF PluginShape
  <2>2. /\ Named(tab, p) \in PluginTables
        /\ DOMAIN Named(tab, p) = DOMAIN tab \cup {p.name} /\ Named(tab, p)[p.name] = p
        /\ \A n \in DOMAIN tab : n # p.name => Named(tab, p)[n] = tab[n]
    BY NamedRight, Zenon
  <2>3. by_name' = Named(tab, p)
    BY <1>2, <2>1
  <2> QED BY <2>1, <2>2, <2>3
<1>4. /\ IsFiniteSet(N) /\ Cardinality(N) \in Nat /\ replacements \in Nat
      /\ \A n \in N : by_name[n].name = n /\ by_name[n] \in PluginSet
  BY <1>1, RegistryShape DEF PluginShape
<1>5. kind \in Seq(PluginSet) /\ p.type \in PluginTypes
  BY <1>1, RegistryShape DEF PluginTypes
<1>6. PICK list \in Seq(PluginSet) : list = Append(kind, p)
  <2>1. PICK k \in Seq(PluginSet) : k = kind
    BY <1>5
  <2> QED BY <2>1, AppendProperties
<1>7. Len(list) = Len(kind) + 1 /\ Len(kind) \in Nat /\ ToSet(list) = ToSet(kind) \cup {p}
  <2>1. PICK k \in Nat : k = Len(kind) /\ DOMAIN kind = 1..k
    BY <1>5, LenProperties
  <2>2. Len(list) = k + 1 /\ DOMAIN list = 1..(k + 1) /\ list[k + 1] = p /\ \A i \in 1..k : list[i] = kind[i]
    BY <1>5, <1>6, <2>1
  <2>3. \A x : (\E i \in 1..(k + 1) : x = list[i]) <=> (\E i \in 1..k : x = kind[i]) \/ x = p
    BY <2>1, <2>2
  <2> HIDE DEF kind
  <2>4. ToSet(list) = {list[i] : i \in 1..(k + 1)} /\ ToSet(kind) = {kind[i] : i \in 1..k}
    BY <2>1, <2>2 DEF ToSet
  <2> QED BY <2>1, <2>2, <2>3, <2>4
<1>8. /\ by_type' \in Lists /\ IsFiniteSet(DOMAIN by_type')
      /\ OfKind(p.type)' = list /\ \A u : u # p.type => OfKind(u)' = OfKind(u)
      /\ SumOf(DOMAIN by_type', Lengths(by_type'))
             = SumOf(DOMAIN by_type, Lengths(by_type)) + Len(list) - Len(kind)
      /\ SumOf(DOMAIN by_type, Lengths(by_type)) \in Nat
  BY <1>1, <1>2, <1>5, <1>6, TypedRight
<1> HIDE DEF N
<1>9. /\ IsFiniteSet(DOMAIN by_name') /\ Cardinality(Old(p.name)) \in Nat
      /\ Cardinality(DOMAIN by_name') + Cardinality(Old(p.name)) = Cardinality(N) + 1
  <2>1. IsFiniteSet(N \cup {p.name}) /\ Cardinality(N \cup {p.name}) = IF p.name \in N THEN Cardinality(N) ELSE Cardinality(N) + 1
    BY <1>4, FS_AddElement
  <2>2. Cardinality(Old(p.name)) = IF p.name \in N THEN 1 ELSE 0
    <3>1. Cardinality({by_name[p.name]}) = 1 /\ Cardinality({}) = 0
      BY FS_Singleton, FS_EmptySet
    <3> QED BY <3>1 DEF Old, N
  <2> QED BY <1>3, <1>4, <2>1, <2>2
<1>10. PluginShape'
  <2>1. \A n \in DOMAIN by_name' : by_name'[n].name = n
    BY <1>3, <1>4
  <2>2. loaded' \in PluginTables
    BY <1>1, <1>2 DEF PluginShape
  <2>3. replacements' \in Nat
    BY <1>2, <1>4, <1>9
  <2> QED BY <1>3, <1>8, <1>9, <2>1, <2>2, <2>3 DEF PluginShape
<1>11. ListsInv'
  <2>1. ASSUME NEW q \in Names(by_name)' PROVE q \in ToSet(OfKind(q.type)')
    <3>1. PICK n \in DOMAIN by_name' : q = by_name'[n]
      BY <2>1 DEF Names
    <3>2. CASE q = p
      BY <1>7, <1>8, <3>2
    <3>3. CASE q # p
      <4>1. n \in N /\ q = by_name[n]
        BY <1>3, <3>1, <3>3
      <4>2. q \in ToSet(OfKind(q.type))
        BY <1>1, <4>1 DEF ListsInv, Names, N
      <4> QED BY <1>7, <1>8, <4>2
    <3> QED BY <3>2, <3>3
  <2>2. SumOf(DOMAIN by_type', Lengths(by_type')) = Cardinality(DOMAIN by_name') + replacements'
    <3>1. SumOf(DOMAIN by_type, Lengths(by_type)) = Cardinality(N) + replacements
      BY <1>1 DEF ListsInv, N
    <3>2. SumOf(DOMAIN by_type', Lengths(by_type')) = SumOf(DOMAIN by_type, Lengths(by_type)) + 1
      BY <1>7, <1>8
    <3>3. PICK c \in Nat, o \in Nat, m \in Nat : /\ c = Cardinality(DOMAIN by_name')
                                              /\ o = Cardinality(Old(p.name)) /\ m = Cardinality(N)
      BY <1>4, <1>9, FS_CardinalityType
    <3>4. c + o = m + 1 /\ replacements' = replacements + o /\ replacements \in Nat
      BY <1>2, <1>4, <1>9, <3>3
    <3>5. m + replacements + 1 = c + replacements'
      BY <3>4
    <3> QED BY <3>1, <3>2, <3>3, <3>5
  <2> QED BY <2>1, <2>2 DEF ListsInv
<1>12. LiveInv'
  <2>1. ASSUME NEW q \in live' \ displaced' PROVE q \in Names(by_name)' /\ q.name \in initialized'
    <3>1. q \in live \ displaced /\ (q \in Old(p.name) => q = p)
      BY <1>2, <2>1
    <3>2. q \in Names(by_name) /\ q.name \in initialized
      BY <1>1, <3>1 DEF LiveInv
    <3>3. PICK n \in N : q = by_name[n]
      BY <3>2 DEF Names, N
    <3>4. n = p.name => q = p
      BY <3>1, <3>3 DEF Old, N
    <3>5. n \in DOMAIN by_name' /\ by_name'[n] = q
      BY <1>3, <3>3, <3>4
    <3> QED BY <1>2, <3>2, <3>5 DEF Names
  <2> QED BY <2>1 DEF LiveInv
<1>13. LoadRight'
  BY <1>1, <1>2 DEF LoadRight
<1> QED BY <1>10, <1>11, <1>12, <1>13 DEF PluginsInv

\* The plugin of a name is unregistered, if there is one.
LEMMA UnregisterRight ==
  ASSUME PluginsInv, NEW name, Unregister(name)
  PROVE  PluginsInv'
<1> DEFINE N == DOMAIN by_name
           p == by_name[name]
           kind == OfKind(p.type)
<1>1. PluginShape /\ ListsInv /\ LiveInv /\ LoadRight
  BY DEF PluginsInv
<1>2. /\ by_name' = [n \in N \ {name} |-> by_name[n]]
      /\ by_type' = IF name \in N THEN Typed(p.type, RemoveFirst(kind, p)) ELSE by_type
      /\ displaced' = displaced \union (Old(name) \intersect live)
      /\ replacements' = replacements
      /\ loaded' = loaded /\ load_result' = load_result /\ initialized' = initialized /\ live' = live
  BY DEF Unregister, Old
<1>3. DOMAIN by_name' = N \ {name} /\ \A n \in N \ {name} : by_name'[n] = by_name[n]
  BY <1>2
<1>4. /\ IsFiniteSet(N) /\ Cardinality(N) \in Nat /\ replacements \in Nat /\ N \subseteq PluginNames
      /\ \A n \in N : by_name[n].name = n /\ by_name[n] \in PluginSet
  BY <1>1, RegistryShape DEF PluginShape
<1>5. by_name' \in PluginTables
  <2>1. by_name' \in [N \ {name} -> PluginSet]
    BY <1>2, <1>4
  <2>2. N \ {name} \in SUBSET PluginNames
    BY <1>4
  <2> QED BY <2>1, <2>2 DEF PluginTables
<1> HIDE DEF N, kind
<1>6. /\ IsFiniteSet(DOMAIN by_name')
      /\ Cardinality(DOMAIN by_name') = IF name \in N THEN Cardinality(N) - 1 ELSE Cardinality(N)
  BY <1>3, <1>4, FS_RemoveElement
<1>7. name \in N => /\ p \in PluginSet /\ p.type \in PluginTypes /\ p.name = name
                    /\ kind \in Seq(PluginSet) /\ p \in ToSet(kind)
  <2> SUFFICES ASSUME name \in N
               PROVE  /\ p \in PluginSet /\ p.type \in PluginTypes /\ p.name = name
                      /\ kind \in Seq(PluginSet) /\ p \in ToSet(kind)
    OBVIOUS
  <2>1. p \in PluginSet /\ p.name = name
    BY <1>4
  <2>2. p \in ToSet(kind)
    BY <1>1 DEF ListsInv, Names, N, kind
  <2>3. kind \in Seq(PluginSet)
    BY <1>1, RegistryShape DEF kind
  <2> QED BY <2>1, <2>2, <2>3 DEF PluginTypes
<1>8. ASSUME name \in N
      PROVE  /\ RemoveFirst(kind, p) \in Seq(PluginSet)
             /\ Len(kind) \in Nat \ {0} /\ Len(RemoveFirst(kind, p)) = Len(kind) - 1
             /\ ToSet(kind) \ {p} \subseteq ToSet(RemoveFirst(kind, p))
  <2>1. \E i \in DOMAIN kind : kind[i] = p
    BY <1>7, <1>8 DEF ToSet
  <2>2. PICK list \in Seq(PluginSet) : list = kind
    BY <1>7, <1>8
  <2>3. \E i \in DOMAIN list : list[i] = p
    BY <2>1, <2>2
  <2>4. /\ RemoveFirst(list, p) \in Seq(PluginSet)
        /\ Len(list) \in Nat \ {0} /\ Len(RemoveFirst(list, p)) = Len(list) - 1
        /\ ToSet(list) \ {p} \subseteq ToSet(RemoveFirst(list, p))
    BY <2>3, RemoveRight
  <2> QED BY <2>2, <2>4
<1>9. /\ by_type' \in Lists /\ IsFiniteSet(DOMAIN by_type')
      /\ \A q \in PluginSet : (name \in N => q # p) /\ q \in ToSet(OfKind(q.type)) => q \in ToSet(OfKind(q.type)')
      /\ SumOf(DOMAIN by_type', Lengths(by_type'))
             = SumOf(DOMAIN by_type, Lengths(by_type)) - (IF name \in N THEN 1 ELSE 0)
      /\ SumOf(DOMAIN by_type, Lengths(by_type)) \in Int
  <2>0. SumOf(DOMAIN by_type, Lengths(by_type)) = Cardinality(N) + replacements
    BY <1>1 DEF ListsInv, N
  <2>1. CASE name \notin N
    <3>1. by_type' = by_type
      BY <1>2, <2>1
    <3>2. by_type' \in Lists /\ IsFiniteSet(DOMAIN by_type')
      BY <1>1, <3>1 DEF PluginShape
    <3>3. \A u : OfKind(u)' = OfKind(u)
      BY <3>1 DEF OfKind
    <3> QED BY <1>4, <2>0, <2>1, <3>1, <3>2, <3>3
  <2>2. CASE name \in N
    <3>1. PICK list \in Seq(PluginSet) : list = RemoveFirst(kind, p)
      BY <1>8, <2>2
    <3>2. by_type' = Typed(p.type, list) /\ p.type \in PluginTypes /\ ToSet(kind) \ {p} \subseteq ToSet(list)
      BY <1>2, <1>7, <1>8, <2>2, <3>1
    <3>3. Len(kind) \in Nat \ {0} /\ Len(list) = Len(kind) - 1
      BY <1>8, <2>2, <3>1
    <3>4. PICK t \in PluginTypes : t = p.type
      BY <3>2
    <3>5. /\ by_type' \in Lists /\ IsFiniteSet(DOMAIN by_type')
          /\ OfKind(t)' = list /\ \A u : u # t => OfKind(u)' = OfKind(u)
          /\ SumOf(DOMAIN by_type', Lengths(by_type'))
                 = SumOf(DOMAIN by_type, Lengths(by_type)) + Len(list) - Len(OfKind(t))
          /\ SumOf(DOMAIN by_type, Lengths(by_type)) \in Nat
      <4>1. by_type' = Typed(t, list)
        BY <3>2, <3>4
      <4> QED BY <1>1, <4>1, TypedRight
    <3>6. kind = OfKind(t)
      BY <3>4 DEF kind
    <3>7. ASSUME NEW q \in PluginSet, q # p, q \in ToSet(OfKind(q.type))
          PROVE  q \in ToSet(OfKind(q.type)')
      <4>1. CASE q.type = t
        BY <3>2, <3>5, <3>6, <3>7, <4>1
      <4>2. CASE q.type # t
        BY <3>5, <3>7, <4>2
      <4> QED BY <4>1, <4>2
    <3>8. SumOf(DOMAIN by_type', Lengths(by_type')) = SumOf(DOMAIN by_type, Lengths(by_type)) - 1
      BY <3>3, <3>5, <3>6
    <3> QED BY <2>2, <3>5, <3>7, <3>8
  <2> QED BY <2>1, <2>2
<1>10. PluginShape'
  <2>1. \A n \in DOMAIN by_name' : by_name'[n].name = n
    BY <1>3, <1>4
  <2>2. loaded' \in PluginTables /\ replacements' \in Nat
    BY <1>1, <1>2 DEF PluginShape
  <2> QED BY <1>5, <1>6, <1>9, <2>1, <2>2 DEF PluginShape
<1>11. ListsInv'
  <2>1. ASSUME NEW q \in Names(by_name)' PROVE q \in ToSet(OfKind(q.type)')
    <3>1. PICK n \in DOMAIN by_name' : q = by_name'[n]
      BY <2>1 DEF Names
    <3>2. n \in N /\ n # name /\ q = by_name[n] /\ q.name = n /\ q \in PluginSet
      BY <1>3, <1>4, <3>1
    <3>3. q \in ToSet(OfKind(q.type))
      BY <1>1, <3>2 DEF ListsInv, Names, N
    <3> QED BY <1>7, <1>9, <3>2, <3>3
  <2>2. SumOf(DOMAIN by_type', Lengths(by_type')) = Cardinality(DOMAIN by_name') + replacements'
    <3>1. SumOf(DOMAIN by_type, Lengths(by_type)) = Cardinality(N) + replacements
      BY <1>1 DEF ListsInv, N
    <3>2. PICK c, m \in Nat : m = Cardinality(N) /\ c = Cardinality(DOMAIN by_name')
      BY <1>4, <1>6, FS_CardinalityType
    <3>3. c = (IF name \in N THEN m - 1 ELSE m) /\ replacements' = replacements /\ replacements \in Nat
      BY <1>2, <1>4, <1>6, <3>2
    <3>4. CASE name \in N
      <4>1. SumOf(DOMAIN by_type', Lengths(by_type')) = (m + replacements) - 1
        BY <1>9, <3>1, <3>2, <3>4
      <4>2. (m + replacements) - 1 = c + replacements'
        BY <3>3, <3>4
      <4> QED BY <3>2, <4>1, <4>2
    <3>5. CASE name \notin N
      <4>1. SumOf(DOMAIN by_type', Lengths(by_type')) = m + replacements
        BY <1>4, <1>9, <3>1, <3>2, <3>5
      <4>2. m + replacements = c + replacements'
        BY <3>3, <3>5
      <4> QED BY <3>2, <4>1, <4>2
    <3> QED BY <3>4, <3>5
  <2> QED BY <2>1, <2>2 DEF ListsInv
<1>12. LiveInv'
  <2>1. ASSUME NEW q \in live' \ displaced' PROVE q \in Names(by_name)' /\ q.name \in initialized'
    <3>1. q \in live \ displaced /\ q \notin Old(name)
      BY <1>2, <2>1
    <3>2. q \in Names(by_name) /\ q.name \in initialized
      BY <1>1, <3>1 DEF LiveInv
    <3>3. PICK n \in N : q = by_name[n]
      BY <3>2 DEF Names, N
    <3>4. n # name
      BY <3>1, <3>3 DEF Old, N
    <3>5. n \in DOMAIN by_name' /\ by_name'[n] = q
      BY <1>3, <3>3, <3>4
    <3> QED BY <1>2, <3>2, <3>5 DEF Names
  <2> QED BY <2>1 DEF LiveInv
<1>13. LoadRight'
  BY <1>1, <1>2 DEF LoadRight
<1> QED BY <1>10, <1>11, <1>12, <1>13 DEF PluginsInv

\* The lifecycle does not touch the registry, and takes what it finds there.
LEMMA LifecycleRight ==
  ASSUME PluginsInv, InitializeAll \/ ShutdownAll
  PROVE  PluginsInv'
<1>1. PluginShape /\ ListsInv /\ LiveInv /\ LoadRight
  BY DEF PluginsInv
<1>2. UNCHANGED <<loaded, load_result, by_name, by_type, replacements>>
  BY DEF InitializeAll, ShutdownAll, registryVars
<1>3. PluginShape' /\ LoadRight'
  BY <1>1, <1>2 DEF PluginShape, LoadRight
<1>4. ListsInv'
  <2>1. Names(by_name)' = Names(by_name) /\ \A u : OfKind(u)' = OfKind(u)
    BY <1>2 DEF Names, OfKind
  <2> QED BY <1>1, <1>2, <2>1 DEF ListsInv
<1>5. LiveInv'
  <2>1. ASSUME NEW q \in live' \ displaced' PROVE q \in Names(by_name)' /\ q.name \in initialized'
    <3>1. CASE InitializeAll
      <4> DEFINE ready == {r \in Names(by_name) : ~r.raises}
      <4>1. /\ initialized' = initialized \union {r.name : r \in ready} /\ live' = live \union ready
            /\ displaced' = displaced /\ Names(by_name)' = Names(by_name)
        BY <1>2, <3>1 DEF InitializeAll, Names
      <4>2. CASE q \in ready
        BY <4>1, <4>2
      <4>3. CASE q \notin ready
        <5>1. q \in live \ displaced
          BY <2>1, <4>1, <4>3
        <5> QED BY <1>1, <4>1, <5>1 DEF LiveInv
      <4> QED BY <4>2, <4>3
    <3>2. CASE ShutdownAll
      <4> DEFINE down == {by_name[n] : n \in initialized \intersect DOMAIN by_name}
      <4>1. live' = live \ down /\ displaced' = displaced \ down
        BY <3>2 DEF ShutdownAll
      <4>2. q \in live \ displaced /\ q \notin down
        BY <2>1, <4>1
      <4>3. q \in Names(by_name) /\ q.name \in initialized
        BY <1>1, <4>2 DEF LiveInv
      <4>4. PICK n \in DOMAIN by_name : q = by_name[n]
        BY <4>3 DEF Names
      <4>5. n = q.name
        BY <1>1, <4>4 DEF PluginShape
      <4> QED BY <4>2, <4>3, <4>4, <4>5
    <3> QED BY <3>1, <3>2
  <2> QED BY <2>1 DEF LiveInv
<1> QED BY <1>3, <1>4, <1>5 DEF PluginsInv

\* Nothing is loaded or registered at first.
LEMMA PluginsInitInv == PluginsInit => PluginsInv
<1> SUFFICES ASSUME PluginsInit PROVE PluginsInv
  OBVIOUS
<1>1. /\ loaded = <<>> /\ load_result = Nothing /\ by_name = <<>> /\ by_type = <<>>
      /\ live = {} /\ replacements = 0
  BY DEF PluginsInit, PluginsEmpty
<1>2. DOMAIN <<>> = {} /\ <<>> \in [{} -> PluginSet] /\ <<>> \in [{} -> Seq(PluginSet)]
  OBVIOUS
<1>3. <<>> \in PluginTables /\ <<>> \in Lists
  <2>1. {} \in SUBSET PluginNames /\ {} \in SUBSET PluginTypes
    OBVIOUS
  <2>2. <<>> \in PluginTables
    BY <1>2, <2>1 DEF PluginTables
  <2>3. <<>> \in Lists
    BY <1>2, <2>1 DEF Lists
  <2> QED BY <2>2, <2>3
<1>4. IsFiniteSet({}) /\ Cardinality({}) = 0
  BY FS_EmptySet
<1>5. PluginShape
  BY <1>1, <1>2, <1>3, <1>4 DEF PluginShape
<1>6. ListsInv
  <2>1. Names(by_name) = {}
    BY <1>1, <1>2 DEF Names
  <2>2. Units({}, Lengths(by_type)) = {}
    BY DEF Units
  <2>3. SumOf(DOMAIN by_type, Lengths(by_type)) = 0
    BY <1>1, <1>2, <1>4, <2>2 DEF SumOf
  <2> QED BY <1>1, <1>2, <1>4, <2>1, <2>3 DEF ListsInv
<1>7. LiveInv /\ LoadRight
  BY <1>1, <1>2 DEF LiveInv, LoadRight, Nothing
<1> QED BY <1>5, <1>6, <1>7 DEF PluginsInv

\* Every call keeps it.
LEMMA PluginsNextInv == PluginsInv /\ [PluginsNext]_pluginVars => PluginsInv'
<1> SUFFICES ASSUME PluginsInv, [PluginsNext]_pluginVars PROVE PluginsInv'
  OBVIOUS
<1>1. PluginShape /\ ListsInv /\ LiveInv /\ LoadRight
  BY DEF PluginsInv
<1>2. ASSUME UNCHANGED registryVars, UNCHANGED <<initialized, live, displaced>>
      PROVE  ListsInv' /\ LiveInv'
  <2>1. UNCHANGED <<by_name, by_type, replacements, initialized, live, displaced>>
    BY <1>2 DEF registryVars
  <2>2. Names(by_name)' = Names(by_name) /\ \A u : OfKind(u)' = OfKind(u)
    BY <2>1 DEF Names, OfKind
  <2>3. ListsInv'
    BY <1>1, <2>1, <2>2 DEF ListsInv
  <2>4. LiveInv'
    BY <1>1, <2>1, <2>2 DEF LiveInv
  <2> QED BY <2>3, <2>4
<1>3. ASSUME NEW d \in Directories, LoadFromPath(d) PROVE PluginsInv'
  <2>1. UNCHANGED registryVars /\ UNCHANGED <<initialized, live, displaced>>
    BY <1>3 DEF LoadFromPath
  <2>2. loaded' \in PluginTables /\ LoadRight'
    BY <1>1, <1>3, LoadKeeps DEF PluginShape
  <2>3. PluginShape'
    BY <1>1, <2>1, <2>2 DEF PluginShape, registryVars
  <2> QED BY <1>2, <2>1, <2>2, <2>3 DEF PluginsInv
<1>4. CASE UNCHANGED pluginVars
  <2>1. UNCHANGED registryVars /\ UNCHANGED <<initialized, live, displaced>> /\ UNCHANGED <<loaded, load_result>>
    BY <1>4 DEF pluginVars, registryVars
  <2>2. PluginShape' /\ LoadRight'
    BY <1>1, <2>1 DEF PluginShape, LoadRight, registryVars
  <2> QED BY <1>2, <2>1, <2>2 DEF PluginsInv
<1>5. ASSUME NEW p \in PluginSet, Register(p) \/ Unregister(p.name) PROVE PluginsInv'
  BY <1>5, RegisterRight, UnregisterRight
<1>6. CASE InitializeAll \/ ShutdownAll
  BY <1>6, LifecycleRight
<1> QED BY <1>3, <1>4, <1>5, <1>6 DEF PluginsNext

\* However plugins are loaded, registered, replaced, unregistered, initialized and shut
\* down, those with a name are found by their types, and only displaced ones stay live.
THEOREM PluginsKept == PluginsSpec => []PluginsRight
<1>1. PluginsSpec => []PluginsInv
  BY PluginsInitInv, PluginsNextInv, PTL DEF PluginsSpec
<1>2. PluginsInv => PluginsRight
  <2> SUFFICES ASSUME PluginsInv PROVE PluginsRight
    OBVIOUS
  <2>1. PluginShape /\ ListsInv /\ LiveInv /\ LoadRight
    BY DEF PluginsInv
  <2>2. IsFiniteSet(DOMAIN by_type) /\ by_type \in [DOMAIN by_type -> Seq(PluginSet)]
    BY <2>1, RegistryShape DEF PluginShape
  <2>3. FoldSet(LAMBDA t, n : n + Len(by_type[t]), 0, DOMAIN by_type) = SumOf(DOMAIN by_type, Lengths(by_type))
    BY <2>2, LengthsAddUp DEF Lengths
  <2>4. FoundByType
    BY <2>1, <2>3 DEF FoundByType, ListsInv
  <2>5. ShutDownRight
    BY <2>1 DEF ShutDownRight, LiveInv
  <2> QED BY <2>1, <2>4, <2>5 DEF PluginsRight
<1> QED BY <1>1, <1>2, PTL
=============================================================================
