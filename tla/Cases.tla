------------------------------- MODULE Cases -------------------------------
(***************************************************************************)
(* CaseManager and Case (core/cases/cases.py): cases with bookmarks, saved *)
(* queries, tags and notes in one database.  A Case object lives on when   *)
(* its case is closed or deleted, and writes through the same storage.     *)
(* Every operation is one transaction.                                     *)
(***************************************************************************)
EXTENDS Integers, Sequences, FiniteSets, FiniteSetsExt

CONSTANTS
    MaxCases,       \* bound on the cases created
    MaxOps,         \* bound on the operations
    Artifacts, Sources

ASSUME CaseAssumption == MaxCases \in Nat /\ MaxOps \in Nat

VARIABLES
    oplog,          \* every operation so far; a row's id is the place of its insert
    case_metadata,  \* case -> status
    objects,        \* case -> the status its last Case object was made with
    case_items,     \* case_bookmarks and case_queries: kind, case and id
    case_tags,      \* artifact, case and source
    case_notes      \* case and number

caseVars == <<oplog, case_metadata, objects, case_items, case_tags, case_notes>>

CasesEmpty ==
    /\ case_metadata = <<>> /\ objects = <<>>
    /\ case_items = {} /\ case_tags = {} /\ case_notes = {}
CasesInit == oplog = <<>> /\ CasesEmpty
CasesOff == oplog = [i \in 1..MaxOps |-> [op |-> "off", case |-> 0]] /\ CasesEmpty

Did(op) == Len(oplog) < MaxOps /\ oplog' = Append(oplog, op)
Placed(table, key, value) == [k \in DOMAIN table \union {key} |-> IF k = key THEN value ELSE table[k]]
Numbered(op) == {i \in DOMAIN oplog : oplog[i].op = op}
NewCase == Cardinality(Numbered("create")) + 1

CreateCase ==
    /\ NewCase <= MaxCases
    /\ Did([op |-> "create", case |-> NewCase])
    /\ case_metadata' = Placed(case_metadata, NewCase, "open")
    /\ objects' = Placed(objects, NewCase, "open")
    /\ UNCHANGED <<case_items, case_tags, case_notes>>

\* get_case gives a new object, or none; list_cases reads the same rows.
GetCase(c) ==
    /\ c \in DOMAIN case_metadata /\ objects[c] # case_metadata[c]
    /\ objects' = Placed(objects, c, case_metadata[c])
    /\ UNCHANGED <<oplog, case_metadata, case_items, case_tags, case_notes>>

\* close_case and reopen_case of a case that is not there change nothing, and say
\* nothing of it.
SetStatus(c, op, status) ==
    /\ Did([op |-> op, case |-> c])
    /\ case_metadata' = [k \in DOMAIN case_metadata |-> IF k = c THEN status ELSE case_metadata[k]]
    /\ UNCHANGED <<objects, case_items, case_tags, case_notes>>
CloseCase(c) == SetStatus(c, "close", "closed")
ReopenCase(c) == SetStatus(c, "reopen", "open")

\* Mutant: the tags of the case are left.
DeleteCaseKeepsTags(c) ==
    /\ Did([op |-> "delete", case |-> c])
    /\ case_metadata' = [k \in DOMAIN case_metadata \ {c} |-> case_metadata[k]]
    /\ case_items' = {b \in case_items : b.case # c}
    /\ case_notes' = {n \in case_notes : n.case # c}
    /\ UNCHANGED <<objects, case_tags>>

DeleteCase(c) ==
    /\ Did([op |-> "delete", case |-> c])
    /\ case_metadata' = [k \in DOMAIN case_metadata \ {c} |-> case_metadata[k]]
    /\ case_items' = {b \in case_items : b.case # c}
    /\ case_tags' = {t \in case_tags : t.case # c}
    /\ case_notes' = {n \in case_notes : n.case # c}
    /\ UNCHANGED objects

\* add_bookmark and save_query.
AddItem(c, kind) ==
    /\ Did([op |-> "add", case |-> c, kind |-> kind])
    /\ case_items' = case_items \union {[kind |-> kind, case |-> c, id |-> Len(oplog) + 1]}
    /\ UNCHANGED <<case_metadata, objects, case_tags, case_notes>>

\* remove_bookmark and delete_query ask for the id alone, of whatever case.
RemoveItem(c, b) ==
    /\ Did([op |-> "remove", case |-> c, id |-> b.id])
    /\ case_items' = {i \in case_items : i.id # b.id}
    /\ UNCHANGED <<case_metadata, objects, case_tags, case_notes>>

\* INSERT OR IGNORE: a tag that is there keeps its source.
TagArtifact(c, a, s) ==
    /\ Did([op |-> "tag", case |-> c, artifact |-> a, source |-> s])
    /\ case_tags' = IF \E t \in case_tags : t.case = c /\ t.artifact = a THEN case_tags
                    ELSE case_tags \union {[artifact |-> a, case |-> c, source |-> s]}
    /\ UNCHANGED <<case_metadata, objects, case_items, case_notes>>

\* remove_tag removes the tag in every case.
RemoveTag(c, a) ==
    /\ Did([op |-> "untag", case |-> c, artifact |-> a])
    /\ case_tags' = {t \in case_tags : t.artifact # a}
    /\ UNCHANGED <<case_metadata, objects, case_items, case_notes>>

\* AUTOINCREMENT: a number is never used again.
AddNote(c) ==
    /\ Did([op |-> "note", case |-> c])
    /\ case_notes' = case_notes \union {[case |-> c, number |-> Cardinality(Numbered("note")) + 1]}
    /\ UNCHANGED <<case_metadata, objects, case_items, case_tags>>

CasesNext ==
    \/ CreateCase
    \/ \E c \in DOMAIN objects :
        \/ GetCase(c) \/ CloseCase(c) \/ ReopenCase(c) \/ DeleteCase(c) \/ AddNote(c)
        \/ \E kind \in {"bookmark", "query"} : AddItem(c, kind)
        \/ \E b \in case_items : RemoveItem(c, b)
        \/ \E a \in Artifacts : RemoveTag(c, a) \/ \E s \in Sources : TagArtifact(c, a, s)

CasesSpec == CasesInit /\ [][CasesNext]_caseVars

-----------------------------------------------------------------------------
(* Properties: the database is determined by the operations so far *)

\* Types; every row is of a case that was created.
CasesTypeOK ==
    /\ DOMAIN case_metadata \subseteq DOMAIN objects /\ DOMAIN objects = 1..(NewCase - 1)
    /\ \A b \in case_items : b.case \in DOMAIN objects
    /\ \A t \in case_tags : t.case \in DOMAIN objects

Latest(places) == Max({0} \union places)
Deletions(c) == {i \in Numbered("delete") : oplog[i].case = c}
Of(op, c) == {i \in Numbered(op) : oplog[i].case = c}

\* A case is there until it is deleted, closed if it was closed last.
StatusRight ==
    \A c \in DOMAIN objects :
        /\ c \in DOMAIN case_metadata <=> Deletions(c) = {}
        /\ c \in DOMAIN case_metadata =>
            (case_metadata[c] = "closed" <=> Latest(Of("close", c)) > Latest(Of("reopen", c)))

\* What the add_bookmark, save_query or add_note at place i left, if it is still there.
Item(i) == [kind |-> oplog[i].kind, case |-> oplog[i].case, id |-> i]
Note(i) == [case |-> oplog[i].case, number |-> Cardinality({j \in Numbered("note") : j <= i})]
Stays(i) == Latest(Deletions(oplog[i].case)) < i

\* Of a case that was deleted nothing stays but what an object of it has written
\* since; a bookmark or query is there until it is removed, through any case; and
\* no two notes bear one number.
RowsRight ==
    /\ case_items = {Item(i) : i \in {k \in Numbered("add") :
                        Stays(k) /\ \A j \in Numbered("remove") : oplog[j].id # k}}
    /\ case_notes = {Note(i) : i \in {k \in Numbered("note") : Stays(k)}}
    /\ \A m, n \in case_notes : m.number = n.number => m = n

\* An artifact is tagged in a case from its first tag since the case was deleted
\* or the tag was removed, in this case or another, and with the source of that.
TagsRight ==
    \A c \in DOMAIN objects : \A a \in Artifacts :
        LET gone   == Latest(Deletions(c) \union {i \in Numbered("untag") : oplog[i].artifact = a})
            placed == {i \in Of("tag", c) : i > gone /\ oplog[i].artifact = a}
        IN  {t.source : t \in {u \in case_tags : u.case = c /\ u.artifact = a}} =
                (IF placed = {} THEN {} ELSE {oplog[Min(placed)].source})

\* The database holds what the operations on its cases have left in it.
CasesRight == StatusRight /\ RowsRight /\ TagsRight
=============================================================================
