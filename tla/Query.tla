-------------------------------- MODULE Query --------------------------------
(***************************************************************************)
(* The query language (core/query), the search of the index and the        *)
(* planner (core/optimizer/planner.py), as `forensic query` and `forensic  *)
(* search` use them: each command first indexes the image once more, in a  *)
(* database named after it that stays in the temporary directory.          *)
(*                                                                         *)
(* A query is its sequence of tokens.  Values are model strings with a     *)
(* rank; NULL is one of them.  A row is a record of its columns.           *)
(***************************************************************************)
EXTENDS Integers, Sequences, FiniteSets

CONSTANTS
    ImageEvents,    \* the events of the image, MFT then USN, as rows
    Scripts,        \* sequences of commands
    Rank,           \* the order of the values: a function to Nat
    Likes,          \* <<operator, text, part>>: what LIKE finds for it
    Literals        \* the values of the tokens that are not words of the language

ASSUME QueryAssumption == \A v \in DOMAIN Rank : Rank[v] \in Nat

VARIABLES
    script,         \* the commands to come
    event_rows,     \* the events table; a row's id is its place
    asked,          \* the last command
    reply           \* what it showed

queryVars == <<script, event_rows, asked, reply>>

Null == "NULL"
NoCommand == [op |-> "none"]
QueryEmpty == event_rows = <<>> /\ asked = NoCommand /\ reply = [kind |-> "none"]
QueryInit == script \in Scripts /\ QueryEmpty
QueryOff == script = <<>> /\ QueryEmpty

-----------------------------------------------------------------------------
(* QueryParser.  A result has the tree and the place after it, or place 0.     *)

Words == {"AND", "OR", "NOT"}
Operators == {"==", "!=", ">", ">=", "<", "<=", "contains", "!contains", "starts", "ends", "in", "!in", "~"}
Word == [or |-> "OR", and |-> "AND"]
Below == [or |-> "and", and |-> "not"]
Error == [tree |-> NoCommand, next |-> 0]
Failed(r) == r.next = 0
Token(ts, p) == IF p \in DOMAIN ts THEN ts[p] ELSE "end"

ParseLiteral(token) == IF token \in DOMAIN Literals THEN Literals[token] ELSE token

\* Any token may be the field or the value, a bracket and a word included.
ParseComparison(ts, p) ==
    IF p + 2 \in DOMAIN ts /\ ts[p + 1] \in Operators
    THEN [tree |-> [op |-> "is", field |-> ts[p], operator |-> ts[p + 1], value |-> ParseLiteral(ts[p + 2])],
          next |-> p + 3]
    ELSE Error

ChainLevel(level, ts, left, right) ==
    [tree |-> [op |-> level, left |-> left.tree, right |-> right.tree], next |-> right.next]

RECURSIVE Parse(_, _, _), ParseMore(_, _, _)
ParsePrimary(ts, p) ==
    IF Token(ts, p) = "("
    THEN LET inner == Parse("or", ts, p + 1)
         IN  IF Failed(inner) \/ Token(ts, inner.next) # ")" THEN Error
             ELSE [inner EXCEPT !.next = @ + 1]
    ELSE IF Token(ts, p) \in Words THEN Error
    ELSE ParseComparison(ts, p)
ParseNotWide(ts, p) ==
    IF Token(ts, p) # "NOT" THEN ParsePrimary(ts, p)
    ELSE LET inner == Parse("and", ts, p + 1)
         IN  IF Failed(inner) THEN Error
             ELSE [tree |-> [op |-> "not", node |-> inner.tree], next |-> inner.next]
ParseNot(ts, p) ==
    IF Token(ts, p) # "NOT" THEN ParsePrimary(ts, p)
    ELSE LET inner == ParsePrimary(ts, p + 1)
         IN  IF Failed(inner) THEN Error
             ELSE [tree |-> [op |-> "not", node |-> inner.tree], next |-> inner.next]
ParseMore(level, ts, left) ==
    IF Failed(left) \/ Token(ts, left.next) # Word[level] THEN left
    ELSE LET right == Parse(Below[level], ts, left.next + 1)
         IN  IF Failed(right) THEN Error
             ELSE ParseMore(level, ts, ChainLevel(level, ts, left, right))
Parse(level, ts, p) ==
    IF level = "not" THEN ParseNot(ts, p)
    ELSE ParseMore(level, ts, Parse(Below[level], ts, p))

\* parse: an empty query and tokens that are left are a ValueError.
ParseQuery(ts) ==
    LET all == Parse("or", ts, 1)
    IN  IF Failed(all) \/ all.next <= Len(ts) THEN Error ELSE all

\* __repr__ of the tree, as tokens.
RECURSIVE Printed(_)
Printed(tree) ==
    CASE tree.op = "is" -> <<tree.field, tree.operator, tree.value>>
      [] tree.op = "not" -> <<"NOT", "(">> \o Printed(tree.node) \o <<")">>
      [] OTHER -> <<"(">> \o Printed(tree.left) \o <<Word[tree.op]>> \o Printed(tree.right) \o <<")">>

-----------------------------------------------------------------------------
(* FilterBuilder, and SQLite's evaluation of the clauses it joins with AND.    *)

FieldNames ==
    [event |-> "event_type", type |-> "event_type", name |-> "filename", time |-> "timestamp",
     mft |-> "mft_reference", mft_ref |-> "mft_reference", parent_mft |-> "parent_mft_reference",
     hash |-> "sha256"]
EventColumns == {"event_type", "source", "timestamp", "filename", "mft_reference", "parent_mft_reference"}
ColumnOf(field) == IF field \in DOMAIN FieldNames THEN FieldNames[field] ELSE field

HandleComparison(node) ==
    [kind |-> "is", column |-> ColumnOf(node.field), value |-> node.value,
     operator |-> IF node.operator \in {"in", "!in"} THEN "==" ELSE node.operator]

\* AND and OR visit the left side only; NOT makes three clauses of one.
Mark(text) == [kind |-> text]
RECURSIVE Visit(_)
Visit(node) ==
    CASE node.op = "is" -> <<HandleComparison(node)>>
      [] node.op = "not" -> <<Mark("NOT (")>> \o Visit(node.node) \o <<Mark(")")>>
      [] OTHER -> <<[kind |-> "group", clauses |-> Visit(node.left)]>>

RECURSIVE Valid(_)
Valid(clauses) ==
    \A i \in DOMAIN clauses :
        \/ clauses[i].kind = "group" /\ Valid(clauses[i].clauses)
        \/ clauses[i].kind = "is" /\ clauses[i].column \in EventColumns

\* NULL makes a comparison unknown, except in the text of a pattern.
Compare(operator, x, v) ==
    CASE operator = "==" -> x = v
      [] operator = "!=" -> x # v
      [] operator = ">" -> Rank[x] > Rank[v]
      [] operator = ">=" -> Rank[x] >= Rank[v]
      [] operator = "<" -> Rank[x] < Rank[v]
      [] operator = "<=" -> Rank[x] <= Rank[v]
      [] operator = "!contains" -> <<"contains", x, v>> \notin Likes
      [] OTHER -> <<operator, x, v>> \in Likes
Unknown(operator, x, v) ==
    x = Null \/ (v = Null /\ operator \notin {"contains", "!contains", "starts", "ends"})
True(operator, x, v) == ~Unknown(operator, x, v) /\ Compare(operator, x, v)

RECURSIVE Selects(_, _)
Selects(clauses, row) ==
    \A i \in DOMAIN clauses :
        IF clauses[i].kind = "group" THEN Selects(clauses[i].clauses, row)
        ELSE True(clauses[i].operator, row[clauses[i].column], clauses[i].value)

-----------------------------------------------------------------------------
(* Commands.                                                                   *)

\* ORDER BY column DESC LIMIT k: ties are in any order.
Cut(rows, matching, column, k) ==
    {s \in SUBSET matching :
        /\ Cardinality(s) = IF k < Cardinality(matching) THEN k ELSE Cardinality(matching)
        /\ \A i \in s, j \in matching \ s : Rank[rows[i][column]] >= Rank[rows[j][column]]}

\* _index_disk_image: what was indexed before stays.
IndexImage == event_rows \o ImageEvents

Shows(command, kind, ids) == asked' = command /\ reply' = [kind |-> kind, ids |-> ids]

\* `forensic query`: only a ValueError is caught, an SQL error ends the command.
RunQuery(command) ==
    /\ command.op = "query"
    /\ event_rows' = IndexImage
    /\ \E parsed \in {ParseQuery(command.tokens)} :
         IF Failed(parsed) THEN Shows(command, "ValueError", {})
         ELSE \E clauses \in {Visit(parsed.tree)} :
              IF ~Valid(clauses) THEN Shows(command, "OperationalError", {})
              ELSE \E shown \in Cut(event_rows', {i \in DOMAIN event_rows' : Selects(clauses, event_rows'[i])},
                                    "timestamp", command.limit) :
                       Shows(command, "rows", shown)

\* `forensic query --explain`.
Explain(command) ==
    /\ command.op = "explain"
    /\ event_rows' = IndexImage
    /\ \E parsed \in {ParseQuery(command.tokens)} :
         /\ asked' = command
         /\ reply' = [kind |-> "plan", valid |-> ~Failed(parsed),
                      ast |-> IF Failed(parsed) THEN <<>> ELSE Printed(parsed.tree),
                      clauses |-> IF Failed(parsed) THEN <<>> ELSE Visit(parsed.tree)]

\* StorageBackend.search_events.  A filter that is "" is not set; mft has a
\* clause whenever it is not None, and the command gives 0 for none.
SearchEvents(rows, c) ==
    {i \in DOMAIN rows :
        /\ c.event # "" => rows[i].event_type = c.event
        /\ c.source # "" => rows[i].source = c.source
        /\ c.name # "" => <<"contains", rows[i].filename, c.name>> \in Likes
        /\ c.since # "" => True(">=", rows[i].timestamp, c.since)
        /\ c.until # "" => True("<=", rows[i].timestamp, c.until)
        /\ c.mft # "None" => c.mft \in {rows[i].mft_reference, rows[i].parent_mft_reference}
        /\ c.deleted => rows[i].event_type = "FILE_DELETED"}
SortColumn(c) == IF c.sort \in EventColumns \ {"parent_mft_reference"} THEN c.sort ELSE "timestamp"
ByEvents(c) == c.event # "" \/ c.source # "" \/ c.since # "" \/ c.until # "" \/ c.mft # "0" \/ c.deleted

\* `forensic search`: by hash and by name it asks the tables hashes and files,
\* that no command of the program fills.
Search(command) ==
    /\ command.op = "search"
    /\ event_rows' = IF command.own_db THEN event_rows ELSE IndexImage
    /\ IF ByEvents(command)
       THEN \E shown \in Cut(event_rows', SearchEvents(event_rows', command), SortColumn(command), command.limit) :
                Shows(command, "rows", shown)
       ELSE IF command.hash # "" \/ command.name # ""
       THEN Shows(command, "rows", {})
       ELSE \E shown \in Cut(event_rows', DOMAIN event_rows', "timestamp", command.limit) :
                Shows(command, "rows", shown)

\* QueryPlanner.plan: a query is the words it mentions; costs are tenths.
Indexable == {"event_type", "source", "timestamp", "filename", "mft_reference", "case_id"}
Cost(words, indexes) ==
    LET fields == words \cap Indexable
        of(w, n) == IF words \cap w # {} THEN n ELSE 0
    IN  5 + 10 * Cardinality(fields \cap indexes) + 100 * Cardinality(fields \ indexes)
          + of({"order by", "sort"}, 50) + of({"limit"}, 1) + of({"count", "sum"}, 20)
EstimatedRows(words) ==
    IF "event_type" \in words THEN 1000 ELSE IF "timestamp" \in words THEN 5000 ELSE 10000
Plan(command) ==
    /\ command.op = "plan"
    /\ asked' = command
    /\ reply' = [kind |-> "cost", cost |-> Cost(command.words, command.indexes),
                 rows |-> EstimatedRows(command.words), columns |-> command.words \cap Indexable \cap command.indexes]
    /\ UNCHANGED event_rows

QueryNext ==
    /\ script # <<>>
    /\ script' = Tail(script)
    /\ \E command \in {Head(script)} :
         RunQuery(command) \/ Explain(command) \/ Search(command) \/ Plan(command)

QuerySpec == QueryInit /\ [][QueryNext]_queryVars

-----------------------------------------------------------------------------
(* Properties.                                                                 *)

QueryTypeOK ==
    /\ Len(script) \in 0..5
    /\ \A i \in DOMAIN event_rows : DOMAIN event_rows[i] = EventColumns
    /\ reply.kind \in {"none", "rows", "ValueError", "OperationalError", "plan", "cost"}

\* What a query says of a row: 0 false, 1 unknown, 2 true.
RECURSIVE Meaning(_, _)
Meaning(node, row) ==
    CASE node.op = "is" ->
            LET x == row[ColumnOf(node.field)]
                positive == [node EXCEPT !.operator = IF @ = "!in" THEN "!=" ELSE IF @ = "in" THEN "==" ELSE @].operator
            IN  IF Unknown(positive, x, node.value) THEN 1
                ELSE IF Compare(positive, x, node.value) THEN 2 ELSE 0
      [] node.op = "not" -> 2 - Meaning(node.node, row)
      [] node.op = "and" -> LET l == Meaning(node.left, row) r == Meaning(node.right, row)
                            IN  IF l < r THEN l ELSE r
      [] OTHER -> LET l == Meaning(node.left, row) r == Meaning(node.right, row)
                  IN  IF l > r THEN l ELSE r

RECURSIVE Kinds(_), Fields(_), OperatorsOf(_)
Kinds(node) == {node.op} \cup
    (IF node.op = "is" THEN {} ELSE IF node.op = "not" THEN Kinds(node.node)
     ELSE Kinds(node.left) \cup Kinds(node.right))
Fields(node) ==
    IF node.op = "is" THEN {ColumnOf(node.field)} ELSE IF node.op = "not" THEN Fields(node.node)
    ELSE Fields(node.left) \cup Fields(node.right)
OperatorsOf(node) ==
    IF node.op = "is" THEN {node.operator} ELSE IF node.op = "not" THEN OperatorsOf(node.node)
    ELSE OperatorsOf(node.left) \cup OperatorsOf(node.right)

\* The rows a query means, of those in the table.
MeantBy(node) == {i \in DOMAIN event_rows : Meaning(node, event_rows[i]) = 2}
Understood(node) == Fields(node) \subseteq EventColumns /\ "!in" \notin OperatorsOf(node)

\* What does not parse is a ValueError and what has no NOT is answered; one
\* comparison is answered exactly, comparisons joined by AND never miss a row that
\* is meant, those joined by OR never show one that is not, and no answer is longer
\* than the limit.
QueryAnswers ==
    asked.op = "query" =>
        \E parsed \in {ParseQuery(asked.tokens)} :
            IF Failed(parsed) THEN reply.kind = "ValueError"
            ELSE /\ (Understood(parsed.tree) /\ "not" \notin Kinds(parsed.tree)) => reply.kind = "rows"
                 /\ (reply.kind = "rows" /\ Understood(parsed.tree)) =>
                       /\ Cardinality(reply.ids) <= asked.limit
                       /\ Kinds(parsed.tree) \subseteq {"is", "or"} => reply.ids \subseteq MeantBy(parsed.tree)
                       /\ (Kinds(parsed.tree) \subseteq {"is", "and"} /\ Cardinality(reply.ids) < asked.limit) =>
                              MeantBy(parsed.tree) \subseteq reply.ids

\* explain is valid for what parses, and its tree reads back as the same tree.
ExplainReadsBack ==
    asked.op = "explain" =>
        \E parsed \in {ParseQuery(asked.tokens)} :
            /\ reply.valid <=> ~Failed(parsed)
            /\ reply.valid => ParseQuery(reply.ast).tree = parsed.tree

\* OR joins what AND joins: without brackets, a query is the better of the two
\* sides of each OR, and without OR the worse of the two sides of each AND.
ReadByPrecedence ==
    LET ts == asked.tokens
        words == {ts[i] : i \in DOMAIN ts}
        side(from, to) == ParseQuery(SubSeq(ts, from, to))
    IN  (asked.op = "explain" /\ reply.valid /\ "(" \notin words) =>
            \A p \in DOMAIN ts, row \in {ImageEvents[i] : i \in DOMAIN ImageEvents} :
                \E a \in {side(1, p - 1)}, b \in {side(p + 1, Len(ts))}, all \in {ParseQuery(ts)} :
                    LET l == Meaning(a.tree, row) r == Meaning(b.tree, row)
                    IN  (ts[p] = (IF "OR" \in words THEN "OR" ELSE "AND") /\ ~Failed(a) /\ ~Failed(b)) =>
                            /\ ts[p] = "OR" => Meaning(all.tree, row) = IF l > r THEN l ELSE r
                            /\ ts[p] = "AND" => Meaning(all.tree, row) = IF l < r THEN l ELSE r

Wanted(c, row) ==
    /\ c.event # "" => row.event_type = c.event
    /\ c.source # "" => row.source = c.source
    /\ c.name # "" => <<"contains", row.filename, c.name>> \in Likes
    /\ c.since # "" => row.timestamp # Null /\ Rank[row.timestamp] >= Rank[c.since]
    /\ c.until # "" => row.timestamp # Null /\ Rank[row.timestamp] <= Rank[c.until]
    /\ c.deleted => row.event_type = "FILE_DELETED"
    /\ c.mft # "0" => c.mft \in {row.mft_reference, row.parent_mft_reference}

\* A search shows only rows that satisfy its filters by event, source, name, time,
\* record and deletion.  By record, and without a filter, it shows as many of them
\* as the limit lets through.
FoundBy(c) == {i \in DOMAIN event_rows : Wanted(c, event_rows[i])}
Unfiltered(c) == ~ByEvents(c) /\ c.name = "" /\ c.hash = ""
SearchFinds ==
    asked.op = "search" =>
        /\ reply.ids \subseteq FoundBy(asked) /\ Cardinality(reply.ids) <= asked.limit
        /\ ((asked.mft # "0" \/ Unfiltered(asked)) /\ Cardinality(reply.ids) < asked.limit) =>
               reply.ids = FoundBy(asked)

\* The table has the events of the image, in their order, once for each command
\* that indexed it, and nothing else: no command drops or mixes what an earlier
\* one has put there.
OnlyImageEvents ==
    /\ \A i \in DOMAIN event_rows : event_rows[i] = ImageEvents[((i - 1) % Len(ImageEvents)) + 1]
    /\ Len(event_rows) % Len(ImageEvents) = 0

\* A plan never costs more with one more index.
MoreIndexesCostLess ==
    asked.op = "plan" =>
        \A field \in Indexable : Cost(asked.words, asked.indexes \cup {field}) <= reply.cost

\* Queries, explanations, searches and plans, as far as they keep what they promise.
\* It does not say that a query has the rows it means (AnsweredAsMeant does, and is
\* violated), nor that a search by event or name finds all there is.
QueryRight ==
    /\ QueryAnswers /\ ExplainReadsBack /\ ReadByPrecedence
    /\ SearchFinds /\ OnlyImageEvents /\ MoreIndexesCostLess

-----------------------------------------------------------------------------
(* What is said of a query and does not hold.                                  *)

\* The language has AND, OR and NOT, and its trees are translated to SQL
\* (CHANGELOG.md:76): a query whose fields are columns is answered, and with the
\* rows it means when the limit does not cut them.
AnsweredAsMeant ==
    asked.op = "query" =>
        \E parsed \in {ParseQuery(asked.tokens)} :
            (~Failed(parsed) /\ Understood(parsed.tree)) =>
                /\ reply.kind = "rows"
                /\ Cardinality(reply.ids) < asked.limit => reply.ids = MeantBy(parsed.tree)
=============================================================================
