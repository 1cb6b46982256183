------------------------------- MODULE Index -------------------------------
(***************************************************************************)
(* The forensic index: core/indexing/storage.py, transactions.py and the   *)
(* indexing calls of engine.py, over SQLite.  A connection is the one of a *)
(* StorageBackend, in a process of its own (its connection belongs to one  *)
(* thread); all of them have the same database file open.                  *)
(*                                                                         *)
(* Each call is a list of statements.  The first that writes begins a      *)
(* transaction, which only a commit or the loss of the connection ends;    *)
(* its changes are in "view" until then.  SQLite has one writer at a time. *)
(***************************************************************************)
EXTENDS Integers, Sequences, FiniteSets, SequencesExt

CONSTANTS
    Conns, NoConn,
    Requests,   \* what may be asked of the index, see IndexAssumption
    Shas,
    MaxCalls,   \* bound of the model on the calls, over all connections
    MaxUsers    \* bound of the model on how often a backend is opened

ASSUME IndexAssumption ==
    /\ NoConn \notin Conns
    /\ MaxCalls \in Nat /\ MaxUsers \in Nat \ {0}
    /\ \A q \in Requests :
        /\ q.kind \in {"events", "timeline", "artifact", "hash"}
        /\ q.kind \in {"events", "timeline"} =>
            /\ q.rows \in Nat /\ q.batch \in Nat \ {0}
            /\ q.bad \in 0..q.rows      \* the row SQLite refuses; 0 is none
        /\ q.kind = "hash" => q.sha \in Shas

VARIABLES
    disk,       \* what is committed: rows, and the duplicate_count of each sha
    view,       \* the same as the writer sees it
    writer,     \* the connection whose transaction has written
    users,      \* connection -> _open_count
    call,       \* connection -> the call it is in, or was in last
    todo,       \* connection -> the statements left of that call
    failed,     \* connection -> whether a call failed since it was connected
    calls,      \* call -> its request and connection; calls are numbered
    returned,   \* the calls that returned
    carried     \* whether a call was made on a connection after a failure

storeVars == <<disk, view, writer>>
clientVars == <<users, call, todo, failed, calls, returned, carried>>
indexVars == <<storeVars, clientVars>>

Row(table, id, n) == [table |-> table, call |-> id, n |-> n]
NoRows == [rows |-> {}, hashes |-> [h \in Shas |-> 0]]

-----------------------------------------------------------------------------
(* The statements of a call *)

Commit == [op |-> "commit"]
Insert(rows, ok) == [op |-> "insert", rows |-> rows, ok |-> ok]

\* A bulk insert that commits every row.
BulkInsertByBatch(table, id, n, batch, bad) ==
    FlattenSeq([i \in 1..n |-> <<Insert({Row(table, id, i)}, i # bad), Commit>>])

\* bulk_insert_events and its likes: a statement for each full batch and the
\* rest, and one commit.  executemany stops at the row that is refused.
BulkInsert(table, id, n, batch, bad) ==
    LET batches == (n + batch - 1) \div batch
        least(a, b) == IF a <= b THEN a ELSE b
        part(i) == ((i - 1) * batch) + 1 .. least(i * batch, n)
        put(i) == {Row(table, id, k) : k \in {j \in part(i) : bad = 0 \/ j < bad}}
    IN  Append([i \in 1..batches |-> Insert(put(i), bad \notin part(i))], Commit)

One(table, id) == <<Insert({Row(table, id, 1)}, TRUE), Commit>>

\* index_events; index_timeline, which adds the timeline's own row afterwards;
\* index_file_artifact, the artifact and then the file; index_hash.
Statements(id, q) ==
    CASE q.kind = "events" -> BulkInsert("events", id, q.rows, q.batch, q.bad)
      [] q.kind = "timeline" ->
            BulkInsert("events", id, q.rows, q.batch, q.bad) \o One("timelines", id)
      [] q.kind = "artifact" -> One("artifacts", id) \o One("files", id)
      [] q.kind = "hash" -> <<[op |-> "lookup", sha |-> q.sha]>>

-----------------------------------------------------------------------------
IndexInit ==
    /\ disk = NoRows /\ view = NoRows /\ writer = NoConn
    /\ users = [c \in Conns |-> 0]
    /\ call = [c \in Conns |-> 0]
    /\ todo = [c \in Conns |-> <<>>]
    /\ failed = [c \in Conns |-> FALSE]
    /\ calls = <<>> /\ returned = {} /\ carried = FALSE

Open(c) ==
    /\ users[c] < MaxUsers
    /\ todo[c] = <<>>
    /\ users' = [users EXCEPT ![c] = @ + 1]
    /\ UNCHANGED <<storeVars, call, todo, failed, calls, returned, carried>>

\* The lock of a connection that is lost stays behind.
KeepLock(c) == UNCHANGED storeVars

\* What the connection has not committed is gone with it.
RollBack(c) ==
    IF writer = c THEN writer' = NoConn /\ view' = NoRows /\ UNCHANGED disk
    ELSE UNCHANGED storeVars

\* close() by one of the users; the last one closes the connection.
Close(c) ==
    /\ users[c] > 0 /\ todo[c] = <<>>
    /\ users' = [users EXCEPT ![c] = @ - 1]
    /\ IF users[c] = 1
       THEN RollBack(c) /\ failed' = [failed EXCEPT ![c] = FALSE]
       ELSE UNCHANGED <<storeVars, failed>>
    /\ UNCHANGED <<call, todo, calls, returned, carried>>

\* The process ends, whatever it was doing.
Die(c) ==
    /\ users[c] > 0
    /\ users' = [users EXCEPT ![c] = 0]
    /\ todo' = [todo EXCEPT ![c] = <<>>]
    /\ failed' = [failed EXCEPT ![c] = FALSE]
    /\ RollBack(c)
    /\ UNCHANGED <<call, calls, returned, carried>>

Ask(c, q) ==
    /\ users[c] > 0 /\ todo[c] = <<>>
    /\ Len(calls) < MaxCalls
    /\ LET id == Len(calls) + 1
       IN  /\ calls' = Append(calls, [by |-> c, request |-> q])
           /\ call' = [call EXCEPT ![c] = id]
           /\ todo' = [todo EXCEPT ![c] = Statements(id, q)]
    /\ carried' = (carried \/ failed[c])
    /\ UNCHANGED <<storeVars, users, failed, returned>>

Next1(c, op) == todo[c] # <<>> /\ Head(todo[c]).op = op
Seen(c) == IF writer = c THEN view ELSE disk

\* The next statement was the last, or not.
Advance(c, more) ==
    LET left == more \o Tail(todo[c])
    IN  /\ todo' = [todo EXCEPT ![c] = left]
        /\ returned' = IF left = <<>> THEN returned \cup {call[c]} ELSE returned

Fail(c) ==
    /\ todo' = [todo EXCEPT ![c] = <<>>]
    /\ failed' = [failed EXCEPT ![c] = TRUE]
    /\ UNCHANGED returned

\* Of a batch that fails the rows in front stay, and the transaction with them.
InsertRows(c) ==
    /\ Next1(c, "insert") /\ writer \in {NoConn, c}
    /\ LET rows == Head(todo[c]).rows
       IN  IF rows = {} THEN UNCHANGED <<writer, view>>
           ELSE writer' = c /\ view' = [Seen(c) EXCEPT !.rows = @ \cup rows]
    /\ IF Head(todo[c]).ok THEN Advance(c, <<>>) /\ UNCHANGED failed ELSE Fail(c)
    /\ UNCHANGED <<disk, users, call, calls, carried>>

\* index_hash looks for the hash, and then inserts or counts it.
Lookup(c) ==
    /\ Next1(c, "lookup")
    /\ LET h == Head(todo[c]).sha
           step == IF Seen(c).hashes[h] > 0 THEN "count" ELSE "ignore"
       IN  Advance(c, <<[op |-> step, sha |-> h], Commit>>)
    /\ UNCHANGED <<storeVars, users, call, failed, calls, carried>>

\* INSERT OR IGNORE: nothing where another process has put the hash since.
InsertHash(c) ==
    /\ Next1(c, "ignore") /\ writer \in {NoConn, c}
    /\ writer' = c
    /\ view' = [Seen(c) EXCEPT !.hashes[Head(todo[c]).sha] = IF @ = 0 THEN 1 ELSE @]
    /\ Advance(c, <<>>)
    /\ UNCHANGED <<disk, users, call, failed, calls, carried>>

\* update_hash_duplicates
CountHash(c) ==
    /\ Next1(c, "count") /\ writer \in {NoConn, c}
    /\ writer' = c
    /\ view' = [Seen(c) EXCEPT !.hashes[Head(todo[c]).sha] = @ + 1]
    /\ Advance(c, <<>>)
    /\ UNCHANGED <<disk, users, call, failed, calls, carried>>

\* Without a transaction there is nothing to commit.
CommitAll(c) ==
    /\ Next1(c, "commit")
    /\ IF writer = c THEN disk' = view /\ view' = NoRows /\ writer' = NoConn
       ELSE UNCHANGED storeVars
    /\ Advance(c, <<>>)
    /\ UNCHANGED <<users, call, failed, calls, carried>>

\* "database is locked": another connection has been writing for five seconds.
\* The process ends, as the commands do.
Locked(c) ==
    /\ todo[c] # <<>> /\ Head(todo[c]).op \in {"insert", "ignore", "count"}
    /\ writer \notin {NoConn, c}
    /\ Die(c)

IndexStep(c) ==
    InsertRows(c) \/ Lookup(c) \/ InsertHash(c) \/ CountHash(c) \/ CommitAll(c)

IndexNext ==
    \E c \in Conns :
        \/ Open(c) \/ Close(c) \/ Die(c) \/ Locked(c) \/ IndexStep(c)
        \/ \E q \in Requests : Ask(c, q)

IndexSpec == IndexInit /\ [][IndexNext]_indexVars

-----------------------------------------------------------------------------
(* Properties *)

IndexTypeOK ==
    /\ writer \in Conns \cup {NoConn}
    /\ users \in [Conns -> 0..MaxUsers]
    /\ writer # NoConn => users[writer] > 0
    /\ \A c \in Conns : todo[c] # <<>> => users[c] > 0
    /\ returned \subseteq DOMAIN calls
    /\ disk.hashes \in [Shas -> Nat]

Request(id) == calls[id].request
RowsOf(id) ==
    UNION {s.rows : s \in {t \in Range(Statements(id, Request(id))) : t.op = "insert"}}
Events(id) == {r \in RowsOf(id) : r.table = "events"}

\* A call that returned has all its rows in the file, whatever other processes,
\* failures and crashes did before and after.
ReturnedIsStored == \A id \in returned : RowsOf(id) \subseteq disk.rows

\* As long as nobody goes on with a connection on which a call failed, the
\* events of a call are in the file all of them or not at all: batches are no
\* commits, and a failure or a crash takes the whole call back.
WholeCalls ==
    ~carried => \A id \in DOMAIN calls :
        Events(id) \subseteq disk.rows \/ Events(id) \cap disk.rows = {}

\* The two commits of a timeline, and of an artifact with its file, come in
\* that order: a timeline's row vouches for all of its events, always.
SecondPartLast ==
    \A id \in DOMAIN calls :
        /\ Row("timelines", id, 1) \in disk.rows => Events(id) \subseteq disk.rows
        /\ Row("files", id, 1) \in disk.rows => Row("artifacts", id, 1) \in disk.rows

\* A connection at rest keeps other processes from writing only after a failure.
LockIsReleased ==
    \A c \in Conns : writer = c /\ todo[c] = <<>> => failed[c]

HashCalls(h) == {id \in DOMAIN calls : Request(id).kind = "hash" /\ Request(id).sha = h}

\* duplicate_count is the number of times a hash was indexed if one process did
\* it, and never more; two that look before either inserts lose a count, and
\* never the hash.
HashesCounted ==
    \A h \in Shas :
        LET done == HashCalls(h) \cap returned
        IN  /\ disk.hashes[h] <= Cardinality(done)
            /\ done # {} => disk.hashes[h] > 0
            /\ Cardinality({calls[id].by : id \in HashCalls(h)}) = 1 =>
                    disk.hashes[h] = Cardinality(done)

\* What the index promises of its tables.
IndexRight ==
    ReturnedIsStored /\ WholeCalls /\ SecondPartLast /\ LockIsReleased /\ HashesCounted
=============================================================================
