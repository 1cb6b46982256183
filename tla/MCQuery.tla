------------------------------ MODULE MCQuery ------------------------------
(***************************************************************************)
(* Queries: every query of up to five of a comparison, another, the        *)
(* brackets and the words; every operator; three comparisons; what is no   *)
(* query.  Searches by each filter, alone and with another.                *)
(***************************************************************************)
EXTENDS Query, SequencesExt

UpTo(n, s) == UNION {[1..k -> s] : k \in 0..n}

ImageRow(e, s, t, n, m, p) ==
    [event_type |-> e, source |-> s, timestamp |-> t, filename |-> n, mft_reference |-> m, parent_mft_reference |-> p]
MCImageEvents ==
    <<ImageRow("FILE_CREATED", "MFT", "t2", "ab", "5", "0"), ImageRow("FILE_DELETED", "USN", "t1", "b", "7", "5"),
      ImageRow("FILE_DELETED", "MFT", Null, "ab", "0", "5")>>
MCRank ==
    [v \in {Null, "t1", "t2", "ab", "b", "0", "5", "7", "FILE_CREATED", "FILE_DELETED", "MFT", "USN"} |->
        CASE v = Null -> 0
          [] v \in {"t1", "b", "5", "FILE_DELETED", "USN"} -> 2
          [] v \in {"t2", "7"} -> 3
          [] OTHER -> 1]
MCLikes ==
    {<<"contains", "ab", "b">>, <<"contains", "b", "b">>, <<"ends", "ab", "b">>, <<"ends", "b", "b">>,
     <<"starts", "b", "b">>, <<"~", "b", "b">>}
MCLiterals == [t \in {"null"} |-> Null]

Deleted == <<"event", "==", "FILE_DELETED">>
NamedB == <<"name", "contains", "b">>
Late == <<"time", ">=", "t2">>
Texts == {FlattenSeq(s) : s \in UpTo(5, {Deleted, NamedB, <<"(">>, <<")">>, <<"AND">>, <<"OR">>, <<"NOT">>})}
Singles ==
    {<<f, o, v>> : f \in {"name", "timestamp", "hash"}, o \in Operators \cup {"="}, v \in {"b", "null"}}
    \cup {<<")", "==", "b">>, <<"name", "==">>, <<"name">>, <<"name", "==", "b", "name">>}
Triples ==
    {a \o <<x>> \o b \o <<y>> \o c : a, b, c \in {Deleted, NamedB, Late}, x, y \in {"AND", "OR"}}
    \cup {a \o <<x, "(">> \o b \o <<y>> \o c \o <<")">> : a, b, c \in {Deleted, NamedB, Late}, x, y \in {"AND", "OR"}}

AnyRow == [op |-> "search", own_db |-> FALSE, limit |-> 9, event |-> "", source |-> "", name |-> "",
           since |-> "", until |-> "", mft |-> "0", deleted |-> FALSE, hash |-> "", modified |-> FALSE,
           sort |-> "timestamp"]
Searches ==
    {[AnyRow EXCEPT !.event = e, !.name = n, !.since = s, !.mft = m, !.deleted = d, !.limit = k] :
        e \in {"", "FILE_CREATED"}, n \in {"", "b"}, s \in {"", "t1"}, m \in {"0", "5"}, d \in BOOLEAN, k \in {1, 9}}
    \cup {[AnyRow EXCEPT !.until = "t1"], [AnyRow EXCEPT !.source = "MFT", !.sort = "filename"],
          [AnyRow EXCEPT !.hash = "x"], [AnyRow EXCEPT !.modified = TRUE], [AnyRow EXCEPT !.own_db = TRUE],
          [AnyRow EXCEPT !.mft = "5", !.limit = 1, !.sort = "confidence"]}

Asks(ts, k) == [op |-> "query", tokens |-> ts, limit |-> k]
Explains(ts) == [op |-> "explain", tokens |-> ts]
MCScripts ==
    {<<Asks(ts, 9), Explains(ts)>> : ts \in Texts \cup Singles \cup Triples}
    \cup {<<Asks(ts, k), Asks(ts, 9)>> : ts \in {Deleted, NamedB, Late}, k \in {0, 1}}
    \cup {<<s, s>> : s \in Searches}
    \cup {<<[op |-> "plan", words |-> w, indexes |-> i]>> :
            w \in SUBSET {"event_type", "timestamp", "sort", "limit", "count"}, i \in SUBSET {"event_type", "timestamp"}}
=============================================================================
