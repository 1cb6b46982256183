------------------------------ MODULE Carving ------------------------------
(***************************************************************************)
(* The carvers (core/carving/{jpg,png,gif,pdf,bmp}.py): what a carver      *)
(* finds in one buffer.  Offsets count from zero, as in the code; a cell   *)
(* of a buffer stands for a byte, a header or footer for a few of them.    *)
(***************************************************************************)
EXTENDS Integers, Sequences, FiniteSets, FiniteSetsExt

CONSTANTS
    Kinds,      \* the registered signatures
    Headers,    \* kind -> its header byte strings (GIF has two), of one length
    Footer,     \* kind -> footer bytes; not used for the kinds in Sized
    MinSize,    \* kind -> least size of a file worth recording
    Lookback,   \* kind -> CARVER_LOOKBACK
    Unlimited,  \* the kinds whose footer search ignores CARVER_LOOKBACK (PDF)
    Sized,      \* the kinds that declare their size instead (BMP)
    Declared    \* byte -> the size it stands for when read as a size field

Byte == DOMAIN Declared

ASSUME CarvingAssumption ==
    /\ \A b \in Byte : Declared[b] \in Nat
    /\ Sized \subseteq Kinds /\ Unlimited \subseteq Kinds
    /\ MinSize \in [Kinds -> Nat] /\ Lookback \in [Kinds -> Nat]
    /\ \A k \in Kinds : \A h, g \in Headers[k] : h \in Seq(Byte) /\ Len(h) > 0 /\ Len(h) = Len(g)
    /\ \A k \in Kinds \ Sized : Footer[k] \in Seq(Byte) /\ Len(Footer[k]) > 0

NotFound == -1

\* data[start:end]
Slice(data, start, end) == SubSeq(data, start + 1, end)

\* data.find(p, from) for the patterns p: the first occurrence of any of them
Find(data, patterns, from) ==
    LET hits == {i \in from..Len(data) - 1 :
                    \E p \in patterns : /\ i + Len(p) <= Len(data)
                                        /\ Slice(data, i, i + Len(p)) = p}
    IN  IF hits = {} THEN NotFound ELSE Min(hits)

HeaderLen(k) == Len(CHOOSE h \in Headers[k] : TRUE)

\* Where a file with its header at start ends: after the first footer that
\* follows the header, unless that one is too far away.
FooterEnd(k, data, start) ==
    LET footer == Find(data, {Footer[k]}, start + HeaderLen(k))
    IN  IF \/ footer = NotFound
           \/ k \notin Unlimited /\ footer > start + Lookback[k]
        THEN NotFound ELSE footer + Len(Footer[k])

\* A declared size reaches its end only inside the buffer; one that is too
\* small or too large for the buffer must not exceed the lookback either.
DeclaredEnd(k, data, start) ==
    LET field == start + HeaderLen(k)
        size  == Declared[data[field + 1]]
    IN  IF \/ field >= Len(data)
           \/ size = 0
           \/ start + size > Len(data)
           \/ size <= MinSize[k] /\ size > Lookback[k]
        THEN NotFound ELSE start + size

EndOf(k, data, start) ==
    IF k \in Sized THEN DeclaredEnd(k, data, start) ELSE FooterEnd(k, data, start)

\* carver.carve(data): a header without an end is passed over by one byte, a
\* file is left behind whole, recorded or (too small) not.
Carve(k, data) ==
    LET From[offset \in 0..Len(data)] ==
            LET start == Find(data, Headers[k], offset)
                end   == EndOf(k, data, start)
                file  == [kind |-> k, start |-> start, end |-> end,
                          data |-> Slice(data, start, end)]
            IN  IF start = NotFound THEN <<>>
                ELSE IF end = NotFound THEN From[start + 1]
                ELSE (IF end - start >= MinSize[k] THEN <<file>> ELSE <<>>) \o From[end]
    IN  From[0]

=============================================================================
