---------------------------- MODULE FatDirectory ----------------------------
(***************************************************************************)
(* Directories of filesystems/fat32/directory.py: a directory is the slots *)
(* of its clusters, and walk_directory_tree goes down into those its       *)
(* entries name, remembering on each level where that level has been.      *)
(***************************************************************************)
EXTENDS FatTable, SequencesExt

CONSTANTS
    MaxDepth,   \* max_depth, 32
    Trees       \* the volumes to walk, see DirectoryAssumption

\* A slot: kind "free" (a first byte of zero), "lfn", "label" or "entry"; an
\* entry has deleted, dir (the attribute, or a first byte of "."), dot (one of
\* the names "." and ".."), name and start.
SlotType ==
    [kind : {"free", "lfn", "label", "entry"}, name : STRING, deleted : BOOLEAN, dir : BOOLEAN, dot : BOOLEAN,
     start : 0..Over]

\* A volume to walk has a table, the slots of each cluster and the cluster of the root, and
\* nothing to recover.
ASSUME DirectoryAssumption ==
    /\ MaxDepth \in Nat
    /\ \A v \in Volumes \union Trees :
        /\ \A c \in DOMAIN v.fat : v.fat[c] \in Values
        /\ DOMAIN v.slots \subseteq DataClusters
        /\ \A c \in DOMAIN v.slots : v.slots[c] \in Seq(SlotType)
    /\ \A v \in Trees : v.root \in DataClusters /\ v.targets = <<>>

VARIABLES
    stack,      \* the calls of _walk: entries still to do, visited_clusters, path
    listed      \* results, as paths

dirVars == <<stack, listed>>
allVars == <<fatVars, dirVars>>

-----------------------------------------------------------------------------
(* parse_directory_entries *)

WithLong(s, long) ==
    [kind |-> s.kind, name |-> s.name, deleted |-> s.deleted, dir |-> s.dir, dot |-> s.dot, start |-> s.start,
     long |-> long]

\* One slot; a long name collects until the next slot that is none of its pieces.
TakeSlot(acc, s) ==
    CASE ~acc.open -> acc
      [] acc.open /\ s.kind = "free" -> [acc EXCEPT !.open = FALSE]
      [] acc.open /\ s.kind = "lfn" -> [acc EXCEPT !.lfn = Append(@, s.name)]
      [] acc.open /\ s.kind = "label" ->
            [acc EXCEPT !.entries = Append(@, WithLong(s, <<>>)), !.lfn = <<>>]
      [] OTHER -> [acc EXCEPT !.entries = Append(@, WithLong(s, acc.lfn)), !.lfn = <<>>]

ParseEntries(slots) ==
    FoldLeft(TakeSlot, [entries |-> <<>>, lfn |-> <<>>, open |-> TRUE], slots).entries

SlotsOf(c) == IF c \in DOMAIN volume.slots THEN volume.slots[c] ELSE <<>>

\* read_directory, on the chain that Hop and Stop compute.
DirectorySlots(c) ==
    FlattenSeq([i \in 1..OrbitLen(c) |-> SlotsOf(Orbit(c)[i - 1])])
ReadDirectory(c) == ParseEntries(DirectorySlots(c))

-----------------------------------------------------------------------------
(* walk_directory_tree; find_deleted_entries *)

Frame(c, path) == [rest |-> ReadDirectory(c), visited |-> {}, path |-> path]

WalkInit ==
    /\ volume \in Trees
    /\ step = "idle" /\ at = 1
    /\ chain = <<>> /\ cluster = 0 /\ status = "ok"
    /\ reports = <<>> /\ files = <<>>
    /\ stack = <<Frame(volume.root, <<>>)>>
    /\ listed = <<>>

DirIdle == stack = <<>> /\ listed = <<>>

Call == Last(stack)
TopEntry == Head(Call.rest)
More == stack # <<>> /\ Call.rest # <<>>
Skipped(e) == e.kind = "label" \/ e.deleted \/ (e.dir /\ e.dot)
Path(e) == Append(Call.path, e.name)

\* The call goes on behind its entry, with the clusters it has visited.
GoOn(visited) == [stack EXCEPT ![Len(stack)] = [Call EXCEPT !.rest = Tail(Call.rest), !.visited = visited]]

SkipEntry ==
    /\ More /\ Skipped(TopEntry)
    /\ stack' = GoOn(Call.visited)
    /\ UNCHANGED <<fatVars, listed>>

ListFile ==
    /\ More /\ ~Skipped(TopEntry) /\ ~TopEntry.dir
    /\ listed' = Append(listed, Path(TopEntry))
    /\ stack' = GoOn(Call.visited)
    /\ UNCHANGED fatVars

\* Where a level has not been yet.
Followed(e) == e.start >= 2 /\ e.start \notin Call.visited

ListOnly ==
    /\ More /\ ~Skipped(TopEntry) /\ TopEntry.dir /\ ~Followed(TopEntry)
    /\ listed' = Append(listed, Path(TopEntry))
    /\ stack' = GoOn(Call.visited)
    /\ UNCHANGED fatVars

Below(e) == Frame(e.start, Path(e))

\* The call below returns at once when it is too deep.
Descend ==
    /\ More /\ ~Skipped(TopEntry) /\ TopEntry.dir /\ Followed(TopEntry)
    /\ listed' = Append(listed, Path(TopEntry))
    /\ LET on == GoOn(Call.visited \union {TopEntry.start})
       IN  stack' = IF Len(stack) > MaxDepth THEN on ELSE Append(on, Below(TopEntry))
    /\ UNCHANGED fatVars

Return ==
    /\ stack # <<>> /\ Call.rest = <<>>
    /\ stack' = Front(stack)
    /\ UNCHANGED <<fatVars, listed>>

WalkNext == SkipEntry \/ ListFile \/ ListOnly \/ Descend \/ Return

-----------------------------------------------------------------------------
(* Properties *)

\* Types, and a recursion no deeper than max_depth allows.
WalkTypeOK ==
    /\ Len(stack) <= MaxDepth + 1
    /\ \A i \in DOMAIN stack : stack[i].visited \subseteq 2..Over /\ Len(stack[i].path) = i - 1

Live(c) == {e \in Range(ReadDirectory(c)) : ~Skipped(e)}

\* The live entries that n names lead to from a directory, each as <<path, entry>>.
Reached(c) ==
    LET f[n \in Nat] ==
        IF n = 0 THEN {<< <<e.name>>, e >> : e \in Live(c)}
        ELSE LET below == {r \in f[n - 1] : r[2].dir /\ r[2].start >= 2}
             IN  UNION {{<<Append(r[1], e.name), e>> : e \in Live(r[2].start)} : r \in below}
    IN  f

LivePaths == {r[1] : r \in UNION {Reached(volume.root)[n] : n \in 0..MaxDepth}}

\* The names of a level differ, and no two live directories of it share their
\* first cluster.
Distinct(c) ==
    LET read == ReadDirectory(c)
        live == {i \in DOMAIN read : ~Skipped(read[i])}
    IN  \A i, j \in live : i # j =>
            /\ read[i].name # read[j].name
            /\ read[i].dir /\ read[j].dir => read[i].start # read[j].start

Walked == step = "idle" /\ stack = <<>>

\* The walk lists every live path down to max_depth and no other: nothing
\* under a deleted directory, nothing deleted, and in a tree with cycles or
\* directories of several parents each path it can reach.
WalkIsComplete ==
    (Walked /\ \A c \in DataClusters : Distinct(c)) => Range(listed) = LivePaths

\* It lists each of them once.
WalkListsOnce ==
    (Walked /\ \A c \in DataClusters : Distinct(c)) =>
        Len(listed) = Cardinality(Range(listed))

\* The pieces of a long name: the unbroken run of pieces right in front of it.
Pieces(slots, i) ==
    LET from == CHOOSE j \in 1..i :
                    /\ \A k \in j..(i - 1) : slots[k].kind = "lfn"
                    /\ j > 1 => slots[j - 1].kind # "lfn"
    IN  [k \in 1..(i - from) |-> slots[from + k - 1].name]

\* An entry has the long name written in front of it, or none: no piece of a
\* label, of another entry or of another cluster's gap is given to it.
LongNameBelongs ==
    \A c \in DOMAIN volume.slots :
        LET slots == DirectorySlots(c)
            used  == SelectInSeq(slots, LAMBDA s : s.kind = "free")
            own   == {i \in DOMAIN slots : slots[i].kind = "entry" /\ (used > 0 => i < used)}
        IN  {<<e.name, e.long>> : e \in {x \in Range(ReadDirectory(c)) : x.kind = "entry"}}
                = {<<slots[i].name, Pieces(slots, i)>> : i \in own}

\* Directories are read and walked as they were written.
DirectoriesRight == LongNameBelongs /\ WalkIsComplete /\ WalkListsOnce

\* The walk returns, through any cycle of directories.
WalkEnds == <>(stack = <<>>)
=============================================================================
