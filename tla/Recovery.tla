------------------------------ MODULE Recovery ------------------------------
(***************************************************************************)
(* What a scan does with the files it carved (cli/commands/scan.py): each  *)
(* is saved under the next number of its kind (core/recovery/manager.py)   *)
(* and its digest is added to the hash database, which is written back     *)
(* whole after every addition (core/utils/hash_database.py).  A scan is a  *)
(* process of its own; all of them use the same database file.  Digests    *)
(* do not collide, so the bytes of a file stand for its digest.            *)
(***************************************************************************)
EXTENDS Integers, Sequences, FiniteSets

CONSTANT
    Worlds  \* the scans, what they carve and where it goes

ASSUME RecoveryAssumption ==
    \A w \in Worlds :
        /\ w.overlap \in BOOLEAN    \* whether scans may run side by side
        /\ w.faults \in BOOLEAN     \* whether a write may fail or be cut by a crash
        /\ DOMAIN w.dir = DOMAIN w.finds
        /\ \A s \in DOMAIN w.finds :
            Len(w.finds[s]) \in Nat /\ DOMAIN w.finds[s] = 1..Len(w.finds[s])

VARIABLES
    world,
    stage,      \* scan -> "waiting", "save", "add", "write", "done" or "dead"
    at,         \* scan -> the carved file it deals with
    counter,    \* scan -> extension -> the number given last
    hashes,     \* scan -> its copy of the database: digest -> path and count
    hashdb,     \* the file: absent, torn or whole
    saved,      \* path -> bytes
    added       \* digest -> how often add() has returned (kept by the model)

recoveryVars == <<world, stage, at, counter, hashes, hashdb, saved, added>>

Scans == DOMAIN world.finds
Digests == UNION {{world.finds[s][i].data : i \in DOMAIN world.finds[s]} : s \in Scans}
Running(s) == stage[s] \in {"save", "add", "write"}

NoHashes == <<>>
Missing == [state |-> "absent", hashes |-> NoHashes]
Torn == [state |-> "torn", hashes |-> NoHashes]
Whole(h) == [state |-> "whole", hashes |-> h]

Get(f, k) == IF k \in DOMAIN f THEN f[k] ELSE 0
Bind(f, k, v) == [x \in DOMAIN f \cup {k} |-> IF x = k THEN v ELSE f[x]]

RecoveryInit ==
    /\ world \in Worlds
    /\ stage = [s \in Scans |-> "waiting"]
    /\ at = [s \in Scans |-> 1]
    /\ counter = [s \in Scans |-> NoHashes]
    /\ hashes = [s \in Scans |-> NoHashes]
    /\ hashdb = Missing /\ saved = NoHashes
    /\ added = [d \in Digests |-> 0]

\* The database is never read.
StartAfresh(s) ==
    /\ stage[s] = "waiting"
    /\ world.overlap \/ \A t \in Scans : ~Running(t)
    /\ stage' = [stage EXCEPT ![s] = "save"]
    /\ UNCHANGED <<world, at, counter, hashes, hashdb, saved, added>>

\* HashDatabase(): what cannot be read is logged and counts as empty.
Start(s) ==
    /\ stage[s] = "waiting"
    /\ world.overlap \/ \A t \in Scans : ~Running(t)
    /\ hashes' = [hashes EXCEPT ![s] = hashdb.hashes]
    /\ stage' = [stage EXCEPT ![s] = "save"]
    /\ UNCHANGED <<world, at, counter, hashdb, saved, added>>

File(s) == world.finds[s][at[s]]
More(s) == at[s] <= Len(world.finds[s])
PathOf(s, n) == <<world.dir[s], File(s).ext, n>>

\* RecoveryManager.save: what is under that path already is replaced.
SaveFile(s) ==
    /\ stage[s] = "save" /\ More(s)
    /\ LET n == Get(counter[s], File(s).ext) + 1
       IN  /\ counter' = [counter EXCEPT ![s] = Bind(@, File(s).ext, n)]
           /\ saved' = Bind(saved, PathOf(s, n), File(s).data)
    /\ stage' = [stage EXCEPT ![s] = "add"]
    /\ UNCHANGED <<world, at, hashes, hashdb, added>>

\* The copy with one occurrence more; the first path stays.
Counted(s) ==
    LET d == File(s).data
        h == hashes[s]
    IN  IF d \in DOMAIN h THEN [h EXCEPT ![d].count = @ + 1]
        ELSE Bind(h, d, [path |-> PathOf(s, counter[s][File(s).ext]), count |-> 1])

\* add(), up to the opening of the file for writing, which empties it.
AddHash(s) ==
    /\ stage[s] = "add"
    /\ hashes' = [hashes EXCEPT ![s] = Counted(s)]
    /\ hashdb' = Torn
    /\ stage' = [stage EXCEPT ![s] = "write"]
    /\ UNCHANGED <<world, at, counter, saved, added>>

Returned(s) ==
    /\ added' = [added EXCEPT ![File(s).data] = @ + 1]
    /\ at' = [at EXCEPT ![s] = @ + 1]
    /\ stage' = [stage EXCEPT ![s] = "save"]

\* The file cannot be opened: logged, and the scan goes on with its copy.
AddUnsaved(s) ==
    /\ world.faults /\ stage[s] = "add"
    /\ hashes' = [hashes EXCEPT ![s] = Counted(s)]
    /\ Returned(s)
    /\ UNCHANGED <<world, counter, hashdb, saved>>

\* The text is written from the start of the file; where another scan has
\* written since the file was emptied, a longer text leaves its end behind.
WriteBack(s) ==
    /\ stage[s] = "write"
    /\ \/ hashdb' = Whole(hashes[s])
       \/ hashdb.state = "whole" /\ hashdb.hashes # hashes[s] /\ hashdb' = Torn
    /\ Returned(s)
    /\ UNCHANGED <<world, counter, hashes, saved>>

\* The write fails half way: logged.
WriteFails(s) ==
    /\ world.faults /\ stage[s] = "write"
    /\ hashdb' = Torn
    /\ Returned(s)
    /\ UNCHANGED <<world, counter, hashes, saved>>

Finish(s) ==
    /\ stage[s] = "save" /\ ~More(s)
    /\ stage' = [stage EXCEPT ![s] = "done"]
    /\ UNCHANGED <<world, at, counter, hashes, hashdb, saved, added>>

\* The process dies, in the middle of a write only where faults are looked at.
Crash(s) ==
    /\ Running(s)
    /\ stage[s] = "write" => world.faults
    /\ stage' = [stage EXCEPT ![s] = "dead"]
    /\ UNCHANGED <<world, at, counter, hashes, hashdb, saved, added>>

\* clear(), which no scan calls: between two additions of a lone one.
ClearHashes(s) ==
    /\ ~world.overlap /\ stage[s] = "save"
    /\ hashes' = [hashes EXCEPT ![s] = NoHashes]
    /\ hashdb' = Missing
    /\ added' = [d \in Digests |-> 0]
    /\ UNCHANGED <<world, stage, at, counter, saved>>

RecoveryNext ==
    \E s \in Scans :
        \/ Start(s) \/ SaveFile(s) \/ AddHash(s) \/ AddUnsaved(s)
        \/ WriteBack(s) \/ WriteFails(s) \/ Finish(s) \/ Crash(s) \/ ClearHashes(s)

RecoverySpec == RecoveryInit /\ [][RecoveryNext]_recoveryVars

-----------------------------------------------------------------------------
(* Properties *)

RecoveryTypeOK ==
    /\ \A s \in Scans :
        /\ stage[s] \in {"waiting", "save", "add", "write", "done", "dead"}
        /\ at[s] \in 1..Len(world.finds[s]) + 1
        /\ DOMAIN hashes[s] \subseteq Digests
    /\ hashdb.state \in {"absent", "torn", "whole"}
    /\ DOMAIN hashdb.hashes \subseteq Digests

CountOnDisk(d) == IF d \in DOMAIN hashdb.hashes THEN hashdb.hashes[d].count ELSE 0

\* Of scans one after the other, each of which may die between two writes, the
\* database counts every occurrence: an add() that returned is never lost and
\* none is counted twice ("stores SHA-256 digests across runs", CHANGELOG.md:216).
CountsKept ==
    (~world.overlap /\ ~world.faults /\ \A s \in Scans : stage[s] # "write") =>
        \A d \in Digests : CountOnDisk(d) = added[d]

\* Whatever runs side by side and whatever fails, an occurrence is never made up:
\* the file counts no more of them than add() has returned for.
NothingMadeUp == \A d \in Digests : CountOnDisk(d) <= added[d]

\* While scans save into directories of their own, the path the database gives
\* for a digest leads to a file with that digest, after crashes too: a file is
\* saved before it is added, and no number is given twice.
PathHolds ==
    (\A s, t \in Scans : world.dir[s] = world.dir[t] => s = t) =>
        \A s \in Scans : \A d \in DOMAIN hashes[s] :
            LET path == hashes[s][d].path
            IN  path \in DOMAIN saved /\ saved[path] = d

\* The hash database and the recovered files agree.
HashesRight == CountsKept /\ NothingMadeUp /\ PathHolds

=============================================================================
