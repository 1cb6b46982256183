----------------------------- MODULE MCScanning -----------------------------
(***************************************************************************)
(* Scan commands: images of up to sixteen megabytes on both sides of every *)
(* window, limits within the head and behind it, tables in the head, in    *)
(* the middle and past the end, each with and without a time limit.        *)
(***************************************************************************)
EXTENDS Scanning

Setting(m, t, p, s, l, f, o) ==
    [mode |-> m, threads |-> t, mmap |-> p, size |-> s, limit |-> l, mft |-> f, timeout |-> o]
MCScanSettings ==
    {Setting("quick", 1, "off", s, l, f, o) :
        s \in {0, 1, 3, 8, 16}, l \in {0, 2, 10}, f \in {-1, 1, 5, 50}, o \in BOOLEAN}
    \cup {Setting("full", t, p, s, l, -1, o) :
        t \in 1..2, p \in {"off", "works", "falls", "raises"}, s \in {0, 3, 8}, l \in {0, 2}, o \in BOOLEAN}
=============================================================================
