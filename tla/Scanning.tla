------------------------------ MODULE Scanning ------------------------------
(***************************************************************************)
(* A `recoverx scan` (cli/commands/scan.py run, _run_with_progress): the   *)
(* strategy (core/scanning/strategy.py) that scans the image, the timeout  *)
(* its progress callback sees, and Ctrl+C (core/scanning/interrupt.py),    *)
(* whose handler runs in the scanning thread wherever that thread is, the  *)
(* handler itself included.                                                *)
(*                                                                         *)
(* Sizes are megabytes.  A scanner reads the image chunk by chunk and is   *)
(* right about it (StreamingScanner, ThreadedScanner); a window stands for *)
(* the results of a scanner that has come to the end of the image.         *)
(***************************************************************************)
EXTENDS Integers, Sequences, FiniteSets

CONSTANTS
    ScanSettings,               \* the commands: settings and image
    HeadWindow, TailWindow, MftWindow,  \* 1, 10 and 16
    Chunk,                      \* what is read at once: 4
    MaxSignals                  \* bound: Ctrl+C pressed

Settings ==
    [mode : {"quick", "full"}, threads : Nat, mmap : {"off", "works", "falls", "raises"},
     size : Nat, limit : Nat, mft : Int, timeout : BOOLEAN]
ASSUME ScanningAssumption ==
    /\ {HeadWindow, TailWindow, MftWindow, Chunk} \subseteq Nat \ {0} /\ MaxSignals \in Nat
    /\ ScanSettings \subseteq Settings

VARIABLES
    settings,       \* the command that runs
    at_step,        \* where it is
    windows,        \* the windows scanned to their end, as <<start, size>>
    scanned,        \* QuickScanStrategy.scan's count of the bytes of the windows
    read,           \* file_cursor of the scanner that runs
    interrupted,    \* InterruptHandler.interrupted
    handling,       \* calls of _signal_handler under way
    kept,           \* windows whose results the command reports
    signals,        \* Ctrl+C pressed
    late            \* history: chunks read since the interrupt

scanningVars ==
    <<settings, at_step, windows, scanned, read, interrupted, handling, kept, signals, late>>
readVars == <<windows, scanned, read, late>>

ScanningEmpty ==
    /\ windows = <<>> /\ scanned = 0 /\ read = 0 /\ kept = -1
    /\ interrupted = FALSE /\ handling = 0 /\ signals = 0 /\ late = 0
ScanningInit == settings \in ScanSettings /\ at_step = "start" /\ ScanningEmpty
ScanningOff == settings = [mode |-> "none"] /\ at_step = "off" /\ ScanningEmpty

Smaller(a, b) == IF a < b THEN a ELSE b
Steps == {"head", "tail", "mft", "rest", "threaded", "mmap", "streaming"}
UnderWay == at_step \in Steps
Installed == UnderWay \/ (at_step = "start" /\ settings.size > 0)

\* The main thread takes a step only when no handler holds it.
Free == handling = 0

-----------------------------------------------------------------------------
(* What is scanned.                                                            *)

\* run: an empty file is an error; --max-size bounds the size that is shown,
\* and the quick scan's.
Effective == IF settings.limit > 0 THEN Smaller(settings.size, settings.limit) ELSE settings.size
FirstStep ==
    IF settings.mode = "quick" THEN "head"
    ELSE IF settings.threads > 1 THEN "threaded"
    ELSE IF settings.mmap # "off" THEN "mmap" ELSE "streaming"

\* The part of the image that a step is for, as <<start, size>>.
TailSize == Smaller(TailWindow, settings.size \div 4)
HasMft == settings.mft \in 0..(settings.size - 1)
Part ==
    CASE at_step = "head" -> <<0, HeadWindow>>
      [] at_step = "tail" -> <<settings.size - TailSize, TailSize>>
      [] at_step = "mft" /\ HasMft -> <<settings.mft, Smaller(MftWindow, settings.size - settings.mft)>>
      [] at_step = "rest" /\ Effective > scanned -> <<scanned, Effective - scanned>>
      [] at_step \in {"threaded", "mmap", "streaming"} -> <<0, settings.size>>
      [] OTHER -> <<0, 0>>
Actual(start, size) == Smaller(start + size, settings.size) - start

\* The loop of the scanners: the part bounds the chunk, and the image the loop.
\* Region threads go on while a handler holds the main thread.
ReadChunk ==
    /\ Free \/ at_step = "threaded"
    /\ UnderWay /\ Actual(Part[1], Part[2]) > 0 /\ read < settings.size
    /\ LET chunk == IF settings.mode = "quick" THEN Smaller(Chunk, Actual(Part[1], Part[2])) ELSE Chunk
       IN  read' = Smaller(read + chunk, settings.size)
    /\ late' = late + (IF interrupted THEN 1 ELSE 0)
    /\ UNCHANGED <<settings, at_step, windows, scanned, interrupted, handling, kept, signals>>

-----------------------------------------------------------------------------
(* Choice of the scanner.                                                      *)

\* The interrupt is asked for before a scanner starts, and never while it runs.
StartScan ==
    /\ Free /\ at_step = "start"
    /\ at_step' = IF settings.size = 0 THEN "empty" ELSE IF interrupted THEN "finish" ELSE FirstStep
    /\ UNCHANGED <<settings, readVars, interrupted, handling, kept, signals>>

\* FullScanStrategy: what raises in the mapped scan is scanned again by reading,
\* by the strategy, which asks for the interrupt, or by the scanner itself (an
\* OSError, a ValueError), which does not.
MapFails == at_step = "mmap" /\ settings.mmap \in {"falls", "raises"}
ScanAgain ==
    /\ Free /\ MapFails
    /\ at_step' = IF interrupted /\ settings.mmap = "raises" THEN "finish" ELSE "streaming"
    /\ read' = 0
    /\ UNCHANGED <<settings, windows, scanned, late, interrupted, handling, kept, signals>>
ScanAll ==
    /\ Free /\ at_step \in {"threaded", "mmap", "streaming"} /\ ~MapFails
    /\ read = settings.size /\ read' = 0
    /\ at_step' = "finish" /\ windows' = Append(windows, <<0, settings.size>>)
    /\ UNCHANGED <<settings, scanned, late, interrupted, handling, kept, signals>>

\* _scan_window: the window bounds the chunk and the count; the scanner reads
\* the image from its start to its end.  A window that is empty is skipped.
ScanWindow(start, size) ==
    IF Actual(start, size) <= 0 THEN UNCHANGED <<windows, scanned, read>>
    ELSE /\ read = settings.size /\ read' = 0
         /\ windows' = Append(windows, <<start, Actual(start, size)>>)
         /\ scanned' = scanned + Actual(start, size)
\* Mutant: the flag is not asked for between the windows.
UnlessNot(next) == at_step' = next
Unless(next) == at_step' = IF interrupted THEN "finish" ELSE next

ScanHead ==
    /\ Free /\ at_step = "head"
    /\ ScanWindow(Part[1], Part[2])
    /\ Unless("tail")
    /\ UNCHANGED <<settings, late, interrupted, handling, kept, signals>>
ScanTail ==
    /\ Free /\ at_step = "tail"
    /\ ScanWindow(Part[1], Part[2])
    /\ Unless("mft")
    /\ UNCHANGED <<settings, late, interrupted, handling, kept, signals>>

\* Not NTFS, a table past the end and an error while it is looked for go on.
ScanMft ==
    /\ Free /\ at_step = "mft"
    /\ ScanWindow(Part[1], Part[2])
    /\ IF HasMft THEN Unless("rest") ELSE at_step' = "rest"
    /\ UNCHANGED <<settings, late, interrupted, handling, kept, signals>>
ScanRest ==
    /\ Free /\ at_step = "rest"
    /\ ScanWindow(Part[1], Part[2])
    /\ at_step' = "finish"
    /\ UNCHANGED <<settings, late, interrupted, handling, kept, signals>>

\* _finish_scan: what was found is reported, interrupted or not.
FinishScan ==
    /\ Free /\ at_step = "finish"
    /\ at_step' = "done" /\ kept' = Len(windows)
    /\ UNCHANGED <<settings, readVars, interrupted, handling, signals>>

\* The progress callback of a scanner past --max-time, which it calls after a
\* chunk, sets the flag itself.
Timeout ==
    /\ Free \/ at_step = "threaded"
    /\ UnderWay /\ settings.timeout /\ ~interrupted /\ read > 0
    /\ interrupted' = TRUE
    /\ UNCHANGED <<settings, at_step, readVars, handling, kept, signals>>

-----------------------------------------------------------------------------
(* Ctrl+C, while the handler is installed.                                     *)

\* _signal_handler takes the lock, which is not reentrant: in a call of itself
\* it waits for ever.  The second press restores the old handler and raises
\* KeyboardInterrupt, that nothing before the end of the program catches.
Signal ==
    /\ Installed /\ signals < MaxSignals
    /\ signals' = signals + 1
    /\ IF handling > 0 THEN at_step' = "stuck" /\ UNCHANGED <<interrupted, handling>>
       ELSE IF interrupted THEN at_step' = "killed" /\ UNCHANGED <<interrupted, handling>>
       ELSE interrupted' = TRUE /\ handling' = 1 /\ UNCHANGED at_step
    /\ UNCHANGED <<settings, readVars, kept>>

SignalReturns ==
    /\ Installed /\ handling > 0 /\ handling' = handling - 1
    /\ UNCHANGED <<settings, at_step, readVars, interrupted, kept, signals>>

ScanningNext ==
    \/ StartScan \/ ReadChunk \/ ScanAgain \/ ScanAll \/ ScanHead \/ ScanTail \/ ScanMft \/ ScanRest \/ FinishScan
    \/ Timeout \/ Signal \/ SignalReturns

ScanningSpec == ScanningInit /\ [][ScanningNext]_scanningVars

-----------------------------------------------------------------------------
(* Properties.                                                                 *)

ScanningTypeOK ==
    /\ at_step \in Steps \cup {"start", "finish", "done", "empty", "killed", "stuck", "off"}
    /\ scanned \in Nat /\ interrupted \in BOOLEAN /\ handling \in 0..1 /\ kept \in -1..4
    /\ signals \in 0..MaxSignals /\ late \in Nat
    /\ at_step # "off" => read \in 0..settings.size

\* A command that comes to its end keeps what its scanners have found, each of
\* which has read the whole image.  A full scan that nothing interrupts has the
\* results of one scanner, also where the mapping failed on the way.  A scan has
\* none only if Ctrl+C was pressed, or if the mapping failed when the time was over.
KeepsWhatItFound ==
    at_step = "done" =>
        /\ kept = Len(windows)
        /\ settings.mode = "full" => kept \in 0..1
        /\ kept = 0 => /\ interrupted
                       /\ \/ signals > 0
                          \/ settings.mode = "full" /\ settings.mmap = "raises" /\ settings.timeout

\* A quick scan starts with the head, counts no byte past the image, and counts
\* at least the bytes it was asked for when nothing interrupts it.
QuickCoversSize ==
    (at_step = "done" /\ settings.mode = "quick" /\ windows # <<>>) =>
        /\ windows[1] = <<0, Smaller(HeadWindow, settings.size)>>
        /\ ~interrupted => scanned >= Effective
        /\ \A i \in DOMAIN windows : windows[i][2] > 0 /\ windows[i][1] + windows[i][2] <= settings.size

\* Results are lost and the handler waits for itself only after a second press,
\* or after one press when the time was over.
LostByForceOnly ==
    /\ at_step = "stuck" => signals >= 2 /\ handling = 1
    /\ at_step = "killed" => interrupted /\ (signals >= 2 \/ settings.timeout)

\* What a scan that ends has kept, what a quick one has counted, and what has to
\* happen for one not to end.
ScanningKept == KeepsWhatItFound /\ QuickCoversSize /\ LostByForceOnly

\* Once the flag is set no other scanner is started (strategy.py asks before each),
\* but for the two before which nobody asks: that of the rest of an image without
\* an MFT, and the loop by which a mapped scanner itself replaces its mapping.
StopsBetweenScanners ==
    [][(interrupted /\ at_step' \in Steps /\ at_step' # at_step) =>
        \/ at_step = "mft" /\ at_step' = "rest" /\ ~HasMft
        \/ at_step = "mmap" /\ at_step' = "streaming" /\ settings.mmap = "falls"]_scanningVars

\* What a scan keeps and where it stops.  It does not say that an interrupt or a
\* limit stops a scanner that runs: KeepsOneOfThree does, and is violated.
ScanningRight == []ScanningKept /\ StopsBetweenScanners

-----------------------------------------------------------------------------
(* What is said of a scan and does not hold.                                   *)

\* --max-size limits a scan to so many bytes (CHANGELOG.md:14): no scanner begins
\* a chunk behind the limit.
SizeLimited == settings.limit > 0 => read < settings.limit + Chunk

\* Workers and the main loop look at the flag and stop (interrupt.py:15): after it
\* is set, each thread ends the chunk it is at.
StopsPromptly == late <= settings.threads

\* A second Ctrl+C forces the exit (CHANGELOG.md:15) of a scan that is under way.
SecondForcesExit == signals >= 2 => at_step = "killed"

\* Each of the three is said of every scan.  Not even one of them holds of every
\* scan: a state that violates this one violates all three at once.
KeepsOneOfThree == SizeLimited \/ StopsPromptly \/ SecondForcesExit
=============================================================================
