----------------------------- MODULE MCScanners -----------------------------
(***************************************************************************)
(* The scanners, one at a time: a chunked scan, or a scan by threads.  The *)
(* other one is over, of a source without bytes.                           *)
(*                                                                         *)
(* Bytes are small numbers: 1 begins a JPEG, 2 3 end one or a PDF, 4 and 5 *)
(* are a GIF's header and footer, 6 begins a PDF and 7 a bitmap.  Threads  *)
(* look for JPEGs that may be longer, and for GIFs that end as JPEGs do.   *)
(***************************************************************************)
EXTENDS StreamingScanner, ThreadedScanner, TLC

CONSTANT MaxLen

MCKinds == {"jpg", "gif", "pdf", "bmp", "long jpg", "odd gif"}
MCHeaders ==
    "jpg" :> {<<1>>} @@ "gif" :> {<<4>>} @@ "pdf" :> {<<6>>} @@ "bmp" :> {<<7>>}
    @@ "long jpg" :> {<<1>>} @@ "odd gif" :> {<<4>>}
MCFooter ==
    "jpg" :> <<2, 3>> @@ "gif" :> <<5>> @@ "pdf" :> <<2, 3>> @@ "long jpg" :> <<2, 3>> @@ "odd gif" :> <<3>>
MCMinSize ==
    "jpg" :> 4 @@ "gif" :> 2 @@ "pdf" :> 3 @@ "bmp" :> 1 @@ "long jpg" :> 3 @@ "odd gif" :> 3
MCLookback == [k \in MCKinds |-> IF k \in {"long jpg", "odd gif"} THEN 4 ELSE 2]
MCUnlimited == {"pdf"}
MCSized == {"bmp"}
MCDeclared == 1 :> 1 @@ 2 :> 2 @@ 3 :> 3 @@ 4 :> 0 @@ 5 :> 9 @@ 6 :> 2 @@ 7 :> 5

\* Every image of n JPEG bytes with a header and a footer behind it; a window of
\* any other has no file either.
JpegImages(n) ==
    {im \in [1..n -> {1, 2, 3}] :
        \E i \in 1..n - 2 : \E j \in i + 1..n - 1 : im[i] = 1 /\ im[j] = 2 /\ im[j + 1] = 3}

-----------------------------------------------------------------------------
(* Chunked scans, mapped or not.                                               *)

\* A file as long as its reader takes it for, mapped or not, or one byte shorter.
Whole == {<<"mmap", 0>>, <<"streaming", 0>>}
CutShort == {<<"mmap", 1>>}

Setup(images, carvers_, chunk, overlap_, ways) ==
    {[image |-> im, size |-> Len(im) + w[2], carvers |-> carvers_, chunk_size |-> chunk,
      overlap |-> overlap_, mode |-> w[1]] : im \in images, w \in ways}

\* An overlap that suffices, and one that does for small files only.
Jpegs ==
    Setup(JpegImages(MaxLen), <<"jpg">>, 2, 3, Whole \union CutShort)
    \union Setup(JpegImages(MaxLen - 1), <<"long jpg">>, 2, 2, CutShort)

\* Images laid out from three pieces, each a file of one kind or a header
\* without an end, the last one unlike the others.
Pieces == {<<1, 3, 2, 3>>, <<4, 5>>, <<6, 2, 3>>, <<7, 3, 7>>, <<6>>, <<1>>}
LaidOut == UNION {{p \o q \o r : r \in Pieces \ {p, q}} : p, q \in Pieces}
Mixed == Setup(LaidOut, <<"jpg", "gif", "pdf", "bmp">>, 2, 3, {<<"mmap", 0>>} \union CutShort)

Several == Jpegs \union Mixed

\* A GIF before a JPEG in one window.
GifJpeg == Setup({<<4, 5, 1, 3, 2, 3>>}, <<"jpg", "gif">>, 6, 6, Whole)

ScanOver ==
    /\ image = <<>> /\ size = 0 /\ carvers = <<>> /\ chunk_size = 1 /\ overlap = 1 /\ mode = "done"
    /\ buffer = <<>> /\ buffer_base = 0 /\ file_cursor = 0
    /\ all_results = <<>> /\ last_found_end = 0

-----------------------------------------------------------------------------
(* Scans by threads.                                                           *)

ByThreads(images, carvers_, threads, o, f) ==
    {[image |-> im, carvers |-> carvers_, num_threads |-> t, overlap |-> o, faults |-> f] :
        im \in images, t \in threads}

\* Two files side by side; two kinds and a header whose footer is another
\* file's; an empty source.
Few == {<<1, 3, 2, 3, 1, 3, 2, 3>>, <<4, 1, 3, 2, 3, 4, 3>>, <<>>}

\* Threads of unequal regions, and one thread over images of two reads.
SeveralThreads ==
    ByThreads(Few, <<"long jpg", "odd gif">>, {1, 2}, 3, TRUE)
    \union ByThreads({<<1, 3, 2, 3, 1>>}, <<"long jpg">>, {3}, 2, FALSE)
    \union ByThreads(JpegImages(MaxLen - 1), <<"long jpg">>, {1}, 4, FALSE)

\* One thread and more than two reads.
Long == ByThreads({<<3, 3, 3, 3, 3, 3, 1, 2, 3>>}, <<"long jpg">>, {1}, 3, FALSE)

ThreadsOver ==
    /\ source = <<>> /\ region_carvers = <<>> /\ num_threads = 1 /\ region_overlap = 1 /\ faults = FALSE
    /\ handle = 0 /\ pc = <<>> /\ pos = <<>> /\ buffers = <<>> /\ local_results = <<>>
    /\ last_found_ends = <<>> /\ completed = 0 /\ all_files = <<>> /\ joined = TRUE

-----------------------------------------------------------------------------
(* The scan that runs.                                                         *)

MCInit == (ScanInit /\ ThreadsOver) \/ (ScanOver /\ ThreadInit)
MCNext == (ScanNext /\ UNCHANGED threadVars) \/ (ThreadNext /\ UNCHANGED scanVars)
MCSpec == MCInit /\ [][MCNext]_<<scanVars, threadVars>>

\* Somebody goes on while anybody can: less than fairness of each thread.
FairMCSpec == MCSpec /\ WF_<<scanVars, threadVars>>(MCNext)

\* Types of both scanners.
ScannersTypeOK == ScanTypeOK /\ ThreadTypeOK
=============================================================================
