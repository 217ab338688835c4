---------------------------- MODULE FileDownload ----------------------------
(***************************************************************************)
(* download_file (kernel/net.py): processes that download to one           *)
(* destination, each through the same temporary file.                      *)
(***************************************************************************)
EXTENDS Naturals

CONSTANTS
    Downloader,  \* the processes
    Retries      \* the argument `retries`

ASSUME DownloadAssumption == Retries \in Nat

VARIABLES
    dest,   \* the destination: "old" and "whole" parse, "short" and "torn" do not
    tmp,    \* the temporary file
    out,    \* the descriptor each process writes through
    stage,  \* where each call is
    try,    \* its attempt
    found,  \* history: the destination when the call began
    flawed  \* history: a body ended early without an exception, or calls overlapped

downloadVars == <<dest, tmp, out, stage, try, found, flawed>>

Files == INSTANCE ReplacedFile
         WITH Proc <- Downloader, Torn <- "torn", None <- "absent",
              mainFile <- dest, tmpFile <- tmp, fd <- out

DownloadInit ==
    /\ Files!FilesInit("old")
    /\ stage = [d \in Downloader |-> "idle"]
    /\ try = [d \in Downloader |-> 0]
    /\ found = [d \in Downloader |-> "old"]
    /\ flawed = FALSE

-----------------------------------------------------------------------------
At(d, s) == stage[d] = s
To(d, s) == stage' = [stage EXCEPT ![d] = s]

\* With no attempt to make, the call ends in RuntimeError and touches nothing.
Download(d) ==
    /\ At(d, "idle") /\ Retries > 0
    /\ To(d, "asking")
    /\ try' = [try EXCEPT ![d] = 1]
    /\ found' = [found EXCEPT ![d] = dest]
    /\ flawed' = (flawed \/ \E e \in Downloader : ~At(e, "idle"))
    /\ UNCHANGED <<dest, tmp, out>>

\* Bug: the destination itself is opened.
RespondsInPlace(d) ==
    /\ At(d, "asking") /\ To(d, "copying")
    /\ dest' = "torn"
    /\ out' = [out EXCEPT ![d] = "main"]
    /\ UNCHANGED <<tmp, try, found, flawed>>

\* urlopen answers, and the temporary file is opened.
Responds(d) ==
    /\ At(d, "asking") /\ To(d, "copying")
    /\ Files!TruncateTmp(d)
    /\ UNCHANGED <<try, found, flawed>>

\* copyfileobj returns.  A connection that closes early is not an error for
\* read(n): the body is then shorter than the server announced.
Copies(d) ==
    /\ At(d, "copying") /\ To(d, "replacing")
    /\ \E body \in {"whole", "short"} :
         /\ Files!WriteText(d, body)
         /\ flawed' = (flawed \/ body = "short")
    /\ UNCHANGED <<try, found>>

\* URLError or TimeoutError: the next attempt, if there is one.
Fails(d) ==
    /\ At(d, "asking") \/ At(d, "copying")
    /\ Files!CutOff(d)
    /\ To(d, IF try[d] < Retries THEN "sleeping" ELSE "idle")
    /\ UNCHANGED <<try, found, flawed>>

Wakes(d) ==
    /\ At(d, "sleeping") /\ To(d, "asking")
    /\ try' = [try EXCEPT ![d] = @ + 1]
    /\ UNCHANGED <<dest, tmp, out, found, flawed>>

\* tmp.replace(dest), and the call returns.
Saves(d) ==
    /\ At(d, "replacing") /\ To(d, "idle")
    /\ Files!RenameTmp
    /\ UNCHANGED <<try, found, flawed>>

\* Any other exception (disk full, connection reset, the temporary file gone), or
\* the end of the process.
Aborts(d) ==
    /\ ~At(d, "idle") /\ To(d, "idle")
    /\ Files!CutOff(d)
    /\ UNCHANGED <<try, found, flawed>>

DownloadNext ==
    \E d \in Downloader :
        \/ Download(d) \/ Responds(d) \/ Copies(d) \/ Fails(d)
        \/ Wakes(d) \/ Saves(d) \/ Aborts(d)

DownloadSpec == DownloadInit /\ [][DownloadNext]_downloadVars

-----------------------------------------------------------------------------
(* Property *)

\* The destination always holds a whole file, and a call that has not returned
\* has left it as it was, through any failures, retries and kills, and whatever
\* temporary file those left behind.  It needs calls that do not overlap, and
\* a server that does not end a body early: against both the code has no guard.
DownloadsWhole ==
    ~flawed => /\ dest \in {"old", "whole"}
               /\ \A d \in Downloader : ~At(d, "idle") => dest = found[d]
=============================================================================
