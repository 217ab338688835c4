----------------------------- MODULE KernelProofs -----------------------------
(***************************************************************************)
(* The helpers of the kernel, for any number of processes and failures     *)
(* anywhere: the migrations of a database, downloads through one temporary *)
(* file, retries with backoff, and the event log that processes append to  *)
(* without a lock.                                                         *)
(*                                                                         *)
(* Migrations: recorded ones were executed to their end, and in order.     *)
(* The strengthening says what a call knows of the table: what it read     *)
(* stays there, and the migrations before the one it is at are recorded.   *)
(* That no recorded migration is executed again rests on there being one   *)
(* call at a time.                                                         *)
(***************************************************************************)
EXTENDS Migrations, FileDownload, TransientRetry, EventLog, FiniteSetTheorems, TLAPS

-----------------------------------------------------------------------------
(* Migrations *)

Busy(p) == mstage[p] # "idle"

Midway(p) == mstage[p] \in {"executing", "recording"}

\* A call at migration m has read nothing that is not recorded, sees all the
\* earlier ones recorded, and has executed the statements behind it.
Knows(p) ==
    /\ applied[p] \subseteq recorded
    /\ Midway(p) =>
         /\ script[p] \in Migration
         /\ script[p] \notin applied[p]
         /\ \A k \in 1 .. script[p] - 1 : k \in recorded
         /\ \A s \in 1 .. Statements :
              s < statement[p] \/ mstage[p] = "recording" => <<script[p], s>> \in executed

Ordered ==
    /\ \A m \in recorded, s \in 1 .. Statements : <<m, s>> \in executed
    /\ \A m \in Migration, s \in 1 .. Statements :
         <<m, s>> \in executed => \A k \in 1 .. m - 1 : k \in recorded

\* Without overlap one call is busy at most, and nothing was recorded since it
\* read the table but what it recorded itself.
Alone ==
    ~overlapped =>
        /\ \A p, q \in Migrator : Busy(p) /\ Busy(q) => p = q
        /\ \A p \in Migrator : Midway(p) => recorded \subseteq applied[p] \cup 1 .. script[p] - 1

MigrationsInv ==
    /\ MigrationsTypeOK
    /\ \A p \in Migrator : Knows(p)
    /\ Ordered
    /\ Alone

\* Where the loop goes on after migration m, when all up to m are recorded.
LEMMA ProceedLands ==
    ASSUME MigrationsTypeOK, NEW p \in Migrator, NEW m \in 0 .. Migrations,
           NEW known, Proceed(p, m, known)
    PROVE  /\ mstage' \in [Migrator -> {"idle", "reading", "executing", "recording"}]
           /\ script' \in [Migrator -> 0 .. Migrations]
           /\ statement' \in [Migrator -> 1 .. Statements]
           /\ \A q \in Migrator \ {p} : /\ mstage'[q] = mstage[q] /\ script'[q] = script[q]
                                        /\ statement'[q] = statement[q]
           /\ \/ mstage'[p] = "idle"
              \/ /\ mstage'[p] = "executing" /\ statement'[p] = 1
                 /\ script'[p] \in m + 1 .. Migrations /\ script'[p] \notin known
                 /\ \A k \in m + 1 .. script'[p] - 1 : k \in known
<1> USE MigrationsAssumption DEF MigrationsTypeOK, Migration
<1>1. ASSUME NEW n \in m + 1 .. Migrations,
             n \notin known, \A k \in m + 1 .. n - 1 : k \in known,
             script' = [script EXCEPT ![p] = n], statement' = [statement EXCEPT ![p] = 1],
             mstage' = [mstage EXCEPT ![p] = "executing"]
      PROVE  /\ mstage' \in [Migrator -> {"idle", "reading", "executing", "recording"}]
             /\ script' \in [Migrator -> 0 .. Migrations]
             /\ statement' \in [Migrator -> 1 .. Statements]
             /\ \A q \in Migrator \ {p} : /\ mstage'[q] = mstage[q] /\ script'[q] = script[q]
                                          /\ statement'[q] = statement[q]
             /\ mstage'[p] = "executing" /\ statement'[p] = 1 /\ script'[p] = n
             /\ n \in m + 1 .. Migrations
  <2>1. n \in 0 .. Migrations /\ 1 \in 1 .. Statements
    OBVIOUS
  <2> QED
    BY <1>1, <2>1
<1>2. CASE mstage' = [mstage EXCEPT ![p] = "idle"] /\ UNCHANGED <<script, statement>>
  BY <1>2
<1> QED
  BY <1>1, <1>2 DEF Proceed

LEMMA MigrationsInvInit == MigrationsInit => MigrationsInv
<1> USE MigrationsAssumption
<1> SUFFICES ASSUME MigrationsInit PROVE MigrationsInv
  OBVIOUS
<1>1. MigrationsTypeOK
  <2>1. 1 \in 1 .. Statements /\ 0 \in 0 .. Migrations
    OBVIOUS
  <2> QED
    BY <2>1 DEF MigrationsInit, MigrationsTypeOK
<1>2. (\A p \in Migrator : Knows(p)) /\ Ordered /\ Alone
  BY DEF MigrationsInit, Knows, Ordered, Alone, Busy, Midway
<1> QED
  BY <1>1, <1>2 DEF MigrationsInv

LEMMA MigrateKeeps ==
    ASSUME MigrationsInv, NEW p \in Migrator, Migrate(p) PROVE MigrationsInv'
<1>1. /\ mstage[p] = "idle" /\ mstage' = [mstage EXCEPT ![p] = "reading"]
      /\ overlapped' = (overlapped \/ \E q \in Migrator : mstage[q] # "idle")
      /\ UNCHANGED <<applied, script, statement, recorded, executed>>
  BY DEF Migrate
<1>2. /\ mstage \in [Migrator -> {"idle", "reading", "executing", "recording"}]
      /\ overlapped \in BOOLEAN
  BY DEF MigrationsInv, MigrationsTypeOK
<1>3. MigrationsTypeOK'
  BY <1>1, <1>2 DEF MigrationsInv, MigrationsTypeOK
<1>4. \A q \in Migrator : mstage'[q] = IF q = p THEN "reading" ELSE mstage[q]
  BY <1>1, <1>2
<1>5. \A q \in Migrator : Knows(q)'
  BY <1>1, <1>4 DEF MigrationsInv, Knows, Midway
<1>6. Ordered'
  BY <1>1 DEF MigrationsInv, Ordered
<1>7. Alone'
  <2>1. ~overlapped' => \A q \in Migrator : mstage[q] = "idle"
    BY <1>1, Zenon
  <2> QED
    BY <1>1, <1>4, <2>1 DEF Alone, Busy, Midway
<1> QED
  BY <1>3, <1>5, <1>6, <1>7 DEF MigrationsInv

LEMMA ReadKeeps ==
    ASSUME MigrationsInv, NEW p \in Migrator, Read(p) PROVE MigrationsInv'
<1> USE MigrationsAssumption
<1>1. /\ mstage[p] = "reading" /\ applied' = [applied EXCEPT ![p] = recorded]
      /\ Proceed(p, 0, recorded) /\ UNCHANGED <<recorded, executed, overlapped>>
  BY DEF Read
<1>2. 0 \in 0 .. Migrations /\ MigrationsTypeOK
  BY DEF MigrationsInv
<1>3. /\ mstage' \in [Migrator -> {"idle", "reading", "executing", "recording"}]
      /\ script' \in [Migrator -> 0 .. Migrations]
      /\ statement' \in [Migrator -> 1 .. Statements]
      /\ \A q \in Migrator \ {p} : /\ mstage'[q] = mstage[q] /\ script'[q] = script[q]
                                   /\ statement'[q] = statement[q]
      /\ \/ mstage'[p] = "idle"
         \/ /\ mstage'[p] = "executing" /\ statement'[p] = 1
            /\ script'[p] \in 0 + 1 .. Migrations /\ script'[p] \notin recorded
            /\ \A k \in 0 + 1 .. script'[p] - 1 : k \in recorded
  BY <1>1, <1>2, ProceedLands
<1>4. applied' \in [Migrator -> SUBSET Migration] /\ \A q \in Migrator :
          applied'[q] = IF q = p THEN recorded ELSE applied[q]
  BY <1>1, <1>2 DEF MigrationsTypeOK
<1>5. MigrationsTypeOK'
  BY <1>1, <1>2, <1>3, <1>4 DEF MigrationsTypeOK
<1>6. \A q \in Migrator : Knows(q)'
  <2>1. ASSUME NEW q \in Migrator \ {p} PROVE Knows(q)'
    BY <1>1, <1>3, <1>4, <2>1 DEF MigrationsInv, Knows, Midway
  <2>2. Knows(p)'
    BY <1>1, <1>3, <1>4 DEF Knows, Midway, Migration
  <2> QED
    BY <2>1, <2>2
<1>7. Ordered'
  BY <1>1 DEF MigrationsInv, Ordered
<1>8. Alone'
  BY <1>1, <1>3, <1>4 DEF MigrationsInv, Alone, Busy, Midway
<1> QED
  BY <1>5, <1>6, <1>7, <1>8 DEF MigrationsInv

LEMMA ExecuteKeeps ==
    ASSUME MigrationsInv, NEW p \in Migrator, Execute(p) PROVE MigrationsInv'
<1> USE MigrationsAssumption
<1>1. /\ mstage[p] = "executing"
      /\ executed' = executed \cup {<<script[p], statement[p]>>}
      /\ UNCHANGED <<applied, script, recorded, overlapped>>
  BY DEF Execute
<1>2. /\ mstage \in [Migrator -> {"idle", "reading", "executing", "recording"}]
      /\ statement \in [Migrator -> 1 .. Statements] /\ statement[p] \in 1 .. Statements
      /\ script[p] \in Migration
      /\ \A k \in 1 .. script[p] - 1 : k \in recorded
  BY <1>1 DEF MigrationsInv, MigrationsTypeOK, Knows, Midway
<1>3. \A q \in Migrator \ {p} : mstage'[q] = mstage[q] /\ statement'[q] = statement[q]
  BY <1>1, <1>2 DEF Execute
<1>4. \/ /\ mstage'[p] = "executing" /\ statement'[p] = statement[p] + 1
         /\ statement[p] < Statements
      \/ /\ mstage'[p] = "recording" /\ statement'[p] = statement[p]
         /\ statement[p] = Statements
  BY <1>1, <1>2 DEF Execute
<1>5. MigrationsTypeOK'
  <2>1. statement' \in [Migrator -> 1 .. Statements]
    BY <1>2 DEF Execute
  <2>2. mstage' \in [Migrator -> {"idle", "reading", "executing", "recording"}]
    BY <1>2 DEF Execute
  <2> QED
    BY <1>1, <1>2, <2>1, <2>2 DEF MigrationsInv, MigrationsTypeOK
<1>6. \A q \in Migrator : Knows(q)'
  <2>1. ASSUME NEW q \in Migrator \ {p} PROVE Knows(q)'
    BY <1>1, <1>3, <2>1 DEF MigrationsInv, Knows, Midway
  <2>2. Knows(p)'
    <3>1. \A s \in 1 .. Statements : s < statement[p] => <<script[p], s>> \in executed
      BY <1>1 DEF MigrationsInv, Knows, Midway
    <3>2. \A s \in 1 .. Statements : s <= statement[p] => <<script[p], s>> \in executed'
      BY <1>1, <1>2, <3>1
    <3>3. ASSUME NEW s \in 1 .. Statements,
                 s < statement'[p] \/ mstage'[p] = "recording"
          PROVE  s <= statement[p]
      BY <1>2, <1>4, <3>3
    <3>4. applied[p] \subseteq recorded /\ script[p] \notin applied[p]
      BY <1>1 DEF MigrationsInv, Knows, Midway
    <3> QED
      BY <1>1, <1>2, <3>2, <3>3, <3>4 DEF Knows
  <2> QED
    BY <2>1, <2>2
<1>7. Ordered'
  <2>1. ASSUME NEW m \in Migration, NEW s \in 1 .. Statements, <<m, s>> \in executed',
               NEW k \in 1 .. m - 1
        PROVE  k \in recorded
    <3>1. CASE <<m, s>> \in executed
      BY <2>1, <3>1 DEF MigrationsInv, Ordered
    <3>2. CASE m = script[p]
      BY <1>2, <2>1, <3>2
    <3> QED
      BY <1>1, <2>1, <3>1, <3>2
  <2> QED
    BY <1>1, <2>1 DEF MigrationsInv, Ordered
<1>8. Alone'
  BY <1>1, <1>3, <1>4 DEF MigrationsInv, Alone, Busy, Midway
<1> QED
  BY <1>5, <1>6, <1>7, <1>8 DEF MigrationsInv

LEMMA RecordKeeps ==
    ASSUME MigrationsInv, NEW p \in Migrator, Record(p) PROVE MigrationsInv'
<1> USE MigrationsAssumption
<1>1. /\ mstage[p] = "recording" /\ script[p] \notin recorded
      /\ recorded' = recorded \cup {script[p]}
      /\ Proceed(p, script[p], applied[p])
      /\ UNCHANGED <<applied, executed, overlapped>>
  BY DEF Record
<1>2. /\ MigrationsTypeOK /\ script[p] \in Migration /\ script[p] \in 0 .. Migrations
      /\ applied[p] \subseteq recorded
      /\ \A k \in 1 .. script[p] - 1 : k \in recorded
      /\ \A s \in 1 .. Statements : <<script[p], s>> \in executed
  BY <1>1 DEF MigrationsInv, Knows, Midway, Migration
<1>3. /\ mstage' \in [Migrator -> {"idle", "reading", "executing", "recording"}]
      /\ script' \in [Migrator -> 0 .. Migrations]
      /\ statement' \in [Migrator -> 1 .. Statements]
      /\ \A q \in Migrator \ {p} : /\ mstage'[q] = mstage[q] /\ script'[q] = script[q]
                                   /\ statement'[q] = statement[q]
      /\ \/ mstage'[p] = "idle"
         \/ /\ mstage'[p] = "executing" /\ statement'[p] = 1
            /\ script'[p] \in script[p] + 1 .. Migrations /\ script'[p] \notin applied[p]
            /\ \A k \in script[p] + 1 .. script'[p] - 1 : k \in applied[p]
  BY <1>1, <1>2, ProceedLands
<1>4. MigrationsTypeOK'
  BY <1>1, <1>2, <1>3 DEF MigrationsTypeOK
<1>5. \A q \in Migrator : Knows(q)'
  <2>1. ASSUME NEW q \in Migrator \ {p} PROVE Knows(q)'
    BY <1>1, <1>3, <2>1 DEF MigrationsInv, Knows, Midway
  <2>2. Knows(p)'
    <3>1. ASSUME mstage'[p] = "executing", NEW k \in 1 .. script'[p] - 1
          PROVE  k \in recorded'
      BY <1>1, <1>2, <1>3, <3>1 DEF Migration
    <3> QED
      BY <1>1, <1>2, <1>3, <3>1 DEF Knows, Midway, Migration
  <2> QED
    BY <2>1, <2>2
<1>6. Ordered'
  BY <1>1, <1>2 DEF MigrationsInv, Ordered
<1>7. Alone'
  <2>1. SUFFICES ASSUME ~overlapped' PROVE Alone'
    BY DEF Alone
  <2>2. /\ \A q \in Migrator \ {p} : ~Busy(q) /\ ~Busy(q)'
        /\ recorded \subseteq applied[p] \cup 1 .. script[p] - 1
    BY <1>1, <1>3, <2>1 DEF MigrationsInv, Alone, Busy, Midway
  <2>3. recorded' \subseteq applied[p] \cup 1 .. script[p]
    BY <1>1, <1>2, <2>2 DEF Migration
  <2>4. Midway(p)' => recorded' \subseteq applied'[p] \cup 1 .. script'[p] - 1
    <3>1. CASE mstage'[p] = "idle"
      BY <3>1 DEF Midway
    <3>2. CASE script'[p] \in script[p] + 1 .. Migrations
      BY <1>1, <1>2, <2>3, <3>2 DEF Migration
    <3> QED
      BY <1>3, <3>1, <3>2
  <2> QED
    BY <2>2, <2>4 DEF Alone, Busy, Midway
<1> QED
  BY <1>4, <1>5, <1>6, <1>7 DEF MigrationsInv

LEMMA AbortKeeps ==
    ASSUME MigrationsInv, NEW p \in Migrator, Abort(p) PROVE MigrationsInv'
<1>1. /\ mstage' = [mstage EXCEPT ![p] = "idle"]
      /\ UNCHANGED <<applied, script, statement, recorded, executed, overlapped>>
  BY DEF Abort
<1>2. mstage \in [Migrator -> {"idle", "reading", "executing", "recording"}]
  BY DEF MigrationsInv, MigrationsTypeOK
<1>3. MigrationsTypeOK'
  BY <1>1, <1>2 DEF MigrationsInv, MigrationsTypeOK
<1>4. \A q \in Migrator : mstage'[q] = IF q = p THEN "idle" ELSE mstage[q]
  BY <1>1, <1>2
<1>5. \A q \in Migrator : Knows(q)'
  BY <1>1, <1>4 DEF MigrationsInv, Knows, Midway
<1>6. Ordered' /\ Alone'
  BY <1>1, <1>4 DEF MigrationsInv, Ordered, Alone, Busy, Midway
<1> QED
  BY <1>3, <1>5, <1>6 DEF MigrationsInv

LEMMA MigrationsInvStep == MigrationsInv /\ [MigrationsNext]_migrationVars => MigrationsInv'
<1>1. CASE UNCHANGED migrationVars
  BY <1>1 DEF migrationVars, MigrationsInv, MigrationsTypeOK, Knows, Ordered, Alone, Busy, Midway
<1> QED
  BY <1>1, MigrateKeeps, ReadKeeps, ExecuteKeeps, RecordKeeps, AbortKeeps DEF MigrationsNext

\* Whatever number of processes migrate at once, and wherever they fail: a
\* recorded migration was executed to its end and after all the earlier ones were
\* recorded, and without overlap it is not executed again.
THEOREM MigrationsStayInOrder == MigrationsSpec => []MigrationsInOrder
<1>1. MigrationsInit => MigrationsInv
  BY MigrationsInvInit
<1>2. MigrationsInv /\ [MigrationsNext]_migrationVars => MigrationsInv'
  BY MigrationsInvStep
<1>3. MigrationsInv => MigrationsInOrder
  <2> SUFFICES ASSUME MigrationsInv PROVE MigrationsInOrder
    OBVIOUS
  <2>1. ASSUME ~overlapped, NEW p \in Migrator, mstage[p] = "executing"
        PROVE  script[p] \notin recorded
    <3>1. recorded \subseteq applied[p] \cup 1 .. script[p] - 1
      BY <2>1 DEF MigrationsInv, Alone, Midway
    <3>2. script[p] \in Migration /\ script[p] \notin applied[p]
      BY <2>1 DEF MigrationsInv, Knows, Midway
    <3> QED
      BY <3>1, <3>2, MigrationsAssumption DEF Migration
  <2> QED
    BY <2>1 DEF MigrationsInv, Ordered, MigrationsInOrder
<1> QED
  BY <1>1, <1>2, <1>3, PTL DEF MigrationsSpec

-----------------------------------------------------------------------------
(* Downloads *)

\* As long as nothing was flawed, one call is under way at most; its descriptor is
\* open only while it copies, into a temporary file that it has emptied itself,
\* and what it is about to put in place of the destination is whole.
DownloadInv ==
    /\ stage \in [Downloader -> {"idle", "asking", "copying", "replacing", "sleeping"}]
    /\ out \in [Downloader -> {"closed", "tmp", "main", "gone"}]
    /\ DOMAIN found = Downloader
    /\ flawed \in BOOLEAN
    /\ ~flawed =>
         /\ dest \in {"old", "whole"}
         /\ \A d \in Downloader :
              /\ ~At(d, "idle") => dest = found[d]
              /\ At(d, "copying") => out[d] = "tmp" /\ tmp = "torn"
              /\ ~At(d, "copying") => out[d] = "closed"
              /\ At(d, "replacing") => tmp = "whole"
         /\ \A d, e \in Downloader : At(d, "idle") \/ At(e, "idle") \/ d = e

LEMMA DownloadInvInit == DownloadInit => DownloadInv
  BY DEF DownloadInit, DownloadInv, Files!FilesInit, At

\* A step that leaves the stages of the other processes alone.
LEMMA OthersStay ==
    ASSUME DownloadInv, NEW d \in Downloader,
           NEW s \in {"idle", "asking", "copying", "replacing", "sleeping"}, To(d, s)
    PROVE  /\ stage' \in [Downloader -> {"idle", "asking", "copying", "replacing", "sleeping"}]
           /\ stage'[d] = s
           /\ \A e \in Downloader \ {d} : stage'[e] = stage[e]
  BY DEF DownloadInv, To

\* The writer stops: its descriptor is closed, and nobody else's file changes.
LEMMA CutOffKeeps ==
    ASSUME DownloadInv, NEW d \in Downloader, ~At(d, "idle"), Files!CutOff(d),
           NEW s \in {"idle", "sleeping"}, To(d, s), UNCHANGED <<found, flawed>>
    PROVE  DownloadInv'
<1>1. /\ out' = [out EXCEPT ![d] = "closed"]
      /\ dest' = IF out[d] = "main" THEN "torn" ELSE dest
      /\ tmp' = IF out[d] = "tmp" THEN "torn" ELSE tmp
  BY DEF Files!CutOff
<1>2. ~flawed => dest' = dest
  BY <1>1 DEF DownloadInv
<1> QED
  BY <1>1, <1>2, OthersStay DEF DownloadInv, At

LEMMA DownloadInvStep == DownloadInv /\ [DownloadNext]_downloadVars => DownloadInv'
<1> SUFFICES ASSUME DownloadInv, [DownloadNext]_downloadVars PROVE DownloadInv'
  OBVIOUS
<1>1. ASSUME NEW d \in Downloader, Download(d) PROVE DownloadInv'
  <2>1. /\ To(d, "asking")
        /\ found' = [found EXCEPT ![d] = dest]
        /\ flawed' = (flawed \/ \E e \in Downloader : ~At(e, "idle"))
        /\ UNCHANGED <<dest, tmp, out>>
    BY <1>1 DEF Download
  <2>2. flawed' \in BOOLEAN /\ DOMAIN found' = Downloader /\ found'[d] = dest
    BY <2>1 DEF DownloadInv
  <2>3. ~flawed' => ~flawed /\ \A e \in Downloader : At(e, "idle")
    BY <2>1 DEF DownloadInv
  <2> QED
    BY <2>1, <2>2, <2>3, OthersStay DEF DownloadInv, At
<1>2. ASSUME NEW d \in Downloader, Responds(d) PROVE DownloadInv'
  <2>1. /\ To(d, "copying") /\ At(d, "asking")
        /\ tmp' = "torn" /\ out' = [out EXCEPT ![d] = "tmp"]
        /\ UNCHANGED <<dest, found, flawed>>
    BY <1>2 DEF Responds, Files!TruncateTmp
  <2> QED
    BY <2>1, OthersStay DEF DownloadInv, At
<1>3. ASSUME NEW d \in Downloader, Copies(d) PROVE DownloadInv'
  <2>1. PICK body \in {"whole", "short"} :
          Files!WriteText(d, body) /\ flawed' = (flawed \/ body = "short")
    BY <1>3 DEF Copies
  <2>2. /\ To(d, "replacing") /\ At(d, "copying")
        /\ found' = found
        /\ out' = [out EXCEPT ![d] = "closed"]
    BY <1>3, <2>1 DEF Copies, Files!WriteText
  <2>3. flawed' \in BOOLEAN /\ (~flawed' => ~flawed /\ body = "whole")
    BY <2>1 DEF DownloadInv
  <2>4. ~flawed' => dest' = dest /\ tmp' = "whole"
    <3> SUFFICES ASSUME ~flawed' PROVE dest' = dest /\ tmp' = "whole"
      OBVIOUS
    <3>1. out[d] = "tmp" /\ tmp = "torn"
      BY <2>2, <2>3 DEF DownloadInv
    <3> QED
      BY <2>1, <2>3, <3>1 DEF Files!WriteText, Files!Overwritten
  <2> QED
    BY <2>2, <2>3, <2>4, OthersStay DEF DownloadInv, At
<1>4. ASSUME NEW d \in Downloader, Fails(d) PROVE DownloadInv'
  <2>1. /\ ~At(d, "idle") /\ Files!CutOff(d) /\ UNCHANGED <<found, flawed>>
        /\ To(d, "sleeping") \/ To(d, "idle")
    BY <1>4 DEF Fails, At
  <2> QED
    BY <2>1, CutOffKeeps
<1>5. ASSUME NEW d \in Downloader, Wakes(d) PROVE DownloadInv'
  <2>1. To(d, "asking") /\ At(d, "sleeping") /\ UNCHANGED <<dest, tmp, out, found, flawed>>
    BY <1>5 DEF Wakes
  <2> QED
    BY <2>1, OthersStay DEF DownloadInv, At
<1>6. ASSUME NEW d \in Downloader, Saves(d) PROVE DownloadInv'
  <2>1. /\ To(d, "idle") /\ At(d, "replacing") /\ UNCHANGED <<found, flawed>>
        /\ dest' = tmp
        /\ out' = [e \in Downloader |-> CASE out[e] = "tmp"  -> "main"
                                          [] out[e] = "main" -> "gone"
                                          [] OTHER -> out[e]]
    BY <1>6 DEF Saves, Files!RenameTmp
  <2>2. \A e \in Downloader : out[e] = "closed" => out'[e] = "closed"
    BY <2>1, Zenon
  <2>3. out' \in [Downloader -> {"closed", "tmp", "main", "gone"}]
    <3>1. ASSUME NEW e \in Downloader PROVE out'[e] \in {"closed", "tmp", "main", "gone"}
      <4>1. out[e] \in {"closed", "tmp", "main", "gone"}
        BY DEF DownloadInv
      <4>2. out'[e] \in {"main", "gone", out[e]}
        BY <2>1, Zenon
      <4> QED
        BY <4>1, <4>2
    <3> QED
      BY <2>1, <3>1
  <2>4. ~flawed => /\ tmp = "whole"
                   /\ \A e \in Downloader : out[e] = "closed"
                   /\ \A e \in Downloader \ {d} : At(e, "idle")
    BY <2>1 DEF DownloadInv, At
  <2> QED
    BY <2>1, <2>2, <2>3, <2>4, OthersStay DEF DownloadInv, At
<1>7. ASSUME NEW d \in Downloader, Aborts(d) PROVE DownloadInv'
  BY <1>7, CutOffKeeps DEF Aborts
<1>8. CASE UNCHANGED downloadVars
  BY <1>8 DEF DownloadInv, downloadVars, At
<1> QED
  BY <1>1, <1>2, <1>3, <1>4, <1>5, <1>6, <1>7, <1>8 DEF DownloadNext

\* For any number of processes and retries, failures and kills anywhere: the
\* destination is whole, and as it was before a call until the call returns.
THEOREM DestinationStaysWhole == DownloadSpec => []DownloadsWhole
<1>1. DownloadInv => DownloadsWhole
  BY DEF DownloadInv, DownloadsWhole
<1>2. DownloadSpec => []DownloadInv
  BY DownloadInvInit, DownloadInvStep, PTL DEF DownloadSpec
<1> QED
  BY <1>1, <1>2, PTL

-----------------------------------------------------------------------------
(* Retries *)

\* 2^(n + 1) is twice 2^n: of the subsets of 1 .. n + 1, those with n + 1 are as
\* many as those without.
LEMMA PowerDoubles == ASSUME NEW n \in Nat PROVE 2^(n + 1) = 2 * 2^n /\ 2^n \in Nat
<1> DEFINE S == 1 .. n
           U == 1 .. n + 1
           A == SUBSET S
           B == {T \in SUBSET U : n + 1 \in T}
           f == [T \in A |-> T \cup {n + 1}]
<1>0. U = S \cup {n + 1} /\ n + 1 \notin S
  OBVIOUS
<1>1. /\ IsFiniteSet(S) /\ Cardinality(S) = n
      /\ IsFiniteSet(U) /\ Cardinality(U) = n + 1
  BY FS_Interval
<1>2. /\ IsFiniteSet(A) /\ Cardinality(A) = 2^n
      /\ IsFiniteSet(SUBSET U) /\ Cardinality(SUBSET U) = 2^(n + 1)
  BY <1>1, FS_SUBSET
<1>3. f \in Bijection(A, B)
  <2> HIDE DEF S, U
  <2>1. f \in [A -> B]
    BY <1>0
  <2>2. ASSUME NEW T1 \in A, NEW T2 \in A, f[T1] = f[T2] PROVE T1 = T2
    <3>1. T1 \cup {n + 1} = T2 \cup {n + 1} /\ n + 1 \notin T1 /\ n + 1 \notin T2
      BY <1>0, <2>2
    <3> QED
      BY <3>1
  <2>3. ASSUME NEW T \in B PROVE \E T1 \in A : f[T1] = T
    <3>1. T \ {n + 1} \in A /\ f[T \ {n + 1}] = T
      BY <1>0
    <3> QED
      BY <3>1
  <2> QED
    BY <2>1, <2>2, <2>3 DEF Bijection, Injection, Surjection, IsInjective
<1>4. IsFiniteSet(B) /\ Cardinality(B) = Cardinality(A)
  BY <1>2, <1>3, FS_Bijection DEF ExistsBijection
<1>5. A \cap B = {} /\ A \cup B = SUBSET U
  <2> HIDE DEF S, U
  <2> QED
    BY <1>0
<1>6. Cardinality(SUBSET U) = Cardinality(A) + Cardinality(B) - 0
  <2> HIDE DEF A, B
  <2>1. Cardinality(A \cup B) = Cardinality(A) + Cardinality(B) - Cardinality(A \cap B)
    BY <1>2, <1>4, FS_Union
  <2> QED
    BY <1>5, <2>1, FS_EmptySet
<1>7. Cardinality(A) \in Nat
  BY <1>2, FS_CardinalityType
<1> QED
  BY <1>2, <1>4, <1>6, <1>7

\* The wait after the i-th error, and whether that error deserved it.
Waited(i, e, w) ==
    IsTransient(e) /\ w - Smaller(BaseDelay * 2^(i - 1), MaxDelay) \in 0 .. 1

\* Every error so far but the last of a call that raised has had its wait, and the
\* delay is the one for the next.
RetryInv ==
    /\ phase \in {"idle", "calling", "sleeping"}
    /\ errors \in Seq(Error) /\ waits \in Seq(Nat)
    /\ Len(waits) <= Len(errors) /\ Len(errors) <= Attempts
    /\ \A i \in 1 .. Len(waits) : Waited(i, errors[i], waits[i])
    /\ phase # "idle" => /\ Len(waits) = Len(errors) /\ Len(errors) < Attempts
                         /\ delay = BaseDelay * 2^Len(waits)
    /\ Len(waits) < Len(errors) =>
         /\ result = "raised"
         /\ Len(errors) = Attempts \/ ~IsTransient(errors[Len(errors)])

LEMMA RetryInvInit == RetryInit => RetryInv
  BY RetryAssumption DEF RetryInit, RetryInv

\* The exception is the last one, or the wait for its position follows.
LEMMA RaisesKeeps == RetryInv /\ Raises => RetryInv'
<1> SUFFICES ASSUME RetryInv, Raises PROVE RetryInv'
  OBVIOUS
<1>1. PICK e \in Error :
        /\ errors' = Append(errors, e)
        /\ \/ LastAttempt(Len(errors'), e) /\ Ends("raised")
           \/ /\ ~LastAttempt(Len(errors'), e)
              /\ \E jitter \in 0 .. 1 :
                   waits' = Append(waits, Smaller(delay, MaxDelay) + jitter)
              /\ delay' = delay * 2
              /\ phase' = "sleeping"
              /\ UNCHANGED result
  BY DEF Raises
<1>2. /\ errors \in Seq(Error) /\ waits \in Seq(Nat)
      /\ Len(waits) = Len(errors) /\ Len(errors) < Attempts /\ Len(errors) \in Nat
      /\ delay = BaseDelay * 2^Len(waits)
  BY DEF RetryInv, Raises
<1>3. /\ errors' \in Seq(Error) /\ Len(errors') = Len(errors) + 1
      /\ errors'[Len(errors')] = e
      /\ \A i \in 1 .. Len(errors) : errors'[i] = errors[i]
  BY <1>1, <1>2
<1>4. Len(errors') <= Attempts
  BY <1>2, <1>3, RetryAssumption
<1>5. CASE LastAttempt(Len(errors'), e) /\ Ends("raised")
  <2>1. phase' = "idle" /\ result' = "raised" /\ waits' = waits
    BY <1>5 DEF Ends
  <2>2. Len(errors') = Attempts \/ ~IsTransient(errors'[Len(errors')])
    BY <1>3, <1>5 DEF LastAttempt
  <2>3. \A i \in 1 .. Len(waits') : Waited(i, errors'[i], waits'[i])
    BY <1>2, <1>3, <2>1 DEF RetryInv
  <2> QED
    BY <1>2, <1>3, <1>4, <2>1, <2>2, <2>3 DEF RetryInv
<1>6. CASE /\ ~LastAttempt(Len(errors'), e)
           /\ \E jitter \in 0 .. 1 :
                waits' = Append(waits, Smaller(delay, MaxDelay) + jitter)
           /\ delay' = delay * 2
           /\ phase' = "sleeping"
  <2>1. PICK jitter \in 0 .. 1 : waits' = Append(waits, Smaller(delay, MaxDelay) + jitter)
    BY <1>6
  <2>2. 2^(Len(waits) + 1) = 2 * 2^Len(waits) /\ 2^Len(waits) \in Nat
    BY <1>2, PowerDoubles
  <2>3. delay \in Nat
    BY <1>2, <2>2, RetryAssumption
  <2>4. Smaller(delay, MaxDelay) \in Nat
    BY <2>3, RetryAssumption DEF Smaller
  <2>5. /\ waits' \in Seq(Nat) /\ Len(waits') = Len(waits) + 1
        /\ waits'[Len(waits')] = Smaller(delay, MaxDelay) + jitter
        /\ \A i \in 1 .. Len(waits) : waits'[i] = waits[i]
    BY <1>2, <2>1, <2>4
  <2>6. delay' = BaseDelay * 2^Len(waits')
    <3>1. delay' = (BaseDelay * 2^Len(waits)) * 2
      BY <1>2, <1>6
    <3> HIDE <1>2
    <3>2. \A b, x \in Nat : (b * x) * 2 = b * (2 * x)
      OBVIOUS
    <3> QED
      BY <2>2, <2>5, <3>1, <3>2, RetryAssumption
  <2>7. Len(errors') < Attempts /\ IsTransient(e)
    <3>1. Len(errors') # Attempts /\ IsTransient(e)
      BY <1>6, Zenon DEF LastAttempt
    <3> QED
      BY <1>2, <1>3, <1>4, <3>1, RetryAssumption
  <2>8. ASSUME NEW i \in 1 .. Len(waits') PROVE Waited(i, errors'[i], waits'[i])
    <3>1. CASE i \in 1 .. Len(waits)
      BY <1>2, <1>3, <2>5, <3>1 DEF RetryInv
    <3>2. CASE i = Len(waits')
      <4>1. i - 1 = Len(waits) /\ i = Len(errors')
        BY <1>2, <1>3, <2>5, <3>2
      <4>2. waits'[i] - Smaller(BaseDelay * 2^(i - 1), MaxDelay) = jitter
        BY <1>2, <2>4, <2>5, <3>2, <4>1
      <4> QED
        BY <1>3, <2>7, <4>1, <4>2 DEF Waited
    <3> QED
      BY <1>2, <2>5, <3>1, <3>2
  <2> QED
    BY <1>2, <1>3, <1>4, <1>6, <2>5, <2>6, <2>7, <2>8 DEF RetryInv
<1> QED
  BY <1>1, <1>5, <1>6

LEMMA RetryInvStep == RetryInv /\ [RetryNext]_retryVars => RetryInv'
<1> SUFFICES ASSUME RetryInv, [RetryNext]_retryVars PROVE RetryInv'
  OBVIOUS
<1>1. CASE CallWrapper
  BY <1>1, RetryAssumption DEF RetryInv, CallWrapper
<1>2. CASE Returns
  BY <1>2 DEF RetryInv, Returns, Ends
<1>3. CASE Raises
  BY <1>3, RaisesKeeps
<1>4. CASE Wake
  BY <1>4 DEF RetryInv, Wake
<1>5. CASE Cancel
  BY <1>5 DEF RetryInv, Cancel, Ends
<1>6. CASE UNCHANGED retryVars
  BY <1>6 DEF RetryInv, retryVars
<1> QED
  BY <1>1, <1>2, <1>3, <1>4, <1>5, <1>6 DEF RetryNext

\* For any number of attempts, delays and kinds of errors, and cancellation anywhere:
\* the budget, the waits and the reason to give up are those of the policy.
THEOREM RetriesWithinBudget == RetrySpec => []RetryBudget
<1>1. RetryInv => RetryBudget
  BY DEF RetryInv, RetryBudget, Waited, IsTransient
<1>2. RetrySpec => []RetryInv
  BY RetryInvInit, RetryInvStep, PTL DEF RetrySpec
<1> QED
  BY <1>1, <1>2, PTL

-----------------------------------------------------------------------------
(* The event log *)

Portion == {"line", "head", "rest", "part", "record", "unended"}

\* The file holds writes of events that were handed over and not refused, and at
\* least one write of every event that was acknowledged.
EventLogInv ==
    /\ text \in Seq([event : Event, what : Portion])
    /\ writing \in [Emitter -> Event \cup {Idle}]
    /\ \A k \in DOMAIN text : text[k].event \in tried \ Invalid
    /\ \A p \in Emitter : writing[p] # Idle => writing[p] \in tried \ Invalid
    /\ \A e \in emitted : \E k \in DOMAIN text : text[k].event = e

LEMMA EventLogInvInit == EventLogInit => EventLogInv
  BY DEF EventLogInit, EventLogInv, Idle

\* A write of an event that was handed over and not refused adds one piece.
LEMMA WriteAdds ==
    ASSUME EventLogInv, NEW e \in Event, NEW what \in Portion, Write(e, what),
           tried \subseteq tried', e \in tried', e \notin Invalid
    PROVE  /\ text' \in Seq([event : Event, what : Portion])
           /\ \A k \in DOMAIN text' : text'[k].event \in tried' \ Invalid
           /\ \E k \in DOMAIN text' : text'[k].event = e
           /\ \A k \in DOMAIN text : k \in DOMAIN text' /\ text'[k] = text[k]
<1>1. /\ text \in Seq([event : Event, what : Portion])
      /\ \A k \in DOMAIN text : text[k].event \in tried' \ Invalid
  BY DEF EventLogInv
<1>2. /\ text' = Append(text, Piece(e, what))
      /\ Piece(e, what) \in [event : Event, what : Portion]
      /\ Piece(e, what).event = e
  BY DEF Write, Piece
<1>3. /\ DOMAIN text' = 1 .. Len(text) + 1
      /\ DOMAIN text = 1 .. Len(text)
      /\ Len(text) \in Nat
      /\ text'[Len(text) + 1] = Piece(e, what)
      /\ \A k \in DOMAIN text : text'[k] = text[k]
      /\ text' \in Seq([event : Event, what : Portion])
  BY <1>1, <1>2
<1> QED
  BY <1>1, <1>2, <1>3

\* What was acknowledged stays in the file when the file grows.
LEMMA AcknowledgedStay ==
    ASSUME EventLogInv, \A k \in DOMAIN text : k \in DOMAIN text' /\ text'[k] = text[k]
    PROVE  \A e \in emitted : \E k \in DOMAIN text' : text'[k].event = e
<1> SUFFICES ASSUME NEW e \in emitted PROVE \E k \in DOMAIN text' : text'[k].event = e
  OBVIOUS
<1>1. PICK k \in DOMAIN text : text[k].event = e
  BY DEF EventLogInv
<1> QED
  BY <1>1

LEMMA EventLogInvStep == EventLogInv /\ [EventLogNext]_eventVars => EventLogInv'
<1> SUFFICES ASSUME EventLogInv, [EventLogNext]_eventVars PROVE EventLogInv'
  OBVIOUS
<1> USE DEF New, Portion
<1>1. ASSUME NEW p \in Emitter, NEW e \in Event, Refuse(p, e) PROVE EventLogInv'
  BY <1>1 DEF EventLogInv, Refuse
<1>2. ASSUME NEW p \in Emitter, NEW e \in Event, Emit(p, e) PROVE EventLogInv'
  <2>1. /\ Write(e, "line") /\ tried' = tried \cup {e} /\ e \notin Invalid /\ tried \subseteq tried'
        /\ e \in tried' /\ emitted' = emitted \cup {e} /\ writing' = writing
    BY <1>2 DEF Emit
  <2>2. /\ text' \in Seq([event : Event, what : Portion])
        /\ \A k \in DOMAIN text' : text'[k].event \in tried' \ Invalid
        /\ \E k \in DOMAIN text' : text'[k].event = e
        /\ \A k \in DOMAIN text : k \in DOMAIN text' /\ text'[k] = text[k]
    BY <2>1, WriteAdds
  <2> QED
    BY <2>1, <2>2, AcknowledgedStay DEF EventLogInv
<1>3. ASSUME NEW p \in Emitter, NEW e \in Event, EmitHead(p, e) PROVE EventLogInv'
  <2>1. /\ Write(e, "head") /\ tried' = tried \cup {e} /\ e \notin Invalid /\ tried \subseteq tried'
        /\ e \in tried' /\ emitted' = emitted /\ writing' = [writing EXCEPT ![p] = e]
    BY <1>3 DEF EmitHead
  <2>2. /\ text' \in Seq([event : Event, what : Portion])
        /\ \A k \in DOMAIN text' : text'[k].event \in tried' \ Invalid
        /\ \A k \in DOMAIN text : k \in DOMAIN text' /\ text'[k] = text[k]
    BY <2>1, WriteAdds
  <2> QED
    BY <2>1, <2>2, AcknowledgedStay DEF EventLogInv
<1>4. ASSUME NEW p \in Emitter, EmitRest(p) PROVE EventLogInv'
  <2>1. /\ Write(writing[p], "rest") /\ tried' = tried
        /\ writing[p] \in Event /\ writing[p] \in tried \ Invalid
        /\ emitted' = emitted \cup {writing[p]} /\ writing' = [writing EXCEPT ![p] = Idle]
    BY <1>4 DEF EmitRest, EventLogInv
  <2>2. /\ text' \in Seq([event : Event, what : Portion])
        /\ \A k \in DOMAIN text' : text'[k].event \in tried' \ Invalid
        /\ \E k \in DOMAIN text' : text'[k].event = writing[p]
        /\ \A k \in DOMAIN text : k \in DOMAIN text' /\ text'[k] = text[k]
    BY <2>1, WriteAdds
  <2> QED
    BY <2>1, <2>2, AcknowledgedStay DEF EventLogInv
<1>5. ASSUME NEW p \in Emitter, NEW e \in Event, EmitCutShort(p, e) PROVE EventLogInv'
  <2>1. /\ tried' = tried \cup {e} /\ e \notin Invalid /\ emitted' = emitted /\ writing' = writing
        /\ text' = text \/ Write(e, "part") \/ Write(e, "record")
    BY <1>5 DEF EmitCutShort
  <2>2. /\ text' \in Seq([event : Event, what : Portion])
        /\ \A k \in DOMAIN text' : text'[k].event \in tried' \ Invalid
        /\ \A k \in DOMAIN text : k \in DOMAIN text' /\ text'[k] = text[k]
    <3>1. CASE text' = text
      BY <2>1, <3>1 DEF EventLogInv
    <3> QED
      BY <2>1, <3>1, WriteAdds
  <2> QED
    BY <2>1, <2>2, AcknowledgedStay DEF EventLogInv
<1>6. ASSUME NEW p \in Emitter, RestCutShort(p) PROVE EventLogInv'
  <2>1. /\ text' = text \/ Write(writing[p], "part") \/ Write(writing[p], "unended")
        /\ tried' = tried /\ emitted' = emitted
        /\ writing[p] \in Event /\ writing[p] \in tried \ Invalid
        /\ writing' = [writing EXCEPT ![p] = Idle]
    BY <1>6 DEF RestCutShort, EventLogInv
  <2>2. /\ text' \in Seq([event : Event, what : Portion])
        /\ \A k \in DOMAIN text' : text'[k].event \in tried' \ Invalid
        /\ \A k \in DOMAIN text : k \in DOMAIN text' /\ text'[k] = text[k]
    <3>1. CASE text' = text
      BY <2>1, <3>1 DEF EventLogInv
    <3> QED
      BY <2>1, <3>1, WriteAdds
  <2> QED
    BY <2>1, <2>2, AcknowledgedStay DEF EventLogInv
<1>7. CASE UNCHANGED eventVars
  BY <1>7 DEF EventLogInv, eventVars
<1> QED
  BY <1>1, <1>2, <1>3, <1>4, <1>5, <1>6, <1>7 DEF EventLogNext

\* A write that is in a file that can be read is part of a record that is read, and
\* both of its ends are about the same event.
LEMMA ReadableFileYieldsAll ==
    ASSUME EventLogInv, Readable, NEW k \in DOMAIN text
    PROVE  text[k].event \in EventsRead
<1>1. PICK i, j \in {k - 1, k, k + 1} \cap DOMAIN text :
         i <= k /\ k <= j /\ MakeRecord(i, j)
  BY DEF Readable
<1>2. /\ text[i].event = text[j].event
      /\ i = j \/ i + 1 = j
  BY <1>1 DEF MakeRecord
<1>3. DOMAIN text = 1 .. Len(text) /\ Len(text) \in Nat
  BY DEF EventLogInv
<1>4. i \in DOMAIN text /\ j \in {i, i + 1} \cap DOMAIN text /\ (k = i \/ k = j)
  BY <1>1, <1>2, <1>3
<1>5. text[i].event \in EventsRead
  BY <1>1, <1>4 DEF EventsRead
<1> QED
  BY <1>2, <1>4, <1>5

\* For any number of processes, events, long and invalid ones and separators: a
\* log that can be read holds every acknowledged event and no refused one,
\* however writes mix and are cut short.
THEOREM EventsKeptOrLoud == EventLogSpec => []EventsCompleteOrLoud
<1>1. EventLogInv => EventsCompleteOrLoud
  <2> SUFFICES ASSUME EventLogInv, Readable
               PROVE  emitted \subseteq EventsRead /\ EventsRead \subseteq tried \ Invalid
    BY DEF EventsCompleteOrLoud
  <2>1. ASSUME NEW e \in emitted PROVE e \in EventsRead
    <3>1. PICK k \in DOMAIN text : text[k].event = e
      BY DEF EventLogInv
    <3> QED
      BY <3>1, ReadableFileYieldsAll
  <2>2. EventsRead \subseteq tried \ Invalid
    BY DEF EventsRead, EventLogInv
  <2> QED
    BY <2>1, <2>2
<1>2. EventLogSpec => []EventLogInv
  BY EventLogInvInit, EventLogInvStep, PTL DEF EventLogSpec
<1> QED
  BY <1>1, <1>2, PTL
===============================================================================
