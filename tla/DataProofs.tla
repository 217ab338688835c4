----------------------------- MODULE DataProofs -----------------------------
(***************************************************************************)
(* What the data package promises, part by part.                           *)
(*                                                                         *)
(* The JSONL store keeps what it has acknowledged, or says that it cannot  *)
(* be read, for every set of records and every sequence of appends that    *)
(* succeed, fail or are cut short.  What makes it true is that a line that *)
(* has its newline never changes again: an acknowledged line holds its     *)
(* record for ever, or was garbage from the start because it continued the *)
(* remains of an earlier write.                                            *)
(*                                                                         *)
(* The archive of collections above it: every step of the archive is one   *)
(* of the store, so the theorems about the store hold of it; and an        *)
(* archive that can be read is a lawful history, because append adds an    *)
(* accepted envelope to it or nothing.                                     *)
(*                                                                         *)
(* The arithmetic of the other parts: the scorecard of a source, fused     *)
(* candles and the adjustment of prices for splits, for any numbers of     *)
(* points, candles and days.                                               *)
(***************************************************************************)
EXTENDS CollectionArchive, SourceQuality, Fusion, SplitAdjustment, SetLemmas

-----------------------------------------------------------------------------
(* The store *)

Line == Record \cup {Garbage}

StoreInv ==
    /\ StoreTypeOK
    /\ \A a \in acked : a.at \in DOMAIN file.lines /\ file.lines[a.at] \in {a.rec, Garbage}

\* The text after an append, complete or cut short.
LEMMA WrittenLines ==
    ASSUME StoreTypeOK, NEW r \in Record
    PROVE  /\ Written(file, r).lines \in Seq(Line)
           /\ Len(Written(file, r).lines) = Len(file.lines) + 1
           /\ \A i \in DOMAIN file.lines : Written(file, r).lines[i] = file.lines[i]
           /\ Written(file, r).lines[Len(file.lines) + 1] \in {r, Garbage}
           /\ Written(file, r).tail = Nothing
  BY DEF StoreTypeOK, Written, Line

LEMMA CutShortLines ==
    ASSUME StoreTypeOK, NEW r \in Record, file' \in CutShort(file, r)
    PROVE  /\ file'.lines \in Seq(Line)
           /\ file'.tail \in Record \cup {Nothing, Partial}
           /\ Len(file.lines) <= Len(file'.lines)
           /\ \A i \in DOMAIN file.lines : file'.lines[i] = file.lines[i]
<1>1. CASE file' = Written(file, r)
  BY <1>1, WrittenLines DEF StoreTypeOK
<1>2. CASE file'.lines = file.lines /\ file'.tail \in Record \cup {Nothing, Partial}
  BY <1>2 DEF StoreTypeOK, Line
<1>3. \/ file' = Written(file, r)
      \/ file'.lines = file.lines /\ file'.tail \in Record \cup {Nothing, Partial}
  BY DEF CutShort, StoreTypeOK
<1> QED
  BY <1>1, <1>2, <1>3

\* Every append, complete or cut short, leaves the lines that were there alone.
LEMMA LinesStay ==
    ASSUME StoreTypeOK, [StoreNext]_storeVars
    PROVE  /\ file' \in [lines : Seq(Line), tail : Record \cup {Nothing, Partial}]
           /\ Len(file.lines) <= Len(file'.lines)
           /\ \A i \in DOMAIN file.lines : file'.lines[i] = file.lines[i]
<1>1. ASSUME NEW r \in Record, AppendRecord(r)
      PROVE  /\ file' \in [lines : Seq(Line), tail : Record \cup {Nothing, Partial}]
             /\ Len(file.lines) <= Len(file'.lines)
             /\ \A i \in DOMAIN file.lines : file'.lines[i] = file.lines[i]
  <2>1. file' = Written(file, r)
    BY <1>1 DEF AppendRecord
  <2>2. file' = [lines |-> file'.lines, tail |-> Nothing]
    BY <2>1 DEF Written
  <2> QED
    BY <2>1, <2>2, WrittenLines DEF StoreTypeOK
<1>2. ASSUME NEW r \in Record, AppendCutShort(r)
      PROVE  /\ file' \in [lines : Seq(Line), tail : Record \cup {Nothing, Partial}]
             /\ Len(file.lines) <= Len(file'.lines)
             /\ \A i \in DOMAIN file.lines : file'.lines[i] = file.lines[i]
  <2>1. file' \in CutShort(file, r)
    BY <1>2 DEF AppendCutShort
  <2>2. file' = [lines |-> file'.lines, tail |-> file'.tail]
    BY <2>1 DEF CutShort, Written, StoreTypeOK
  <2> QED
    BY <2>1, <2>2, CutShortLines
<1>3. CASE UNCHANGED storeVars
  BY <1>3 DEF storeVars, StoreTypeOK, Line
<1> QED
  BY <1>1, <1>2, <1>3 DEF StoreNext

LEMMA StoreInvInit == StoreInit => StoreInv
  BY DEF StoreInit, StoreInv, StoreTypeOK, EmptyFile

LEMMA StoreInvStep == StoreInv /\ [StoreNext]_storeVars => StoreInv'
<1> SUFFICES ASSUME StoreInv, [StoreNext]_storeVars PROVE StoreInv'
  OBVIOUS
<1>1. StoreTypeOK
  BY DEF StoreInv
<1>2. ASSUME NEW r \in Record, AppendRecord(r) PROVE StoreInv'
  <2>1. /\ file' = Written(file, r)
        /\ acked' = acked \cup {[rec |-> r, at |-> Len(file'.lines)]}
        /\ Len(file.lines) < MaxLines
    BY <1>2 DEF AppendRecord
  <2>2. /\ Len(file'.lines) = Len(file.lines) + 1
        /\ file'.lines[Len(file'.lines)] \in {r, Garbage}
        /\ file'.lines \in Seq(Line)
    BY <1>1, <2>1, WrittenLines
  <2>3. Len(file'.lines) \in 1 .. MaxLines
    BY <1>1, <2>1, <2>2, StoreAssumption DEF StoreTypeOK
  <2>4. StoreTypeOK'
    BY <1>1, <2>1, <2>3, LinesStay DEF StoreTypeOK, Line
  <2>5. ASSUME NEW a \in acked'
        PROVE  a.at \in DOMAIN file'.lines /\ file'.lines[a.at] \in {a.rec, Garbage}
    <3>1. CASE a \in acked
      <4>1. a.at \in DOMAIN file.lines /\ file.lines[a.at] \in {a.rec, Garbage}
        BY <3>1 DEF StoreInv
      <4> QED
        BY <1>1, <2>2, <4>1, LinesStay DEF StoreTypeOK
    <3>2. CASE a = [rec |-> r, at |-> Len(file'.lines)]
      BY <2>2, <2>3, <3>2
    <3> QED
      BY <2>1, <3>1, <3>2
  <2> QED
    BY <2>4, <2>5 DEF StoreInv
<1>3. CASE UNCHANGED acked
  <2>1. StoreTypeOK'
    BY <1>1, <1>3, LinesStay DEF StoreTypeOK, Line
  <2>2. DOMAIN file.lines \subseteq DOMAIN file'.lines
    BY <1>1, LinesStay DEF StoreTypeOK
  <2> QED
    BY <1>1, <1>3, <2>1, <2>2, LinesStay DEF StoreInv
<1> QED
  BY <1>2, <1>3 DEF StoreNext, AppendCutShort, storeVars

LEMMA StoreInvHolds == StoreSpec => []StoreInv
  BY StoreInvInit, StoreInvStep, PTL DEF StoreSpec

\* What an iteration yields is the lines of the file, and what follows them when
\* that parses.
LEMMA RecordsAreLines ==
    ASSUME NEW f, f.lines \in Seq(Line)
    PROVE  /\ Len(f.lines) <= Len(Records(f))
           /\ DOMAIN f.lines \subseteq DOMAIN Records(f)
           /\ \A i \in DOMAIN f.lines : Records(f)[i] = f.lines[i]
  BY DEF Records

\* An iteration that does not raise yields the record of every append that
\* returned, for any set of records and any bound on the file.
THEOREM StoreCompleteOrLoud == StoreSpec => []CompleteOrLoud
<1>1. StoreInv => CompleteOrLoud
  <2> SUFFICES ASSUME StoreInv, ~Raises(file), NEW a \in acked
               PROVE  a.at \in DOMAIN Records(file) /\ Records(file)[a.at] = a.rec
    BY DEF CompleteOrLoud
  <2>1. a.at \in DOMAIN file.lines /\ file.lines[a.at] = a.rec
    BY DEF StoreInv, Raises, Has
  <2> QED
    BY <2>1, RecordsAreLines DEF StoreInv, StoreTypeOK, Line
<1> QED
  BY <1>1, StoreInvHolds, PTL

\* A write that changes the file and does not spoil it found nothing after the
\* last newline.
LEMMA CleanBefore ==
    ASSUME StoreTypeOK, StoreNext, ~Raises(file'), file' # file
    PROVE  file.tail = Nothing
<1>1. ASSUME NEW r \in Record, file' = Written(file, r) PROVE file.tail = Nothing
  <2> SUFFICES ASSUME file.tail # Nothing PROVE FALSE
    OBVIOUS
  <2>1. file'.lines = Append(file.lines, Garbage)
    BY <1>1 DEF Written
  <2>2. Len(file.lines) + 1 \in DOMAIN file'.lines /\ file'.lines[Len(file.lines) + 1] = Garbage
    BY <2>1 DEF StoreTypeOK
  <2> QED
    BY <2>2 DEF Raises, Has
<1>2. ASSUME NEW r \in Record, file' \in CutShort(file, r) PROVE file.tail = Nothing
  BY <1>1, <1>2 DEF CutShort, Raises
<1> QED
  BY <1>1, <1>2 DEF StoreNext, AppendRecord, AppendCutShort

\* What was once read stays: every later iteration that does not raise yields it
\* again, in the same places.
THEOREM StorePrefixStable == StoreSpec => PrefixStable
<1>1. StoreInv /\ [StoreNext]_storeVars
        => [~Raises(file) /\ ~Raises(file')
              => /\ Len(Records(file)) <= Len(Records(file'))
                 /\ \A i \in DOMAIN Records(file) : Records(file')[i] = Records(file)[i]]_storeVars
  <2> SUFFICES ASSUME StoreInv, [StoreNext]_storeVars, ~Raises(file), ~Raises(file')
               PROVE  /\ Len(Records(file)) <= Len(Records(file'))
                      /\ \A i \in DOMAIN Records(file) : Records(file')[i] = Records(file)[i]
    OBVIOUS
  <2>1. StoreTypeOK
    BY DEF StoreInv
  <2>2. CASE file' = file
    <3>1. Records(file) \in Seq(Line)
      BY <2>1 DEF Records, StoreTypeOK, Line
    <3> QED
      BY <2>2, <3>1
  <2>3. CASE file' # file
    <3>1. file.tail = Nothing
      BY <2>1, <2>3, CleanBefore DEF storeVars
    <3>2. Records(file) = file.lines
      BY <3>1 DEF Records
    <3>3. /\ file.lines \in Seq(Line) /\ file'.lines \in Seq(Line)
          /\ Len(file.lines) <= Len(file'.lines)
          /\ \A i \in DOMAIN file.lines : file'.lines[i] = file.lines[i]
      BY <2>1, LinesStay DEF StoreTypeOK, Line
    <3>4. /\ Len(file'.lines) <= Len(Records(file'))
          /\ \A i \in DOMAIN file'.lines : Records(file')[i] = file'.lines[i]
      BY <3>3, RecordsAreLines
    <3>5. Len(Records(file')) \in Nat
      BY <3>3, LinesStay, <2>1 DEF Records, Line
    <3>6. DOMAIN file.lines \subseteq DOMAIN file'.lines
      BY <3>3
    <3> QED
      BY <3>2, <3>3, <3>4, <3>5, <3>6
  <2> QED
    BY <2>2, <2>3
<1> QED
  BY <1>1, StoreInvHolds, PTL DEF StoreSpec, PrefixStable

\* The store keeps its types.
THEOREM StoreTypeCorrect == StoreSpec => []StoreTypeOK
  BY StoreInvHolds, PTL DEF StoreInv

-----------------------------------------------------------------------------
(* Whole seconds *)

\* A number of ticks is a number of seconds and a rest.
LEMMA Division ==
    ASSUME NEW t \in Nat, NEW n \in Nat \ {0}
    PROVE  \E q \in Nat, r \in 0 .. n - 1 : t = q * n + r /\ t % n = r
  OBVIOUS

LEMMA MultipleLeavesNothing ==
    ASSUME NEW q \in Nat, NEW n \in Nat \ {0}
    PROVE  (q * n) % n = 0
  OBVIOUS

LEMMA WholeSeconds ==
    ASSUME NEW t \in Nat
    PROVE  \E q \in Nat, r \in 0 .. Second - 1 : t = q * Second + r /\ Whole(t) = q * Second
<1>1. PICK q \in Nat, r \in 0 .. Second - 1 : t = q * Second + r /\ t % Second = r
  BY Division, ArchiveAssumption
<1>2. q * Second \in Nat
  BY ArchiveAssumption
<1>3. Whole(t) = (q * Second + r) - r
  BY <1>1 DEF Whole
<1>4. (q * Second + r) - r = q * Second
  BY <1>2, ArchiveAssumption
<1> QED
  BY <1>1, <1>3, <1>4

LEMMA WholeIsWhole ==
    ASSUME NEW t \in Nat
    PROVE  Whole(t) \in Nat /\ Whole(t) <= t /\ Whole(Whole(t)) = Whole(t)
<1>1. PICK q \in Nat, r \in 0 .. Second - 1 : t = q * Second + r /\ Whole(t) = q * Second
  BY WholeSeconds
<1>2. q * Second \in Nat /\ (q * Second) % Second = 0
  BY MultipleLeavesNothing, ArchiveAssumption
<1>3. Whole(q * Second) = q * Second
  BY <1>2 DEF Whole
<1> QED
  BY <1>1, <1>2, <1>3, ArchiveAssumption

LEMMA WholeMonotone ==
    ASSUME NEW s \in Nat, NEW t \in Nat, s <= t
    PROVE  Whole(s) <= Whole(t)
<1>1. PICK p \in Nat, o \in 0 .. Second - 1 : s = p * Second + o /\ Whole(s) = p * Second
  BY WholeSeconds
<1>2. PICK q \in Nat, r \in 0 .. Second - 1 : t = q * Second + r /\ Whole(t) = q * Second
  BY WholeSeconds
<1>3. p <= q
  <2> SUFFICES ASSUME q + 1 <= p PROVE FALSE
    OBVIOUS
  <2>1. (q + 1) * Second <= p * Second
    BY ArchiveAssumption
  <2>2. (q + 1) * Second = q * Second + Second
    BY ArchiveAssumption
  <2>3. p * Second \in Nat /\ q * Second \in Nat
    BY ArchiveAssumption
  <2> QED
    BY <1>1, <1>2, <2>1, <2>2, <2>3, ArchiveAssumption
<1> QED
  BY <1>1, <1>2, <1>3, ArchiveAssumption

-----------------------------------------------------------------------------
(* Lawful histories *)

\* What an iteration that does not raise yields: rows in whole seconds, those of
\* one event in the order of time, and each a lawful successor of the one before.
Lawful(rows) ==
    /\ rows \in Seq(Rows)
    /\ \A i \in DOMAIN rows : Stored(rows[i].envelope) = rows[i].envelope
    /\ \A v \in Event : \A i, j \in Places(rows, v) :
         /\ i <= j => rows[i].envelope.updated <= rows[j].envelope.updated
         /\ i < j /\ ~(\E k \in Places(rows, v) : i < k /\ k < j) => Succeeds(rows[i], rows[j])

LastOf(rows, v) ==
    IF Places(rows, v) = {} THEN None ELSE rows[Max(Places(rows, v))].envelope

LEMMA CurrentIsLast == \A v : Current(v) = LastOf(Records(file), v)
  BY DEF Current, LastOf

LEMMA LastPlace ==
    ASSUME NEW rows \in Seq(Rows), NEW v, Places(rows, v) # {}
    PROVE  /\ Max(Places(rows, v)) \in Places(rows, v)
           /\ \A i \in Places(rows, v) : i <= Max(Places(rows, v))
<1>1. Places(rows, v) \in SUBSET (0 .. Len(rows)) /\ Len(rows) \in Nat
  BY DEF Places
<1> QED
  BY <1>1, MaxOf

LEMMA LastOfEvent ==
    ASSUME NEW rows \in Seq(Rows), NEW v, LastOf(rows, v) # None
    PROVE  /\ Places(rows, v) # {}
           /\ LastOf(rows, v) = rows[Max(Places(rows, v))].envelope
           /\ LastOf(rows, v) \in Envelope /\ LastOf(rows, v).event = v
<1>1. Places(rows, v) # {} /\ LastOf(rows, v) = rows[Max(Places(rows, v))].envelope
  BY DEF LastOf
<1>2. Max(Places(rows, v)) \in DOMAIN rows /\ LastOf(rows, v).event = v
  BY <1>1, LastPlace DEF Places
<1>3. rows[Max(Places(rows, v))] \in Rows
  BY <1>2
<1> QED
  BY <1>1, <1>2, <1>3 DEF Rows

\* No envelope is None, so None says that there is no row.
LEMMA NothingLast ==
    ASSUME NEW rows \in Seq(Rows), NEW v, LastOf(rows, v) = None
    PROVE  Places(rows, v) = {}
<1> SUFFICES ASSUME Places(rows, v) # {} PROVE FALSE
  OBVIOUS
<1>1. LastOf(rows, v) = rows[Max(Places(rows, v))].envelope
  BY DEF LastOf
<1>2. Max(Places(rows, v)) \in DOMAIN rows
  BY LastPlace DEF Places
<1>3. rows[Max(Places(rows, v))] \in Rows
  BY <1>2
<1> QED
  BY <1>1, <1>3, RowsAssumption DEF Rows

LEMMA StoredEnvelope ==
    ASSUME NEW e \in Envelope
    PROVE  /\ Stored(e) \in Envelope
           /\ Stored(Stored(e)) = Stored(e)
           /\ Stored(e).event = e.event /\ Stored(e).fact = e.fact /\ Stored(e).state = e.state
           /\ Stored(e).created = Whole(e.created) /\ Stored(e).updated = Whole(e.updated)
<1>1. /\ e.created \in 0 .. MaxTime /\ e.updated \in 0 .. MaxTime
      /\ e.created \in Nat /\ e.updated \in Nat
  BY ArchiveAssumption DEF Envelope
<1>2. /\ Whole(e.created) \in 0 .. MaxTime /\ Whole(Whole(e.created)) = Whole(e.created)
      /\ Whole(e.updated) \in 0 .. MaxTime /\ Whole(Whole(e.updated)) = Whole(e.updated)
  BY <1>1, WholeIsWhole, ArchiveAssumption
<1>3. Stored(e) \in Envelope
  BY <1>2 DEF Envelope, Stored
<1>4. /\ Stored(e).event = e.event /\ Stored(e).fact = e.fact /\ Stored(e).state = e.state
      /\ Stored(e).created = Whole(e.created) /\ Stored(e).updated = Whole(e.updated)
  BY DEF Envelope, Stored
<1>5. Stored(Stored(e)) = Stored(e)
  BY <1>2 DEF Envelope, Stored
<1> QED
  BY <1>3, <1>4, <1>5

\* An envelope that append accepts after another one makes a lawful row.
LEMMA AcceptedSucceeds ==
    ASSUME NEW e \in Envelope, NEW c \in Envelope, NEW previous,
           Stored(c) = c, c # e, ~Refuses(e, c, previous),
           NEW old, old.envelope = c
    PROVE  Succeeds(old, Row(Stored(e), c))
<1>1. c # None
  BY RowsAssumption
<1>2. /\ e.created = c.created
      /\ c.state \notin Terminal /\ Follows(c.state, e.state) /\ c.updated <= e.updated
      /\ e = Moved(c, e.state, e.updated, e.result, e.reason)
  BY <1>1 DEF Refuses, Movable
<1>3. e.fact = c.fact
  <2>1. Moved(c, e.state, e.updated, e.result, e.reason).fact = c.fact
    BY DEF Moved, Envelope
  <2> QED
    BY <1>2, <2>1
<1>4. c.created = Whole(c.created) /\ c.updated = Whole(c.updated)
  BY StoredEnvelope
<1>5. Whole(c.updated) <= Whole(e.updated)
  BY <1>2, WholeMonotone, ArchiveAssumption DEF Envelope
<1>6. Row(Stored(e), c).envelope = Stored(e) /\ Row(Stored(e), c).previous_state = c.state
  BY <1>1 DEF Row
<1> QED
  BY <1>2, <1>3, <1>4, <1>5, <1>6, StoredEnvelope DEF Succeeds

\* append of an accepted envelope to a lawful history leaves a lawful history.
LEMMA LawfulGrows ==
    ASSUME NEW rows, Lawful(rows), NEW e \in Envelope, NEW previous,
           LastOf(rows, e.event) # e, ~Refuses(e, LastOf(rows, e.event), previous)
    PROVE  /\ Row(Stored(e), LastOf(rows, e.event)) \in Rows
           /\ Lawful(Append(rows, Row(Stored(e), LastOf(rows, e.event))))
<1> DEFINE c == LastOf(rows, e.event)
           r == Row(Stored(e), c)
           new == Append(rows, r)
           n == Len(rows) + 1
<1>1. rows \in Seq(Rows) /\ Len(rows) \in Nat
  BY DEF Lawful
<1>2. r \in Rows /\ r.envelope = Stored(e)
  <2>1. c = None \/ c \in Envelope
    BY <1>1, LastOfEvent
  <2>2. Stored(e) \in Envelope
    BY StoredEnvelope
  <2> QED
    BY <2>1, <2>2 DEF Row, Rows, Envelope
<1>3. /\ new \in Seq(Rows) /\ DOMAIN new = 1 .. n /\ new[n] = r
      /\ \A i \in 1 .. Len(rows) : new[i] = rows[i]
      /\ DOMAIN rows = 1 .. Len(rows)
  BY <1>1, <1>2
<1> HIDE DEF new, r, c
<1>4. \A v \in Event : /\ \A i \in Places(new, v) : i = n \/ i \in Places(rows, v)
                       /\ \A i \in Places(rows, v) : i \in Places(new, v) /\ i < n
                       /\ n \in Places(new, v) => v = e.event
  BY <1>1, <1>2, <1>3, StoredEnvelope DEF Places
<1>5. \A i \in DOMAIN new : Stored(new[i].envelope) = new[i].envelope
  BY <1>1, <1>2, <1>3, StoredEnvelope DEF Lawful
<1>6. ASSUME Places(rows, e.event) # {}
      PROVE  /\ Max(Places(rows, e.event)) \in Places(rows, e.event)
             /\ \A i \in Places(rows, e.event) : i <= Max(Places(rows, e.event))
             /\ c = rows[Max(Places(rows, e.event))].envelope
             /\ Succeeds(rows[Max(Places(rows, e.event))], r)
  <2>1. c # None /\ c \in Envelope /\ c = rows[Max(Places(rows, e.event))].envelope
    BY <1>1, <1>6, NothingLast, LastOfEvent DEF c
  <2>2. /\ Max(Places(rows, e.event)) \in Places(rows, e.event)
        /\ \A i \in Places(rows, e.event) : i <= Max(Places(rows, e.event))
    BY <1>1, <1>6, LastPlace
  <2>3. Stored(c) = c
    BY <2>1, <2>2 DEF Lawful, Places
  <2>4. Succeeds(rows[Max(Places(rows, e.event))], Row(Stored(e), c))
    BY <2>1, <2>3, AcceptedSucceeds DEF c
  <2> QED
    BY <2>1, <2>2, <2>4 DEF r
<1>7. ASSUME NEW v \in Event, NEW i \in Places(new, v), NEW j \in Places(new, v)
      PROVE  /\ i <= j => new[i].envelope.updated <= new[j].envelope.updated
             /\ i < j /\ ~(\E k \in Places(new, v) : i < k /\ k < j) => Succeeds(new[i], new[j])
  <2>0. \A k \in DOMAIN new : new[k].envelope.updated \in Nat
    <3>1. \A k \in DOMAIN new : new[k] \in Rows
      BY <1>3
    <3> QED
      BY <3>1, ArchiveAssumption DEF Rows, Envelope
  <2>1. CASE i \in Places(rows, v) /\ j \in Places(rows, v)
    <3>1. new[i] = rows[i] /\ new[j] = rows[j]
      BY <1>3, <2>1 DEF Places
    <3>2. Places(rows, v) \subseteq Places(new, v)
      BY <1>4
    <3> QED
      BY <2>1, <3>1, <3>2 DEF Lawful
  <2>2. CASE i \in Places(rows, v) /\ j = n
    <3>1. v = e.event /\ new[j] = r /\ Places(rows, v) # {}
      BY <1>3, <1>4, <2>2
    <3> DEFINE m == Max(Places(rows, v))
    <3>2. m \in Places(rows, v) /\ i <= m /\ Succeeds(rows[m], r)
      BY <1>6, <2>2, <3>1
    <3> HIDE DEF m
    <3>3. new[i] = rows[i] /\ new[m] = rows[m] /\ m \in DOMAIN new /\ i \in DOMAIN new
      BY <1>3, <2>2, <3>2 DEF Places
    <3>4. rows[i].envelope.updated <= rows[m].envelope.updated
      BY <2>2, <3>2 DEF Lawful
    <3>5. rows[m].envelope.updated <= r.envelope.updated
      BY <3>2 DEF Succeeds
    <3>6. new[i].envelope.updated <= new[j].envelope.updated
      BY <1>3, <2>0, <3>1, <3>3, <3>4, <3>5
    <3>7. i = m \/ (m \in Places(new, v) /\ i < m /\ m < j)
      BY <1>1, <1>4, <2>2, <3>2, <3>3, <1>3
    <3> QED
      BY <3>1, <3>2, <3>3, <3>6, <3>7
  <2>3. CASE i = n /\ j = n
    BY <1>1, <2>0, <2>3, <1>3
  <2>4. CASE i = n /\ j \in Places(rows, v)
    <3>1. j < n /\ j \in Nat /\ n \in Nat
      BY <1>1, <1>3, <1>4, <2>4 DEF Places
    <3> QED
      BY <2>4, <3>1
  <2> QED
    BY <1>4, <2>1, <2>2, <2>3, <2>4
<1>8. Lawful(new)
  BY <1>3, <1>5, <1>7 DEF Lawful
<1> QED
  BY <1>2, <1>8 DEF new, r, c

-----------------------------------------------------------------------------
(* The archive *)

ArchiveInv ==
    /\ StoreInv
    /\ now \in 0 .. MaxTime
    /\ held \in [Event -> Envelope \cup {None}]
    /\ before \in [Event -> Envelope \cup {None}]
    /\ ~Raises(file) => Lawful(Records(file))

Answered(call) == call # None /\ call.how \in {"returned", "raised"}

\* What a call of append about v that was not refused leaves behind, as long as the
\* archive can be read: its envelope is accepted again, and it is there if the call
\* returned.
Settled(v) ==
    Answered(reply[v]) /\ Repeatable(reply[v]) /\ ~Raises(file) =>
        /\ ~Refuses(reply[v].envelope, Current(v), None)
        /\ reply[v].how = "returned" => Current(v) = reply[v].envelope

RetryInv ==
    /\ DOMAIN reply = Event
    /\ \A v \in Event : held[v] # None => held[v].event = v
    /\ \A v \in Event : Settled(v)

\* An append that leaves a readable file has added its record or nothing.
LEMMA RecordsGrow ==
    ASSUME StoreTypeOK, NEW r \in Record, AppendRecord(r) \/ AppendCutShort(r), ~Raises(file')
    PROVE  Records(file') \in {Records(file), Append(Records(file), r)}
<1>1. r \notin {Nothing, Partial, Garbage}
  BY StoreAssumption
<1>2. CASE file' = file
  BY <1>2
<1>3. CASE file' # file
  <2>1. file.tail = Nothing
    BY <1>3, CleanBefore DEF StoreNext
  <2>2. Records(file) = file.lines
    BY <2>1 DEF Records
  <2>3. CASE file' = Written(file, r)
    <3>1. file'.lines = Append(file.lines, r) /\ file'.tail = Nothing
      BY <2>1, <2>3 DEF Written
    <3> QED
      BY <2>2, <3>1 DEF Records
  <2>4. CASE file' = [lines |-> file.lines, tail |-> r]
    <3>1. file'.lines = file.lines /\ file'.tail = r
      BY <2>4
    <3> QED
      BY <1>1, <2>2, <3>1 DEF Records
  <2>5. file'.tail # Partial
    BY DEF Raises
  <2>6. file' = Written(file, r) \/ file' = [lines |-> file.lines, tail |-> r]
    BY <1>3, <2>1, <2>5 DEF AppendRecord, AppendCutShort, CutShort
  <2> QED
    BY <2>3, <2>4, <2>6
<1> QED
  BY <1>2, <1>3

\* One that returned has added it.
LEMMA RecordAdded ==
    ASSUME StoreTypeOK, NEW r \in Record, AppendRecord(r), ~Raises(file')
    PROVE  Records(file') = Append(Records(file), r)
<1>1. file' = Written(file, r)
  BY DEF AppendRecord
<1>2. file' # file
  <2>1. Len(file'.lines) = Len(file.lines) + 1 /\ Len(file.lines) \in Nat
    BY <1>1, WrittenLines DEF StoreTypeOK
  <2> QED
    BY <2>1
<1>3. file.tail = Nothing
  BY <1>2, CleanBefore DEF StoreNext
<1>4. file'.lines = Append(file.lines, r) /\ file'.tail = Nothing
  BY <1>1, <1>3 DEF Written
<1> QED
  BY <1>3, <1>4 DEF Records

\* What a call of append does to the file: nothing, or an append of a lawful row.
LEMMA AppendIsStoreStep ==
    ASSUME ArchiveInv, NEW e \in Envelope, NEW previous, AppendEnvelope(e, previous)
    PROVE  /\ [StoreNext]_storeVars
           /\ ~Raises(file') => Lawful(Records(file'))
<1>1. CASE /\ ~Raises(file)
           /\ ~Refuses(e, Current(e.event), previous)
           /\ Current(e.event) # e
           /\ AppendRecord(Appended(e)) \/ AppendCutShort(Appended(e))
  <2>1. Current(e.event) = LastOf(Records(file), e.event) /\ Lawful(Records(file))
    BY <1>1, CurrentIsLast DEF ArchiveInv
  <2>2. /\ Appended(e) \in Rows
        /\ Lawful(Append(Records(file), Appended(e)))
    BY <1>1, <2>1, LawfulGrows DEF Appended
  <2>3. Appended(e) \in Record
    BY <2>2, RowsAssumption
  <2>4. StoreTypeOK
    BY DEF ArchiveInv, StoreInv
  <2>5. StoreNext
    BY <1>1, <2>3 DEF StoreNext
  <2>6. ~Raises(file') => Lawful(Records(file'))
    BY <1>1, <2>1, <2>2, <2>3, <2>4, RecordsGrow
  <2> QED
    BY <2>5, <2>6
<1>2. CASE UNCHANGED storeVars
  BY <1>2 DEF ArchiveInv, storeVars
<1> QED
  BY <1>1, <1>2 DEF AppendEnvelope

\* A step of the archive is a step of the store or leaves it alone.
LEMMA ArchiveStep ==
    ASSUME ArchiveInv, [ArchiveNext]_archiveVars
    PROVE  /\ [StoreNext]_storeVars
           /\ ArchiveInv'
<1>1. ASSUME NEW v \in Event, Discover(v) PROVE UNCHANGED storeVars /\ ArchiveInv'
  <2>1. PICK fact \in Fact, s \in First, result \in Result \cup {None} :
          held' = [held EXCEPT ![v] = NewEnvelope(v, fact, s, result)]
    BY <1>1 DEF Discover
  <2>2. NewEnvelope(v, fact, s, result) \in Envelope
    BY StatesAssumption DEF NewEnvelope, Envelope, ArchiveInv
  <2>3. /\ file' = file /\ acked' = acked /\ now' = now
        /\ before' = [before EXCEPT ![v] = None]
    BY <1>1 DEF Discover
  <2> QED
    BY <2>1, <2>2, <2>3 DEF ArchiveInv, StoreInv, StoreTypeOK, storeVars
<1>2. ASSUME NEW v \in Event, Transition(v) PROVE UNCHANGED storeVars /\ ArchiveInv'
  <2>1. PICK s \in Target, result \in Result \cup {None}, reason \in Reason \cup {None} :
          /\ held[v] # None
          /\ held' = [held EXCEPT ![v] = Moved(held[v], s, now, result, reason)]
    BY <1>2 DEF Transition
  <2>2. held[v] \in Envelope
    BY <2>1 DEF ArchiveInv
  <2>3. Moved(held[v], s, now, result, reason) \in Envelope
    <3>1. /\ s \in State /\ now \in 0 .. MaxTime
          /\ OrElse(result, held[v].result) \in Result \cup {None}
          /\ OrElse(reason, held[v].reason) \in Reason \cup {None}
      BY <2>2, StatesAssumption DEF ArchiveInv, OrElse, Envelope
    <3> QED
      BY <2>2, <3>1 DEF Moved, Envelope
  <2>4. /\ file' = file /\ acked' = acked /\ now' = now
        /\ before' = [before EXCEPT ![v] = held[v]]
    BY <1>2 DEF Transition
  <2> QED
    BY <2>1, <2>2, <2>3, <2>4
    DEF ArchiveInv, StoreInv, StoreTypeOK, storeVars
<1>3. ASSUME NEW v \in Event, Submit(v) PROVE [StoreNext]_storeVars /\ ArchiveInv'
  <2>1. PICK previous : AppendEnvelope(held[v], previous) /\ held[v] # None
    BY <1>3 DEF Submit
  <2>2. held[v] \in Envelope
    BY <2>1 DEF ArchiveInv
  <2>3. /\ [StoreNext]_storeVars
        /\ ~Raises(file') => Lawful(Records(file'))
    BY <2>1, <2>2, AppendIsStoreStep
  <2>4. UNCHANGED <<now, held, before>>
    BY <2>1 DEF AppendEnvelope
  <2>5. StoreInv'
    BY <2>3, StoreInvStep DEF ArchiveInv
  <2> QED
    BY <2>3, <2>4, <2>5 DEF ArchiveInv
<1>4. ASSUME NEW v \in Event, Reload(v) PROVE UNCHANGED storeVars /\ ArchiveInv'
  <2>1. /\ file' = file /\ acked' = acked /\ now' = now
        /\ held' = [held EXCEPT ![v] = Current(v)]
        /\ before' = [before EXCEPT ![v] = None]
        /\ ~Raises(file)
    BY <1>4 DEF Reload
  <2>2. Current(v) \in Envelope \cup {None}
    BY <2>1, CurrentIsLast, LastOfEvent DEF ArchiveInv, Lawful
  <2> QED
    BY <2>1, <2>2 DEF ArchiveInv, StoreInv, StoreTypeOK, storeVars
<1>5. CASE Tick
  <2>1. now + 1 \in 0 .. MaxTime
    BY <1>5, ArchiveAssumption DEF Tick, ArchiveInv
  <2> QED
    BY <1>5, <2>1
    DEF Tick, ArchiveInv, StoreInv, StoreTypeOK, storeVars
<1>6. CASE UNCHANGED archiveVars
  BY <1>6
  DEF archiveVars, ArchiveInv, StoreInv, StoreTypeOK, storeVars
<1> QED
  BY <1>1, <1>2, <1>3, <1>4, <1>5, <1>6 DEF ArchiveNext

LEMMA ArchiveInvInit == ArchiveInit => ArchiveInv
<1> SUFFICES ASSUME ArchiveInit PROVE ArchiveInv
  OBVIOUS
<1>1. StoreInv
  BY StoreInvInit DEF ArchiveInit
<1>2. Records(file) = <<>>
  BY DEF ArchiveInit, StoreInit, EmptyFile, Records
<1>3. Lawful(<<>>)
  BY DEF Lawful, Places
<1> QED
  BY <1>1, <1>2, <1>3, ArchiveAssumption DEF ArchiveInit, ArchiveInv

LEMMA ArchiveInvHolds == ArchiveSpec => []ArchiveInv
  BY ArchiveInvInit, ArchiveStep, PTL DEF ArchiveSpec

\* Every behaviour of the archive is, for its file, one of the store: the rows of
\* any collection are records like any other, so what the store promises holds
\* of the archive.
THEOREM ArchiveIsStore == ArchiveSpec => StoreSpec
<1>1. ArchiveInit => StoreInit
  BY DEF ArchiveInit
<1> QED
  BY <1>1, ArchiveInvHolds, ArchiveStep, PTL DEF ArchiveSpec, StoreSpec

\* An archive that can be read holds every row of which append has returned.
THEOREM ArchiveCompleteOrLoud == ArchiveSpec => []CompleteOrLoud
  BY ArchiveIsStore, StoreCompleteOrLoud, PTL

\* What the archive has once yielded it yields again.
THEOREM ArchivePrefixStable == ArchiveSpec => PrefixStable
  BY ArchiveIsStore, StorePrefixStable, PTL

\* For any events, facts, results and instants, callers that retry, rediscover and
\* restart, and writes that fail anywhere: histories are paths of the lifecycle.
THEOREM HistoriesLawful == ArchiveSpec => []LegalLifecycle
<1>1. ArchiveInv => LegalLifecycle
  BY DEF ArchiveInv, Lawful, LegalLifecycle
<1> QED
  BY <1>1, ArchiveInvHolds, PTL

\* In a lawful history the latest row is the last.
LEMMA LatestIsLast ==
    ASSUME NEW rows, Lawful(rows), NEW v \in Event, Places(rows, v) # {}
    PROVE  Latest(rows, v) = Max(Places(rows, v))
<1> DEFINE m == Max(Places(rows, v))
           Is(i) == \A j \in Places(rows, v) :
                      \/ rows[j].envelope.updated < rows[i].envelope.updated
                      \/ rows[j].envelope.updated = rows[i].envelope.updated /\ j <= i
<1>1. m \in Places(rows, v) /\ \A i \in Places(rows, v) : i <= m
  BY LastPlace DEF Lawful
<1>2. /\ \A i \in Places(rows, v) : i \in Nat /\ rows[i].envelope.updated \in Nat
      /\ \A i, j \in Places(rows, v) :
            i <= j => rows[i].envelope.updated <= rows[j].envelope.updated
  <2>1. ASSUME NEW i \in Places(rows, v) PROVE i \in Nat /\ rows[i].envelope.updated \in Nat
    <3>1. i \in DOMAIN rows /\ rows \in Seq(Rows)
      BY DEF Places, Lawful
    <3>2. rows[i] \in Rows /\ i \in Nat
      BY <3>1
    <3> QED
      BY <3>2, ArchiveAssumption DEF Rows, Envelope
  <2> QED
    BY <2>1 DEF Lawful
<1> HIDE DEF m
<1>3. Is(m)
  BY <1>1, <1>2
<1>4. ASSUME NEW i \in Places(rows, v), Is(i) PROVE i = m
  BY <1>1, <1>2, <1>4
<1>5. Latest(rows, v) = CHOOSE i \in Places(rows, v) : Is(i)
  BY DEF Latest
<1>6. Latest(rows, v) \in Places(rows, v) /\ Is(Latest(rows, v))
  BY <1>1, <1>3, <1>5, Zenon
<1> QED
  BY <1>4, <1>6 DEF m

\* And so the funnel, which goes by updated_at, counts each event in the state that
\* the archive holds last.
THEOREM FunnelCountsLast == ArchiveSpec => []FunnelAgrees
<1>1. ArchiveInv => FunnelAgrees
  <2> SUFFICES ASSUME ArchiveInv, ~Raises(file), NEW v \in Event, Places(Records(file), v) # {}
               PROVE  Records(file)[Latest(Records(file), v)].envelope = Current(v)
    BY DEF FunnelAgrees
  <2>1. Latest(Records(file), v) = Max(Places(Records(file), v))
    BY LatestIsLast DEF ArchiveInv
  <2> QED
    BY <2>1 DEF Current
<1> QED
  BY <1>1, ArchiveInvHolds, PTL

\* The last row of an event is the one that was just added for it, and rows of
\* other events do not touch it.
LEMMA LastOfGrown ==
    ASSUME NEW rows \in Seq(Rows), NEW r \in Rows, NEW v
    PROVE  LastOf(Append(rows, r), v) =
               IF r.envelope.event = v THEN r.envelope ELSE LastOf(rows, v)
<1> DEFINE new == Append(rows, r)
           n == Len(rows) + 1
<1>1. /\ Len(rows) \in Nat /\ new \in Seq(Rows) /\ DOMAIN new = 1 .. n /\ new[n] = r
      /\ DOMAIN rows = 1 .. Len(rows)
      /\ \A i \in DOMAIN rows : new[i] = rows[i]
  OBVIOUS
<1> HIDE DEF new
<1>2. CASE r.envelope.event = v
  <2>1. n \in Places(new, v)
    BY <1>1, <1>2 DEF Places
  <2>2. Max(Places(new, v)) \in Places(new, v) /\ n <= Max(Places(new, v))
    BY <1>1, <2>1, LastPlace
  <2>3. Max(Places(new, v)) \in 1 .. n
    BY <1>1, <2>2 DEF Places
  <2>4. Max(Places(new, v)) = n
    BY <1>1, <2>2, <2>3
  <2>5. Places(new, v) # {}
    BY <2>1
  <2>6. LastOf(new, v) = new[n].envelope
    BY <2>4, <2>5 DEF LastOf
  <2> QED
    BY <1>1, <1>2, <2>6 DEF new
<1>3. CASE r.envelope.event # v
  <2>1. ASSUME NEW i \in Places(new, v) PROVE i \in Places(rows, v)
    <3>1. i \in 1 .. n /\ new[i].envelope.event = v
      BY <1>1 DEF Places
    <3>2. i # n
      BY <1>1, <1>3, <3>1
    <3>3. i \in DOMAIN rows
      BY <1>1, <3>1, <3>2
    <3> QED
      BY <1>1, <3>1, <3>3 DEF Places
  <2>2. ASSUME NEW i \in Places(rows, v) PROVE i \in Places(new, v)
    BY <1>1 DEF Places
  <2>3. Places(new, v) = Places(rows, v)
    BY <2>1, <2>2
  <2>4. CASE Places(rows, v) = {}
    BY <1>3, <2>3, <2>4 DEF LastOf, new
  <2>5. CASE Places(rows, v) # {}
    <3>1. Max(Places(rows, v)) \in DOMAIN rows
      BY <2>5, LastPlace DEF Places
    <3>2. LastOf(new, v) = new[Max(Places(rows, v))].envelope
      BY <2>3, <2>5 DEF LastOf
    <3>3. LastOf(rows, v) = rows[Max(Places(rows, v))].envelope
      BY <2>5 DEF LastOf
    <3> QED
      BY <1>1, <1>3, <3>1, <3>2, <3>3 DEF new
  <2> QED
    BY <2>4, <2>5
<1> QED
  BY <1>2, <1>3

\* What a call of append leaves as the last row of an event: another event's is as
\* it was; its own too, unless its envelope is now there, as it surely is after a
\* call that wrote and returned.
LEMMA AppendLeaves ==
    ASSUME ArchiveInv, NEW e \in Envelope, NEW previous, AppendEnvelope(e, previous),
           ~Raises(file'), NEW v \in Event
    PROVE  /\ ~Raises(file)
           /\ v # e.event => Current(v)' = Current(v)
           /\ Current(e.event)' \in {Current(e.event), Stored(e)}
           /\ ~Refuses(e, Current(e.event), previous) /\ Current(e.event) # e =>
                (AppendRecord(Appended(e)) => Current(e.event)' = Stored(e))
<1>1. ~Raises(file)
  BY DEF AppendEnvelope, storeVars
<1>2. CASE /\ ~Refuses(e, Current(e.event), previous)
           /\ Current(e.event) # e
           /\ AppendRecord(Appended(e)) \/ AppendCutShort(Appended(e))
  <2>1. Current(e.event) = LastOf(Records(file), e.event) /\ Lawful(Records(file))
    BY <1>1, CurrentIsLast DEF ArchiveInv
  <2>2. Appended(e) \in Rows
    BY <1>2, <2>1, LawfulGrows DEF Appended
  <2>3. Appended(e) \in Record /\ StoreTypeOK
    BY <2>2, RowsAssumption DEF ArchiveInv, StoreInv
  <2>4. /\ Records(file') \in {Records(file), Append(Records(file), Appended(e))}
        /\ AppendRecord(Appended(e)) => Records(file') = Append(Records(file), Appended(e))
    BY <1>2, <2>3, RecordsGrow, RecordAdded
  <2>5. Appended(e).envelope = Stored(e) /\ Stored(e).event = e.event
    BY StoredEnvelope DEF Appended, Row
  <2>6. \A w : LastOf(Append(Records(file), Appended(e)), w) =
                 IF e.event = w THEN Stored(e) ELSE LastOf(Records(file), w)
    BY <2>1, <2>2, <2>5, LastOfGrown DEF Lawful
  <2>7. \A w : Current(w) = LastOf(Records(file), w) /\ Current(w)' = LastOf(Records(file'), w)
    BY CurrentIsLast DEF Current, LastOf
  <2> QED
    BY <1>1, <2>4, <2>6, <2>7
<1>3. CASE UNCHANGED storeVars /\ (Refuses(e, Current(e.event), previous) \/ Current(e.event) = e)
  BY <1>1, <1>3 DEF Current, storeVars
<1> QED
  BY <1>1, <1>2, <1>3 DEF AppendEnvelope

\* A call about v settles v.
LEMMA CallSettles ==
    ASSUME ArchiveInv, RetryInv, NEW e \in Envelope, NEW previous, AppendEnvelope(e, previous)
    PROVE  Settled(e.event)'
<1> DEFINE v == e.event
<1>0. v \in Event
  BY DEF Envelope
<1> SUFFICES ASSUME Answered(reply'[v]), Repeatable(reply'[v]), ~Raises(file')
             PROVE  /\ ~Refuses(reply'[v].envelope, Current(v)', None)
                    /\ reply'[v].how = "returned" => Current(v)' = reply'[v].envelope
  BY DEF Settled, Answered, Repeatable, Refuses
<1>1. PICK how \in {"unreadable", "refused", "returned", "raised"} :
        /\ Replied(e, previous, how)
        /\ how = "unreadable" => Raises(file)
        /\ how = "refused" => Refuses(e, Current(v), previous)
        /\ how \notin {"unreadable", "refused"} => ~Refuses(e, Current(v), previous)
        /\ how = "returned" => \/ Current(v) = e /\ UNCHANGED storeVars
                               \/ Current(v) # e /\ AppendRecord(Appended(e))
  BY DEF AppendEnvelope
<1>2. reply'[v] = [envelope |-> e, previous |-> previous, how |-> how]
  BY <1>0, <1>1 DEF Replied, RetryInv
<1>3. previous = None /\ e = Stored(e) /\ how \in {"returned", "raised"}
  BY <1>2 DEF Answered, Repeatable
<1>4. ~Refuses(e, Current(v), None)
  BY <1>1, <1>3
<1>5. Current(v)' \in {Current(v), e}
  BY <1>0, <1>3, AppendLeaves
<1>6. ~Refuses(e, e, None)
  BY DEF Refuses
<1>7. ASSUME how = "returned" PROVE Current(v)' = e
  <2>1. CASE Current(v) = e /\ UNCHANGED storeVars
    BY <2>1 DEF Current, storeVars
  <2>2. CASE Current(v) # e /\ AppendRecord(Appended(e))
    BY <1>0, <1>3, <1>4, <2>2, AppendLeaves
  <2> QED
    BY <1>1, <1>7, <2>1, <2>2
<1> QED
  BY <1>2, <1>4, <1>5, <1>6, <1>7

\* What a call about v left is still there after anything else.
LEMMA StaysSettled ==
    ASSUME NEW v \in Event, Settled(v), reply'[v] \in {reply[v], None},
           ~Raises(file') => ~Raises(file) /\ Current(v)' = Current(v)
    PROVE  Settled(v)'
  BY DEF Settled, Answered, Repeatable, Refuses

LEMMA RetryStep == ArchiveInv /\ RetryInv /\ [ArchiveNext]_archiveVars => RetryInv'
<1> SUFFICES ASSUME ArchiveInv, RetryInv, [ArchiveNext]_archiveVars PROVE RetryInv'
  OBVIOUS
<1>0. file' = file => \A v \in Event : (Raises(file') <=> Raises(file)) /\ Current(v)' = Current(v)
  BY DEF Current
<1>1. ASSUME NEW v \in Event, Submit(v) PROVE RetryInv'
  <2>1. PICK previous : AppendEnvelope(held[v], previous) /\ held[v] # None
    BY <1>1 DEF Submit
  <2>2. held[v] \in Envelope /\ held[v].event = v
    BY <2>1 DEF ArchiveInv, RetryInv
  <2>3. /\ held' = held /\ DOMAIN reply' = Event
        /\ \A w \in Event : w # v => reply'[w] = reply[w]
    BY <2>1, <2>2 DEF AppendEnvelope, Replied, RetryInv
  <2>4. Settled(v)'
    BY <2>1, <2>2, CallSettles
  <2>5. ASSUME NEW w \in Event, w # v PROVE Settled(w)'
    <3>1. ~Raises(file') => ~Raises(file) /\ Current(w)' = Current(w)
      BY <2>1, <2>2, <2>5, AppendLeaves
    <3> QED
      BY <2>3, <2>5, <3>1, StaysSettled DEF RetryInv
  <2> QED
    BY <2>3, <2>4, <2>5 DEF RetryInv
<1>2. ASSUME NEW v \in Event, Discover(v) \/ Transition(v) \/ Reload(v) PROVE RetryInv'
  <2>1. /\ file' = file /\ DOMAIN reply' = Event
        /\ \A w \in Event : reply'[w] \in {reply[w], None}
        /\ \A w \in Event : w # v => held'[w] = held[w]
    BY <1>2 DEF Discover, Transition, Reload, RetryInv, ArchiveInv
  <2>2. \A w \in Event : Settled(w)'
    BY <1>0, <2>1, StaysSettled DEF RetryInv
  <2>3. held'[v] # None => held'[v].event = v
    <3>1. CASE Discover(v)
      BY <3>1 DEF Discover, NewEnvelope, ArchiveInv
    <3>2. CASE Transition(v)
      <4>1. PICK s \in Target, result \in Result \cup {None}, reason \in Reason \cup {None} :
              held[v] # None /\ held' = [held EXCEPT ![v] = Moved(held[v], s, now, result, reason)]
        BY <3>2 DEF Transition
      <4>2. held[v] \in Envelope /\ held[v].event = v
        BY <4>1 DEF ArchiveInv, RetryInv
      <4>3. Moved(held[v], s, now, result, reason).event = v
        BY <4>2 DEF Moved, Envelope
      <4> QED
        BY <4>1, <4>3 DEF ArchiveInv
    <3>3. CASE Reload(v)
      <4>1. held'[v] = Current(v) /\ ~Raises(file)
        BY <3>3 DEF Reload, ArchiveInv
      <4>2. Current(v) # None => Current(v).event = v
        BY <4>1, CurrentIsLast, LastOfEvent DEF ArchiveInv, Lawful
      <4> QED
        BY <4>1, <4>2
    <3> QED
      BY <1>2, <3>1, <3>2, <3>3
  <2> QED
    BY <2>1, <2>2, <2>3 DEF RetryInv
<1>3. CASE Tick \/ UNCHANGED archiveVars
  <2>1. file' = file /\ reply' = reply /\ held' = held
    BY <1>3 DEF Tick, archiveVars
  <2>2. \A w \in Event : Settled(w)'
    BY <1>0, <2>1, StaysSettled DEF RetryInv
  <2> QED
    BY <2>1, <2>2 DEF RetryInv
<1> QED
  BY <1>1, <1>2, <1>3 DEF ArchiveNext

LEMMA RetryInvHolds == ArchiveSpec => []RetryInv
<1>1. ArchiveInit => RetryInv
  BY DEF ArchiveInit, RetryInv, Settled, Answered
<1> QED
  BY <1>1, ArchiveInvHolds, RetryStep, PTL DEF ArchiveSpec

\* What append has accepted once, or has begun to write, it accepts again: whatever
\* became of the write, of the file since then and of the caller, a call repeated
\* as it was (an envelope in whole seconds, no predecessor named) is not refused, and
\* after one that returned it changes nothing.
THEOREM RetriesAccepted == ArchiveSpec => RetriesNeverRefused
<1>1. ArchiveInv /\ RetryInv /\ [ArchiveNext]_archiveVars =>
        [\A v \in Event :
           /\ Repeatable(reply[v]) /\ reply[v].how \in {"returned", "raised"}
           /\ Repeatable(reply'[v]) /\ reply'[v].envelope = reply[v].envelope
           /\ Submit(v)
           => /\ reply'[v].how # "refused"
              /\ reply[v].how = "returned" => file' = file]_archiveVars
  <2> SUFFICES ASSUME ArchiveInv, RetryInv, NEW v \in Event,
                      Repeatable(reply[v]), reply[v].how \in {"returned", "raised"},
                      Repeatable(reply'[v]), reply'[v].envelope = reply[v].envelope,
                      Submit(v)
               PROVE  /\ reply'[v].how # "refused"
                      /\ reply[v].how = "returned" => file' = file
    OBVIOUS
  <2> DEFINE e == held[v]
  <2>1. PICK previous : AppendEnvelope(e, previous) /\ held[v] # None
    BY DEF Submit
  <2>2. e \in Envelope /\ e.event = v
    BY <2>1 DEF ArchiveInv, RetryInv
  <2>3. PICK how : /\ Replied(e, previous, how)
                   /\ how = "refused" => ~Raises(file) /\ Refuses(e, Current(v), previous)
                   /\ file' = file \/ (~Raises(file) /\ Current(v) # e)
    BY <2>1, <2>2 DEF AppendEnvelope, storeVars
  <2>4. reply'[v] = [envelope |-> e, previous |-> previous, how |-> how]
    BY <2>2, <2>3 DEF Replied, RetryInv
  <2>5. previous = None /\ e = reply[v].envelope
    BY <2>4 DEF Repeatable
  <2>6. ~Raises(file) => /\ ~Refuses(e, Current(v), None)
                         /\ reply[v].how = "returned" => Current(v) = e
    BY <2>5 DEF RetryInv, Settled, Answered, Repeatable
  <2> QED
    BY <2>3, <2>4, <2>5, <2>6
<1> QED
  BY <1>1, ArchiveInvHolds, RetryInvHolds, PTL DEF ArchiveSpec, RetriesNeverRefused

-----------------------------------------------------------------------------
(* The scorecard of a source *)

\* A point comes with an answer.
QualityInv ==
    /\ IsFiniteSet(collected) /\ collected \subseteq Signal
    /\ answered \in Nat /\ requests \in 0 .. MaxRequests /\ answered <= requests
    /\ collected # {} => answered > 0

LEMMA QualityInvInit == QualityInit => QualityInv
  BY FS_EmptySet, QualityAssumption DEF QualityInit, QualityInv

LEMMA QualityInvStep == QualityInv /\ [QualityNext]_qualityVars => QualityInv'
<1> SUFFICES ASSUME QualityInv, [QualityNext]_qualityVars PROVE QualityInv'
  OBVIOUS
<1>1. CASE NoAnswer
  BY <1>1, QualityAssumption DEF NoAnswer, QualityInv
<1>2. ASSUME NEW p \in Signal, Answer(p) PROVE QualityInv'
  <2>1. IsFiniteSet(collected')
    BY <1>2, FS_AddElement DEF Answer, QualityInv
  <2> QED
    BY <1>2, <2>1, QualityAssumption DEF Answer, QualityInv
<1>3. CASE UNCHANGED qualityVars
  BY <1>3 DEF qualityVars, QualityInv
<1> QED
  BY <1>1, <1>2, <1>3 DEF QualityNext

-----------------------------------------------------------------------------
(* Slots *)

\* A window has as many slots as it expects points.
LEMMA SlotsExpected ==
    ASSUME NEW a \in 0 .. Horizon, NEW b \in a + 1 .. Horizon
    PROVE  /\ IsFiniteSet(Slots(a, b)) /\ Cardinality(Slots(a, b)) = Expected(a, b)
           /\ Expected(a, b) \in 1 .. Horizon
<1> DEFINE e == Expected(a, b)
<1>1. /\ Horizon \in Nat /\ Cadence \in Nat /\ Cadence # 0
      /\ a \in Nat /\ b \in Nat /\ a < b /\ b <= Horizon
  BY QualityAssumption
<1> DEFINE w == b - a
<1>2. w \in Nat /\ w # 0 /\ w <= Horizon
  BY <1>1
<1> DEFINE C(x) == x * Cadence
<1>3. e \in Nat /\ C(e) >= w /\ C(e) < w + Cadence
  <2>1. e = (w + Cadence - 1) \div Cadence /\ w + Cadence - 1 \in Nat
    BY <1>1, <1>2 DEF Expected
  <2>2. \A t \in Nat : t \div Cadence \in Nat
          /\ (t \div Cadence) * Cadence <= t /\ t < (t \div Cadence) * Cadence + Cadence
    BY <1>1
  <2> HIDE DEF e
  <2>3. e * Cadence \in Nat
    BY <1>1, <2>1, <2>2
  <2> QED
    BY <1>1, <1>2, <2>1, <2>2, <2>3
<1> HIDE DEF e, w
<1>4. \A x, y \in Nat : x < y => C(x) + Cadence <= C(y)
  <2>1. \A x, z \in Nat : (x + z + 1) * Cadence = x * Cadence + z * Cadence + Cadence
    BY <1>1
  <2>2. \A x \in Nat : x * Cadence \in Nat
    BY <1>1
  <2> TAKE x, y \in Nat
  <2> HAVE x < y
  <2>3. PICK z \in Nat : y = x + z + 1
    BY y - x - 1 \in Nat
  <2>4. C(y) = C(x) + C(z) + Cadence
    BY <2>1, <2>3
  <2>5. C(x) \in Nat /\ C(y) \in Nat /\ C(z) \in Nat
    BY <2>2
  <2> HIDE DEF C
  <2> QED
    BY <1>1, <2>4, <2>5
<1>5. /\ C(0) = 0
      /\ \A x \in Nat : C(x) \in Nat /\ x <= C(x) /\ C(x) % Cadence = 0
      /\ \A t \in Nat : t % Cadence = 0 => t = C(t \div Cadence) /\ t \div Cadence \in Nat
  <2>1. \A x \in Nat : C(x) \in Nat /\ x <= C(x) /\ C(x) % Cadence = 0
    BY <1>1
  <2>2. ASSUME NEW t \in Nat, t % Cadence = 0
        PROVE  t = C(t \div Cadence) /\ t \div Cadence \in Nat
    <3>1. t \div Cadence \in Nat /\ t = (t \div Cadence) * Cadence + (t % Cadence)
      BY <1>1
    <3>2. (t \div Cadence) * Cadence \in Nat
      BY <2>1, <3>1
    <3> QED
      BY <2>2, <3>1, <3>2
  <2>3. C(0) = 0
    BY <1>1
  <2> QED
    BY <2>1, <2>2, <2>3
<1> HIDE DEF C
<1>6. e \in 1 .. Horizon
  <2>1. e # 0
    BY <1>2, <1>3, <1>5
  <2>2. C(e - 1) + Cadence <= C(e) /\ e - 1 \in Nat
    BY <1>3, <1>4, <2>1
  <2>3. e - 1 <= C(e - 1) /\ C(e - 1) \in Nat /\ C(e) \in Nat
    BY <1>3, <1>5, <2>2
  <2> QED
    BY <1>1, <1>2, <1>3, <2>1, <2>2, <2>3
<1> DEFINE f == [i \in 0 .. e - 1 |-> a + C(i)]
<1>7. \A i \in 0 .. e - 1 : i \in Nat /\ i < e /\ f[i] = a + C(i) /\ C(i) \in Nat
  BY <1>5, <1>6
<1> HIDE DEF f
<1>8. \A i \in 0 .. e - 1 : f[i] \in Slots(a, b)
  <2> TAKE i \in 0 .. e - 1
  <2>1. i \in Nat /\ i < e /\ f[i] = a + C(i) /\ C(i) \in Nat
    BY <1>7
  <2>2. C(i) + Cadence <= C(e) /\ C(e) \in Nat
    BY <1>3, <1>4, <1>5, <2>1
  <2>3. C(i) < w
    BY <1>1, <1>2, <1>3, <2>1, <2>2
  <2>4. f[i] \in a .. b - 1 /\ f[i] - a = C(i)
    BY <1>1, <2>1, <2>3 DEF w
  <2> QED
    BY <1>5, <2>1, <2>4 DEF Slots
<1>9. ASSUME NEW t \in Slots(a, b) PROVE \E i \in 0 .. e - 1 : t = f[i]
  <2>1. t \in Nat /\ a <= t /\ t < b /\ (t - a) % Cadence = 0
    BY <1>1 DEF Slots
  <2>2. PICK d \in Nat : t = a + d /\ d % Cadence = 0 /\ d < w
    BY <1>1, <2>1 DEF w
  <2>3. PICK i \in Nat : d = C(i)
    BY <1>5, <2>2
  <2>4. i < e
    <3>1. e < i => C(e) + Cadence <= C(i)
      BY <1>3, <1>4
    <3>2. C(e) \in Nat /\ C(i) \in Nat
      BY <1>3, <1>5
    <3>3. e # i /\ ~(e < i)
      BY <1>1, <1>2, <1>3, <2>2, <2>3, <3>1, <3>2
    <3> QED
      BY <1>3, <3>3
  <2>5. i \in 0 .. e - 1
    BY <1>3, <2>4
  <2> QED
    BY <1>7, <2>2, <2>3, <2>5
<1>10. \A i, j \in 0 .. e - 1 : f[i] = f[j] => i = j
  <2> TAKE i, j \in 0 .. e - 1
  <2>1. i \in Nat /\ j \in Nat /\ C(i) \in Nat /\ C(j) \in Nat /\ f[i] = a + C(i) /\ f[j] = a + C(j)
    BY <1>7
  <2>2. (i < j => C(i) + Cadence <= C(j)) /\ (j < i => C(j) + Cadence <= C(i))
    BY <1>4, <2>1
  <2> QED
    BY <1>1, <2>1, <2>2
<1>11. IsFiniteSet(0 .. e - 1) /\ Cardinality(0 .. e - 1) = e
  <2>1. 0 \in Int /\ e - 1 \in Int /\ ~(0 > e - 1) /\ e - 1 - 0 + 1 = e
    BY <1>1, <1>6
  <2> QED
    BY <2>1, FS_Interval
<1>12. f \in [0 .. e - 1 -> Slots(a, b)]
  <2>1. \A i \in 0 .. e - 1 : a + C(i) \in Slots(a, b)
    BY <1>7, <1>8
  <2> QED
    BY <2>1 DEF f
<1>13. IsFiniteSet(Slots(a, b)) /\ Cardinality(Slots(a, b)) = e
  <2> DEFINE D == 0 .. e - 1
             Q == Slots(a, b)
  <2>1. /\ IsFiniteSet(D) /\ Cardinality(D) = e /\ f \in [D -> Q]
        /\ \A i, j \in D : f[i] = f[j] => i = j
        /\ \A t \in Q : \E i \in D : f[i] = t
    BY <1>9, <1>10, <1>11, <1>12
  <2> HIDE DEF D, Q
  <2>2. IsFiniteSet(Q) /\ Cardinality(Q) = e
    BY <2>1, Image
  <2> QED
    BY <2>2 DEF Q
<1> QED
  BY <1>6, <1>13 DEF e

-----------------------------------------------------------------------------
(* One series on the grid *)

\* Of one metric the keys are the event times; versions are at least as many.
LEMMA KeysAreTimes ==
    ASSUME NEW S, IsFiniteSet(S), Cardinality({ p.metric : p \in S }) <= 1
    PROVE  /\ IsFiniteSet({ p.event : p \in S })
           /\ Cardinality(UniqueKeys(S)) = Cardinality({ p.event : p \in S })
           /\ Cardinality(UniqueKeys(S)) \in Nat /\ Cardinality(Versions(S)) \in Nat
           /\ Cardinality(UniqueKeys(S)) <= Cardinality(Versions(S))
<1> DEFINE T == { p.event : p \in S }
           M == { p.metric : p \in S }
           K == UniqueKeys(S)
           V == Versions(S)
<1>1. IsFiniteSet(M)
  <2> DEFINE f == [p \in S |-> p.metric]
  <2>1. f \in [S -> M] /\ \A t \in M : \E x \in S : f[x] = t
    OBVIOUS
  <2> HIDE DEF f, M
  <2> QED
    BY <2>1, Image
<1>2. IsFiniteSet(V)
  <2> DEFINE f == [p \in S |-> <<p.metric, p.event, p.hash>>]
  <2>1. f \in [S -> V] /\ \A t \in V : \E x \in S : f[x] = t
    BY DEF Versions
  <2> HIDE DEF f, V
  <2> QED
    BY <2>1, Image
<1>3. IsFiniteSet(K) /\ Cardinality(K) <= Cardinality(V)
  <2> DEFINE f == [v \in V |-> <<v[1], v[2]>>]
  <2>1. f \in [V -> K] /\ \A t \in K : \E x \in V : f[x] = t
    <3>1. ASSUME NEW v \in V PROVE f[v] \in K
      <4>1. PICK p \in S : v = <<p.metric, p.event, p.hash>>
        BY DEF Versions
      <4>2. f[v] = <<p.metric, p.event>>
        BY <4>1
      <4> QED
        BY <4>2 DEF UniqueKeys
    <3>2. ASSUME NEW t \in K PROVE \E x \in V : f[x] = t
      <4>1. PICK p \in S : t = <<p.metric, p.event>>
        BY DEF UniqueKeys
      <4>2. <<p.metric, p.event, p.hash>> \in V
        BY DEF Versions
      <4>3. f[<<p.metric, p.event, p.hash>>] = t
        BY <4>1, <4>2
      <4> QED
        BY <4>2, <4>3
    <3>3. f \in [V -> K]
      BY <3>1
    <3> QED
      BY <3>2, <3>3
  <2> HIDE DEF f, V, K
  <2> QED
    BY <1>2, <2>1, Image
<1>4. \A p, q \in S : p.metric = q.metric
  <2>1. Cardinality(M) \in Nat /\ (Cardinality(M) = 0 <=> M = {})
    BY <1>1, FS_CardinalityType, FS_EmptySet
  <2>2. Cardinality(M) = 1 => \E x : M = {x}
    BY <1>1, FS_Singleton
  <2>3. \A x, y \in M : x = y
    <3> HIDE DEF M
    <3>1. Cardinality(M) = 0 \/ Cardinality(M) = 1
      BY <2>1 DEF M
    <3> QED
      BY <2>1, <2>2, <3>1
  <2> QED
    BY <2>3
<1>5. IsFiniteSet(T) /\ Cardinality(T) = Cardinality(K)
  <2> DEFINE f == [k \in K |-> k[2]]
  <2>1. ASSUME NEW k \in K PROVE \E p \in S : k = <<p.metric, p.event>> /\ f[k] = p.event
    BY DEF UniqueKeys
  <2>2. f \in [K -> T]
    <3>1. \A k \in K : k[2] \in T
      BY <2>1
    <3> QED
      BY <3>1
  <2>3. ASSUME NEW t \in T PROVE \E k \in K : f[k] = t
    <3>1. PICK p \in S : t = p.event
      OBVIOUS
    <3>2. <<p.metric, p.event>> \in K
      BY DEF UniqueKeys
    <3> QED
      BY <3>1, <3>2
  <2>4. \A k, l \in K : f[k] = f[l] => k = l
    BY <1>4, <2>1
  <2> HIDE DEF f, K, T
  <2> QED
    BY <1>3, <2>2, <2>3, <2>4, Image
<1>6. Cardinality(K) \in Nat /\ Cardinality(V) \in Nat
  BY <1>2, <1>3, FS_CardinalityType
<1> QED
  BY <1>3, <1>5, <1>6

\* A part that may not be above no percent is empty.
LEMMA NoneOf ==
    ASSUME NEW S, IsFiniteSet(S), NEW T \in SUBSET S
    PROVE  Above(Cardinality(T), Cardinality(S), 0) <=> T # {}
<1>1. IsFiniteSet(T) /\ Cardinality(T) \in Nat /\ (Cardinality(T) = 0 <=> T = {})
  BY FS_Subset, FS_CardinalityType, FS_EmptySet
<1>2. \A n \in Nat : 0 * n = 0
  OBVIOUS
<1>3. Cardinality(S) \in Nat
  BY FS_CardinalityType
<1> QED
  BY <1>1, <1>2, <1>3 DEF Above

\* With no tolerance a source falls short of n as soon as one of them is missing.
LEMMA OneMissing ==
    ASSUME NEW m \in Nat, NEW n \in Nat, n # 0, m <= n, NEW percent \in 0 .. 100,
           Below(n - 1, n, percent)
    PROVE  Below(m, n, percent) <=> m < n
<1> DEFINE x == percent * n
<1>1. x \in Nat /\ x <= 100 * n
  <2>1. \A c, d, k \in Nat : c <= d => c * k <= d * k /\ c * k \in Nat
    OBVIOUS
  <2> QED
    BY <2>1
<1>2. 100 * (n - 1) < x
  BY DEF Below
<1>3. Below(m, n, percent) <=> 100 * m < x
  BY DEF Below
<1> HIDE DEF x
<1> QED
  BY <1>1, <1>2, <1>3

\* And one revision of n keys is too many.
LEMMA OneRevision ==
    ASSUME NEW m \in Nat, NEW n \in Nat, n # 0, NEW percent \in 0 .. 100, Above(1, n, percent)
    PROVE  Above(m, n, percent) <=> m # 0
<1> DEFINE x == percent * n
<1>1. x \in Nat
  BY \A c, k \in Nat : c * k \in Nat
<1>2. 100 > x
  BY DEF Above
<1>3. Above(m, n, percent) <=> 100 * m > x
  BY DEF Above
<1> HIDE DEF x
<1> QED
  BY <1>1, <1>2, <1>3

\* Between the slots of a window there is no gap.
LEMMA SlotsHaveNoGaps ==
    ASSUME NEW a \in 0 .. Horizon, NEW b \in a + 1 .. Horizon, NEW S,
           { p.event : p \in S } = Slots(a, b)
    PROVE  Gaps(S) = {}
<1>1. Horizon \in Nat /\ Cadence \in Nat /\ Cadence # 0 /\ a \in Nat /\ b \in Nat
  BY QualityAssumption
<1>2. ASSUME NEW x \in Nat, x % Cadence = 0 PROVE (x + Cadence) % Cadence = 0
  <2>1. x \div Cadence \in Nat /\ x = (x \div Cadence) * Cadence + (x % Cadence)
    BY <1>1
  <2>2. PICK q \in Nat : x = q * Cadence + 0
    BY <1>2, <2>1
  <2>3. x + Cadence = (q + 1) * Cadence
    <3>1. (q + 1) * Cadence = q * Cadence + Cadence /\ q * Cadence \in Nat
      BY <1>1
    <3> QED
      BY <1>1, <2>2, <3>1
  <2>4. \A m \in Nat : (m * Cadence) % Cadence = 0
    BY <1>1
  <2>5. q + 1 \in Nat
    OBVIOUS
  <2> QED
    BY <2>3, <2>4, <2>5
<1> SUFFICES ASSUME NEW g \in Gaps(S) PROVE FALSE
  OBVIOUS
<1>3. /\ g[1] \in Slots(a, b) /\ g[2] \in Slots(a, b)
      /\ g[2] > g[1] + Cadence
      /\ ~\E t \in Slots(a, b) : g[1] < t /\ t < g[2]
  BY DEF Gaps
<1>4. PICK x \in Nat : g[1] = a + x /\ x % Cadence = 0
  <2>1. g[1] \in a .. b - 1 /\ (g[1] - a) % Cadence = 0
    BY <1>3 DEF Slots
  <2> QED
    BY <1>1, <2>1
<1>5. g[2] \in Nat /\ g[2] < b
  BY <1>1, <1>3 DEF Slots
<1>6. (a + x + Cadence) - a = x + Cadence /\ a + x + Cadence \in a .. b - 1
  BY <1>1, <1>3, <1>4, <1>5
<1>7. a + x + Cadence \in Slots(a, b)
  BY <1>2, <1>4, <1>6 DEF Slots
<1> QED
  BY <1>1, <1>3, <1>4, <1>7

\* What the scorecard compares comes down to this: as many keys as slots means all of
\* the slots, and with all of them there is no gap.
LEMMA WindowComplete ==
    ASSUME QualityInv, NoTolerance, NEW a \in 0 .. Horizon, NEW b \in a + 1 .. Horizon,
           NEW S, S = Selected(a, b), Cardinality({ p.metric : p \in S }) <= 1,
           \A p \in S : p.event \in Slots(a, b)
    PROVE  ScorecardState(a, b) = "HEALTHY"
             <=> /\ { p.event : p \in S } = Slots(a, b)
                 /\ Cardinality(Versions(S)) = Cardinality(Slots(a, b))
                 /\ \A p \in S : p.enriched /\ ~p.untrusted
                 /\ ~Stale(S)
                 /\ answered = requests
<1> DEFINE T == { p.event : p \in S }
           e == Expected(a, b)
           keys == Cardinality(UniqueKeys(S))
           vs == Cardinality(Versions(S))
<1>1. IsFiniteSet(S)
  BY FS_Subset DEF Selected, QualityInv
<1>2. ScorecardState(a, b) = "HEALTHY" <=> ~Quarantines(S) /\ ~Degrades(S, a, b)
  BY DEF ScorecardState
<1>3. ~Quarantines(S) <=> \A p \in S : p.enriched /\ ~p.untrusted
  <2>1. /\ { p \in S : p.untrusted } \in SUBSET S /\ { p \in S : ~p.enriched } \in SUBSET S
    OBVIOUS
  <2>2. Limits.causality = 0 /\ Limits.integrity = 0
    BY DEF NoTolerance
  <2>3. Quarantines(S) <=> { p \in S : p.untrusted } # {} \/ { p \in S : ~p.enriched } # {}
    BY <1>1, <2>1, <2>2, NoneOf DEF Quarantines
  <2> QED
    BY <2>3
<1>4. e \in 1 .. Horizon /\ IsFiniteSet(Slots(a, b)) /\ Cardinality(Slots(a, b)) = e
  BY SlotsExpected
<1>5. /\ keys = Cardinality(T) /\ keys \in Nat /\ vs \in Nat /\ keys <= vs
  BY <1>1, KeysAreTimes
<1>6. T \in SUBSET Slots(a, b)
  OBVIOUS
<1>7. keys <= e /\ (keys = e <=> T = Slots(a, b))
  <2> HIDE DEF T, keys, e
  <2> QED
    BY <1>4, <1>5, <1>6, FS_Subset
<1>8. /\ Horizon \in Nat /\ Limits.coverage \in 0 .. 100 /\ Limits.revisions \in 0 .. 100
      /\ Limits.availability \in 0 .. 100 /\ Limits.gaps \in Nat
      /\ Below(e - 1, e, Limits.coverage) /\ Above(1, e, Limits.revisions)
  BY <1>4, QualityAssumption DEF NoTolerance
<1>9. Degrades(S, a, b)
        <=> \/ keys < e /\ Below(keys, e, Limits.coverage)
            \/ Stale(S)
            \/ Cardinality(Gaps(S)) > Limits.gaps
            \/ \E g \in Gaps(S) : g[2] - g[1] - Cadence > Limits.gap
            \/ Above(vs - keys, keys, Limits.revisions)
            \/ Below(answered, requests, Limits.availability)
  BY DEF Degrades
<1>10. CASE keys < e
  <2>1. Below(keys, e, Limits.coverage)
    <3> HIDE DEF keys, e
    <3>1. e \in Nat /\ e # 0 /\ keys <= e
      BY <1>4, <1>7, <1>8
    <3> QED
      BY <1>5, <1>8, <1>10, <3>1, OneMissing
  <2>2. T # Slots(a, b)
    <3> HIDE DEF T, keys, e
    <3> QED
      BY <1>4, <1>5, <1>7, <1>10
  <2> QED
    BY <1>2, <1>9, <1>10, <2>1, <2>2
<1>11. CASE ~(keys < e)
  <2>1. keys = e /\ T = Slots(a, b) /\ e \in Nat /\ e # 0
    <3> HIDE DEF T, keys, e
    <3> QED
      BY <1>4, <1>5, <1>7, <1>8, <1>11
  <2>2. Gaps(S) = {}
    BY <2>1, SlotsHaveNoGaps
  <2>3. ~(Cardinality(Gaps(S)) > Limits.gaps)
    BY <1>8, <2>2, FS_EmptySet
  <2>4. Above(vs - keys, keys, Limits.revisions) <=> vs # e
    <3> HIDE DEF vs, keys, e
    <3>1. vs - keys \in Nat /\ (vs - keys # 0 <=> vs # e)
      BY <1>5, <2>1
    <3> QED
      BY <1>5, <1>8, <2>1, <3>1, OneRevision
  <2>5. Below(answered, requests, Limits.availability) <=> answered # requests
    <3>1. S # {}
      <4>1. IsFiniteSet(T) /\ Cardinality(T) # 0
        <5> HIDE DEF T, keys, e
        <5> QED
          BY <1>4, <1>5, <2>1
      <4> QED
        BY <4>1, FS_EmptySet
    <3>2. /\ answered \in Nat /\ requests \in Nat /\ requests # 0 /\ answered <= requests
          /\ requests \in 1 .. MaxRequests
      BY <3>1, QualityAssumption DEF QualityInv, Selected
    <3>3. Below(requests - 1, requests, Limits.availability)
      BY <3>2 DEF NoTolerance
    <3>4. Below(answered, requests, Limits.availability) <=> answered < requests
      BY <1>8, <3>2, <3>3, OneMissing
    <3> QED
      BY <3>2, <3>4
  <2>6. Degrades(S, a, b) <=> Stale(S) \/ vs # e \/ answered # requests
    <3> HIDE DEF vs, keys, e
    <3> QED
      BY <1>9, <1>11, <2>2, <2>3, <2>4, <2>5
  <2> QED
    BY <1>2, <1>3, <1>4, <2>1, <2>6
<1> QED
  BY <1>10, <1>11

\* For any points, windows, cadence and requests, as long as the thresholds let no
\* error pass: HEALTHY is what source_quality_scorecard says of a source that has
\* delivered everything, once, on time and with its provenance, and only of it.
THEOREM HealthIsComplete == QualitySpec => []HealthyMeansComplete
<1>1. QualityInv => HealthyMeansComplete
  BY WindowComplete DEF HealthyMeansComplete
<1> QED
  BY <1>1, QualityInvInit, QualityInvStep, PTL DEF QualitySpec

-----------------------------------------------------------------------------
(* Fused candles *)

Candle == [source : Source, timestamp : 0 .. MaxInstant, published : 0 .. MaxInstant,
           low : Price, high : Price, close : Price]

\* The candles received: finitely many, each accepted by MarketDataPoint with its close
\* between low and high, and at most one of a source for a time.
FusionInv ==
    /\ IsFiniteSet(candles)
    /\ \A p \in candles :
         /\ p \in Candle
         /\ p.low <= p.close /\ p.close <= p.high /\ p.published >= p.timestamp
    /\ \A p, q \in candles : p.source = q.source /\ p.timestamp = q.timestamp => p = q

LEMMA FusionInvInit == FusionInit => FusionInv
<1> SUFFICES ASSUME FusionInit PROVE FusionInv
  OBVIOUS
<1>1. IsFiniteSet(candles)
  BY FS_EmptySet DEF FusionInit
<1> QED
  BY <1>1 DEF FusionInit, FusionInv

LEMMA FusionInvStep == FusionInv /\ [FusionNext]_fusionVars => FusionInv'
<1> SUFFICES ASSUME FusionInv, [FusionNext]_fusionVars PROVE FusionInv'
  OBVIOUS
<1>1. CASE FusionNext
  <2>1. PICK p \in Candle :
          /\ ValidCandle(p) /\ p.low <= p.close /\ p.close <= p.high
          /\ \A q \in candles : q.source # p.source \/ q.timestamp # p.timestamp
          /\ candles' = candles \cup {p}
    BY <1>1 DEF FusionNext, Receive, Candle
  <2>2. IsFiniteSet(candles')
    BY <2>1, FS_AddElement DEF FusionInv
  <2> QED
    BY <2>1, <2>2 DEF FusionInv, ValidCandle
<1>2. CASE UNCHANGED fusionVars
  BY <1>2 DEF fusionVars, FusionInv
<1> QED
  BY <1>1, <1>2

LEMMA CandleTyped ==
    ASSUME FusionInv, NEW p \in candles
    PROVE  /\ \A field \in {"low", "close", "high"} : p[field] \in Nat /\ p[field] <= MaxPrice
           /\ p.timestamp \in 0 .. MaxInstant /\ p.published \in 0 .. MaxInstant
<1>1. p \in Candle
  BY DEF FusionInv
<1> QED
  BY <1>1, FusionAssumption DEF Candle, Price

-----------------------------------------------------------------------------
\* The candles whose field is at most x.
Upto(S, field, x) == { p \in S : p[field] <= x }

\* The k-th smallest value is one of them; k of them are not above it, and fewer
\* than k below.
LEMMA RankedIs ==
    ASSUME NEW S, IsFiniteSet(S), NEW field, NEW m \in Nat,
           \A p \in S : p[field] \in Nat /\ p[field] <= m,
           NEW k \in 1 .. Cardinality(S)
    PROVE  /\ Ranked(S, field, k) \in Nat
           /\ Ranked(S, field, k) \in { p[field] : p \in S }
           /\ Cardinality(Upto(S, field, Ranked(S, field, k))) >= k
           /\ Cardinality({ p \in S : p[field] < Ranked(S, field, k) }) < k
<1> DEFINE X == { x \in Nat : Cardinality(Upto(S, field, x)) >= k }
<1>0. \A x \in Nat : Upto(S, field, x) \in SUBSET S
  BY DEF Upto
<1>1. Upto(S, field, m) = S /\ Cardinality(S) \in Nat
  BY FS_CardinalityType DEF Upto
<1>2. m \in X
  BY <1>1
<1>3. PICK x \in X : \A y \in X : x <= y
  BY <1>2, LeastOf
<1>4. x \in Nat /\ Cardinality(Upto(S, field, x)) >= k
  OBVIOUS
<1>5. Cardinality({ p \in S : p[field] < x }) < k
  <2>1. CASE x = 0
    <3>1. { p \in S : p[field] < x } = {}
      BY <2>1
    <3> QED
      BY <3>1, FS_EmptySet
  <2>2. CASE x # 0
    <3>1. x - 1 \in Nat /\ x - 1 \notin X
      BY <1>3, <1>4, <2>2
    <3>2. { p \in S : p[field] < x } = Upto(S, field, x - 1)
      BY <1>4 DEF Upto
    <3>3. Cardinality(Upto(S, field, x - 1)) \in Nat
      BY <1>0, <3>1, CountGrows
    <3> QED
      BY <3>1, <3>2, <3>3
  <2> QED
    BY <2>1, <2>2
<1>6. x \in { p[field] : p \in S }
  <2> SUFFICES ASSUME x \notin { p[field] : p \in S } PROVE FALSE
    OBVIOUS
  <2>1. Upto(S, field, x) = { p \in S : p[field] < x }
    BY <1>4 DEF Upto
  <2>2. Cardinality(Upto(S, field, x)) \in Nat
    BY <1>0, <1>4, CountGrows
  <2> QED
    BY <1>4, <1>5, <2>1, <2>2
<1>7. \A y : Upto(S, field, y) = { p \in S : p[field] <= y }
  BY DEF Upto
<1> HIDE DEF X
<1>8. LET r == Ranked(S, field, k)
      IN  /\ r \in { p[field] : p \in S }
          /\ Cardinality({ p \in S : p[field] <= r }) >= k
          /\ Cardinality({ p \in S : p[field] < r }) < k
  BY <1>4, <1>5, <1>6, <1>7, Zenon DEF Ranked
<1> QED
  BY <1>7, <1>8

\* If one field is never above another, neither is its k-th smallest value.
LEMMA RankedGrows ==
    ASSUME NEW S, IsFiniteSet(S), NEW f, NEW g, NEW m \in Nat,
           \A p \in S : /\ p[f] \in Nat /\ p[f] <= m
                        /\ p[g] \in Nat /\ p[g] <= m
                        /\ p[f] <= p[g],
           NEW k \in 1 .. Cardinality(S)
    PROVE  Ranked(S, f, k) <= Ranked(S, g, k)
<1> DEFINE x == Ranked(S, f, k)
           y == Ranked(S, g, k)
<1>1. x \in Nat /\ Cardinality({ p \in S : p[f] < x }) < k
  BY RankedIs
<1>2. y \in Nat /\ Cardinality(Upto(S, g, y)) >= k
  BY RankedIs
<1> HIDE DEF x, y
<1> SUFFICES ASSUME y < x PROVE FALSE
  BY <1>1, <1>2 DEF x, y
<1>3. Upto(S, g, y) \subseteq { p \in S : p[f] < x }
  BY <1>1, <1>2 DEF Upto
<1>4. IsFiniteSet({ p \in S : p[f] < x })
  BY CountGrows
<1>5. /\ Cardinality(Upto(S, g, y)) \in Nat
      /\ Cardinality({ p \in S : p[f] < x }) \in Nat
      /\ Cardinality(Upto(S, g, y)) <= Cardinality({ p \in S : p[f] < x })
  BY <1>3, <1>4, CountGrows, FS_CardinalityType
<1> QED
  BY <1>1, <1>2, <1>5

\* The middle positions of a set of n values, and of three or more neither is the
\* first alone nor the last alone.
LEMMA Middles ==
    ASSUME NEW n \in Nat, n # 0
    PROVE  /\ (n + 1) \div 2 \in 1 .. n /\ n \div 2 + 1 \in 1 .. n
           /\ n >= 3 => (n + 1) \div 2 \in 2 .. n - 1 /\ n \div 2 + 1 \in 2 .. n - 1
  OBVIOUS

\* Of at least three values a middle one is not below all but one, nor above.
LEMMA RankedRobust ==
    ASSUME NEW S, IsFiniteSet(S), NEW field, NEW m \in Nat,
           \A q \in S : q[field] \in Nat /\ q[field] <= m,
           NEW k \in 2 .. Cardinality(S) - 1, NEW p \in S
    PROVE  LET others == { q[field] : q \in S \ {p} }
           IN  Min(others) <= Ranked(S, field, k) /\ Ranked(S, field, k) <= Max(others)
                 /\ Min(others) \in Nat /\ Max(others) \in Nat
<1> DEFINE others == { q[field] : q \in S \ {p} }
           x == Ranked(S, field, k)
           n == Cardinality(S)
<1>1. n \in Nat /\ k \in 1 .. n
  BY FS_CardinalityType
<1>2. /\ x \in Nat
      /\ Cardinality(Upto(S, field, x)) >= k
      /\ Cardinality({ q \in S : q[field] < x }) < k
  BY <1>1, RankedIs
<1>3. IsFiniteSet(S \ {p}) /\ Cardinality(S \ {p}) = n - 1
  BY FS_RemoveElement
<1>4. S \ {p} # {}
  BY <1>1, <1>3, FS_EmptySet
<1>5. others # {} /\ others \in SUBSET Nat /\ others \in SUBSET (0 .. m)
  BY <1>4
<1>6. /\ Min(others) \in others /\ \A y \in others : Min(others) <= y
      /\ Max(others) \in others /\ \A y \in others : y <= Max(others)
  <2> HIDE DEF others
  <2> QED
    BY <1>5, MinOf, MaxOf
<1>7. Min(others) \in Nat /\ Max(others) \in Nat
  BY <1>5, <1>6
<1> HIDE DEF x, n
<1>8. Min(others) <= x
  <2>1. ASSUME Upto(S, field, x) \subseteq {p} PROVE FALSE
    <3>1. Cardinality({p}) = 1 /\ IsFiniteSet({p})
      BY FS_Singleton
    <3> QED
      BY <1>2, <2>1, <3>1, CountGrows
  <2>2. PICK q \in Upto(S, field, x) : q # p
    BY <2>1
  <2>3. q[field] \in others /\ q[field] <= x /\ q[field] \in Nat
    BY <2>2 DEF Upto
  <2> HIDE DEF others
  <2> QED
    BY <1>2, <1>6, <1>7, <2>3
<1>9. x <= Max(others)
  <2> SUFFICES ASSUME Max(others) < x PROVE FALSE
    BY <1>2, <1>7
  <2>1. S \ {p} \subseteq { q \in S : q[field] < x }
    <3> SUFFICES ASSUME NEW q \in S \ {p} PROVE q[field] < x
      OBVIOUS
    <3>1. q[field] \in others /\ q[field] \in Nat
      OBVIOUS
    <3> HIDE DEF others
    <3> QED
      BY <1>2, <1>6, <1>7, <3>1
  <2>2. IsFiniteSet({ q \in S : q[field] < x })
    BY CountGrows
  <2>3. Cardinality(S \ {p}) <= Cardinality({ q \in S : q[field] < x })
        /\ Cardinality({ q \in S : q[field] < x }) \in Nat
    BY <2>1, <2>2, CountGrows, FS_CardinalityType
  <2> QED
    BY <1>1, <1>2, <1>3, <2>3 DEF n
<1> QED
  BY <1>7, <1>8, <1>9 DEF x

\* What is true of the candles is true of the fused one.
LEMMA BucketsFuse ==
    ASSUME FusionInv, NEW S \in SUBSET candles, S # {}
    PROVE  /\ Between(Median(S, "low"), Median(S, "close"), Median(S, "high"))
           /\ Between(Sum(S, "low"), Sum(S, "close"), Sum(S, "high"))
           /\ \A p \in S : FusedPublished(S) >= p.published /\ FusedPublished(S) >= p.timestamp
           /\ Cardinality(S) >= 3 => \A field \in {"low", "high", "close"} : Robust(S, field)
<1> DEFINE n == Cardinality(S)
           i == (n + 1) \div 2
           j == n \div 2 + 1
<1>1. IsFiniteSet(S) /\ n \in Nat /\ n # 0
  BY FS_Subset, FS_CardinalityType, FS_EmptySet DEF FusionInv
<1>2. \A p \in S : \A field \in {"low", "close", "high"} : p[field] \in Nat /\ p[field] <= MaxPrice
  BY CandleTyped
<1>3. \A p \in S : p["low"] <= p["close"] /\ p["close"] <= p["high"]
  BY DEF FusionInv
<1>4. i \in 1 .. n /\ j \in 1 .. n /\ (n >= 3 => i \in 2 .. n - 1 /\ j \in 2 .. n - 1)
  BY <1>1, Middles
<1>5. MaxPrice \in Nat
  BY FusionAssumption
<1>6. \A field : Median(S, field) = Ranked(S, field, i) + Ranked(S, field, j)
  BY DEF Median
<1> HIDE DEF i, j
<1>7. \A field \in {"low", "close", "high"} : \A k \in 1 .. n : Ranked(S, field, k) \in Nat
  BY <1>1, <1>2, <1>5, RankedIs
<1>8. Between(Median(S, "low"), Median(S, "close"), Median(S, "high"))
  <2>1. ASSUME NEW k \in 1 .. n
        PROVE  /\ Ranked(S, "low", k) <= Ranked(S, "close", k)
               /\ Ranked(S, "close", k) <= Ranked(S, "high", k)
    BY <1>1, <1>2, <1>3, <1>5, RankedGrows
  <2> HIDE DEF n
  <2> QED
    BY <1>4, <1>6, <1>7, <2>1 DEF Between
<1>9. Between(Sum(S, "low"), Sum(S, "close"), Sum(S, "high"))
  <2> DEFINE w(field) == [p \in S |-> p[field]]
  <2>1. \A field : Sum(S, field) = Total(w(field), S)
    BY DEF Sum, SumFunction, Total
  <2>2. \A p \in S : /\ w("low")[p] \in Nat /\ w("close")[p] \in Nat /\ w("high")[p] \in Nat
                     /\ w("low")[p] <= w("close")[p] /\ w("close")[p] <= w("high")[p]
    BY <1>2, <1>3
  <2> HIDE DEF w
  <2>3. Total(w("low"), S) <= Total(w("close"), S) /\ Total(w("close"), S) <= Total(w("high"), S)
    BY <1>1, <2>2, TotalGrows
  <2> QED
    BY <2>1, <2>3 DEF Between
<1>10. ASSUME NEW p \in S
       PROVE  FusedPublished(S) >= p.published /\ FusedPublished(S) >= p.timestamp
  <2> DEFINE T == { q.published : q \in S }
  <2>1. T \in SUBSET (0 .. MaxInstant) /\ p.published \in T
    BY CandleTyped
  <2>2. FusedPublished(S) = Max(T)
    BY DEF FusedPublished
  <2> HIDE DEF T
  <2>3. Max(T) \in T /\ \A y \in T : y <= Max(T)
    BY <2>1, MaxOf, FusionAssumption
  <2>4. p.published >= p.timestamp /\ p.timestamp \in 0 .. MaxInstant
    BY CandleTyped DEF FusionInv
  <2>5. p.published \in 0 .. MaxInstant /\ Max(T) \in 0 .. MaxInstant
    BY <2>1, <2>3
  <2>6. p.published \in Nat /\ p.timestamp \in Nat /\ Max(T) \in Nat
    BY <2>4, <2>5
  <2>7. p.published <= Max(T)
    BY <2>1, <2>3
  <2> HIDE DEF FusedPublished
  <2> QED
    BY <2>2, <2>4, <2>6, <2>7
<1>11. ASSUME n >= 3, NEW field \in {"low", "high", "close"} PROVE Robust(S, field)
  <2> SUFFICES ASSUME NEW p \in S
               PROVE  LET others == { q[field] : q \in S \ {p} }
                      IN  Between(2 * Min(others), Median(S, field), 2 * Max(others))
    BY DEF Robust
  <2> DEFINE others == { q[field] : q \in S \ {p} }
  <2>1. ASSUME NEW k \in 2 .. n - 1
        PROVE  /\ Min(others) <= Ranked(S, field, k) /\ Ranked(S, field, k) <= Max(others)
               /\ Min(others) \in Nat /\ Max(others) \in Nat
    BY <1>1, <1>2, <1>5, RankedRobust
  <2>2. i \in 2 .. n - 1 /\ j \in 2 .. n - 1 /\ i \in 1 .. n /\ j \in 1 .. n
    BY <1>4, <1>11
  <2> HIDE DEF others, n
  <2>3. Ranked(S, field, i) \in Nat /\ Ranked(S, field, j) \in Nat
    BY <1>7, <2>2
  <2>4. Between(2 * Min(others), Median(S, field), 2 * Max(others))
    BY <1>6, <2>1, <2>2, <2>3 DEF Between
  <2> QED
    BY <2>4 DEF others
<1> QED
  BY <1>8, <1>9, <1>10, <1>11

\* In a series of one source every candle lasts.
LEMMA CandlesLast ==
    ASSUME FusionInv, NEW s, NEW S, S = { p \in candles : p.source = s }, NEW p \in S,
           Cardinality(S) # 1
    PROVE  Duration(S, p) \in Nat
<1> DEFINE later   == { q.timestamp : q \in { q \in S : q.timestamp > p.timestamp } }
           earlier == { q.timestamp : q \in { q \in S : q.timestamp < p.timestamp } }
<1>1. \A q \in S : q.timestamp \in 0 .. MaxInstant
  BY CandleTyped
<1>2. MaxInstant \in Nat /\ p.timestamp \in Nat
  BY <1>1, FusionAssumption
<1>3. PICK q \in S : q # p
  <2>1. Cardinality({p}) = 1
    BY FS_Singleton
  <2> QED
    BY <2>1
<1>4. q.timestamp # p.timestamp /\ q.timestamp \in Nat
  BY <1>1, <1>3 DEF FusionInv
<1>5. later # {} \/ earlier # {}
  BY <1>2, <1>4
<1>6. /\ later \in SUBSET Nat /\ \A x \in later : x > p.timestamp
      /\ earlier \in SUBSET (0 .. MaxInstant) /\ \A x \in earlier : x < p.timestamp
  BY <1>1
<1>7. Duration(S, p) = IF later # {} THEN Min(later) - p.timestamp ELSE p.timestamp - Max(earlier)
  BY DEF Duration
<1> HIDE DEF later, earlier
<1>8. CASE later # {}
  <2>1. Min(later) \in later
    BY <1>6, <1>8, MinOf
  <2>2. Min(later) \in Nat /\ Min(later) > p.timestamp
    BY <1>6, <2>1
  <2> QED
    BY <1>2, <1>7, <1>8, <2>2
<1>9. CASE later = {}
  <2>1. Max(earlier) \in earlier
    BY <1>2, <1>5, <1>6, <1>9, MaxOf
  <2>2. Max(earlier) \in 0 .. MaxInstant /\ Max(earlier) < p.timestamp
    BY <1>6, <2>1
  <2> QED
    BY <1>2, <1>7, <1>9, <2>2
<1> QED
  BY <1>8, <1>9

LEMMA SeriesAverage ==
    ASSUME FusionInv, NEW s, NEW S, S = { p \in candles : p.source = s }, S # {}
    PROVE  LET prices  == { p.close : p \in S }
               average == Twap(S)
           IN  Between(Min(prices) * average.den, average.num, Max(prices) * average.den)
<1> DEFINE prices  == { p.close : p \in S }
           lasting == [p \in S |-> IF Cardinality(S) = 1 THEN 1 ELSE Duration(S, p)]
           c       == [p \in S |-> p.close]
           v       == [p \in S |-> p.close * lasting[p]]
<1>1. IsFiniteSet(S)
  BY FS_Subset DEF FusionInv
<1>2. Twap(S).num = Total(v, S) /\ Twap(S).den = Total(lasting, S)
  BY DEF Twap, SumFunction, Total
<1>3. \A p \in S : lasting[p] \in Nat
  BY CandlesLast
<1>4. MaxPrice \in Nat /\ prices \in SUBSET (0 .. MaxPrice) /\ prices # {}
  <2>1. ASSUME NEW p \in S PROVE p["close"] \in 0 .. MaxPrice
    BY CandleTyped, FusionAssumption
  <2> QED
    BY <2>1, FusionAssumption
<1>5. \A p \in S : c[p] = p.close /\ c[p] \in prices /\ v[p] = c[p] * lasting[p]
  OBVIOUS
<1> HIDE DEF prices, lasting, c, v
<1>6. /\ Max(prices) \in prices /\ \A y \in prices : y <= Max(prices)
      /\ Min(prices) \in prices /\ \A y \in prices : Min(prices) <= y
  <2>1. prices \in SUBSET Nat
    BY <1>4
  <2> QED
    BY <1>4, <2>1, MaxOf, MinOf
<1>7. /\ Min(prices) \in Nat /\ Max(prices) \in Nat
      /\ \A p \in S : c[p] \in Nat
  <2>1. \A x \in prices : x \in Nat
    BY <1>4
  <2> QED
    BY <1>5, <1>6, <2>1
<1>8. /\ Min(prices) * Total(lasting, S) <= Total(v, S)
      /\ Total(v, S) <= Max(prices) * Total(lasting, S)
  BY <1>1, <1>3, <1>5, <1>6, <1>7, WeightsAverage
<1> QED
  BY <1>2, <1>8 DEF Between, prices

\* For any number of sources, candles, prices and times: what the consensus makes of the
\* candles of a time lies among them, is published after all of them and, from three
\* sources on, withstands any one; and twap lies between the prices of its series.
THEOREM FusionStaysWithin == FusionSpec => []ConsensusWithinSources
<1>1. FusionInv => ConsensusWithinSources
  <2> SUFFICES ASSUME FusionInv PROVE ConsensusWithinSources
    OBVIOUS
  <2>1. \A t : Bucket(t) \in SUBSET candles
    BY DEF Bucket
  <2>2. \A S \in { Bucket(t) : t \in 0 .. MaxInstant } \ {{}} : S \in SUBSET candles /\ S # {}
    BY <2>1
  <2> QED
    BY <2>2, BucketsFuse, SeriesAverage DEF ConsensusWithinSources
<1> QED
  BY <1>1, FusionInvInit, FusionInvStep, PTL DEF FusionSpec

-----------------------------------------------------------------------------
(* Prices adjusted for splits *)

\* Where the source shows a jump, whether or not it has been explained.
Raw(d) == d > 1 /\ Exceeds(Scaled(d - 1, {}), Scaled(d, {}))

\* What is known of the adjustments: each has its own day, and the factor that the
\* closes of that day and the day before suggest.
SplitInv ==
    /\ closes \in Seq(Closing \cup {NaN})
    /\ IsFiniteSet(adjustments)
    /\ \A a \in adjustments :
         /\ a.ex_date \in DOMAIN closes /\ a.ex_date > 1
         /\ \E f \in SplitFactors(closes[a.ex_date - 1], closes[a.ex_date]) :
              a.num = f.num /\ a.den = f.den
    /\ \A a, b \in adjustments : a.ex_date = b.ex_date => a = b
    /\ \A d \in quarantine : d \in DOMAIN closes /\ Raw(d)

LEMMA SplitInvInit == SplitInit => SplitInv
<1> SUFFICES ASSUME SplitInit PROVE SplitInv
  OBVIOUS
<1>1. IsFiniteSet(adjustments)
  BY FS_EmptySet DEF SplitInit
<1> QED
  BY <1>1 DEF SplitInit, SplitInv

\* A factor relates two prices so that the second is the first times it, but for
\* the tolerance.
LEMMA FactorFits ==
    ASSUME NEW x, NEW y, NEW f \in SplitFactors(x, y)
    PROVE  /\ x # NaN /\ y # NaN
           /\ f.num \in Nat \ {0} /\ f.den \in Nat \ {0}
           /\ \/ f.num = 1 /\ Near(x, f.den * y)
              \/ f.den = 1 /\ Near(f.num * x, y)
<1>1. {x, y} \cap {0, NaN} = {}
  BY DEF SplitFactors
<1>2. PICK r \in SplitRatios : \/ f = [num |-> 1, den |-> r] /\ Near(x, r * y)
                               \/ f = [num |-> r, den |-> 1] /\ Near(r * x, y)
  <2>1. f \in { [num |-> 1, den |-> r] : r \in { r \in SplitRatios : Near(x, r * y) } }
             \cup { [num |-> r, den |-> 1] : r \in { r \in SplitRatios : Near(r * x, y) } }
    BY <1>1 DEF SplitFactors
  <2> QED
    BY <2>1
<1>3. r \in Nat \ {0}
  BY DEF SplitRatios
<1>4. x # NaN /\ y # NaN
  BY <1>1
<1>5. CASE f = [num |-> 1, den |-> r] /\ Near(x, r * y)
  BY <1>3, <1>4, <1>5
<1>6. CASE f = [num |-> r, den |-> 1] /\ Near(r * x, y)
  BY <1>3, <1>4, <1>6
<1> QED
  BY <1>2, <1>5, <1>6

\* What is near is within 9 percent, seen from either side.
LEMMA NearEnough ==
    ASSUME NEW x \in Nat, NEW y \in Nat, Near(x, y)
    PROVE  ~(100 * Distance(x, y) > Threshold * y) /\ ~(100 * Distance(y, x) > Threshold * x)
<1>1. /\ 100 * Distance(x, y) <= 9 * y
      /\ 100 * Distance(y, x) <= 9 * x
  BY DEF Near, Distance
<1>2. 9 * y <= Threshold * y /\ 9 * x <= Threshold * x
  BY SplitAssumption
<1>3. Threshold * x \in Nat /\ Threshold * y \in Nat
  BY SplitAssumption
<1> QED
  BY <1>1, <1>2, <1>3 DEF Distance

\* Whether two prices are that far apart does not depend on their unit.
LEMMA SameInAnyUnit ==
    ASSUME NEW x \in Nat, NEW y \in Nat, NEW k \in Nat \ {0}
    PROVE  100 * Distance(k * x, k * y) > Threshold * (k * y)
             <=> 100 * Distance(x, y) > Threshold * y
<1>1. Distance(k * x, k * y) = k * Distance(x, y)
  <2>1. CASE x > y
    <3>1. k * x > k * y /\ k * (x - y) = k * x - k * y
      BY <2>1
    <3> QED
      BY <2>1, <3>1 DEF Distance
  <2>2. CASE ~(x > y)
    <3>1. ~(k * x > k * y) /\ k * (y - x) = k * y - k * x
      BY <2>2
    <3> QED
      BY <2>2, <3>1 DEF Distance
  <2> QED
    BY <2>1, <2>2
<1>2. Distance(x, y) \in Nat
  BY DEF Distance
<1> DEFINE d == Distance(x, y)
<1>3. Threshold * y \in Nat /\ 100 * d \in Nat
  BY <1>2, SplitAssumption
<1>4. 100 * (k * d) = k * (100 * d) /\ Threshold * (k * y) = k * (Threshold * y)
  BY <1>2, SplitAssumption
<1> HIDE DEF d
<1>5. \A m, n \in Nat : k * m > k * n <=> m > n
  OBVIOUS
<1> QED
  BY <1>1, <1>3, <1>4, <1>5 DEF d

\* A product of positive numbers is positive.
\* The product of the factors is that of all but one, times the one.
LEMMA ProductTakes ==
    ASSUME SplitInv, NEW S \in SUBSET adjustments, NEW field \in {"num", "den"}
    PROVE  /\ Product(S, field) \in Nat \ {0}
           /\ S = {} => Product(S, field) = 1
           /\ \A a \in S : Product(S, field) = a[field] * Product(S \ {a}, field)
<1>1. \A a \in adjustments : a[field] \in Nat \ {0}
  BY FactorFits DEF SplitInv
<1> DEFINE w(T) == [a \in T |-> a[field]]
<1>2. \A T : Product(T, field) = Multiplied(w(T), T)
  BY DEF Product, FoldFunction, Multiplied
<1>3. IsFiniteSet(S) /\ \A a \in S : w(S)[a] \in Nat \ {0}
  BY <1>1, FS_Subset DEF SplitInv
<1>4. /\ Multiplied(w(S), S) \in Nat \ {0}
      /\ S = {} => Multiplied(w(S), S) = 1
      /\ \A a \in S : Multiplied(w(S), S) = w(S)[a] * Multiplied(w(S), S \ {a})
  <2> HIDE DEF w
  <2> QED
    BY <1>3, MultipliedTakes, MultipliedPositive
<1>5. ASSUME NEW a \in S PROVE Multiplied(w(S \ {a}), S \ {a}) = Multiplied(w(S), S \ {a})
  <2>1. IsFiniteSet(S \ {a})
    BY <1>3, FS_Subset
  <2>2. \A x \in S \ {a} : w(S)[x] \in Nat /\ w(S \ {a})[x] = w(S)[x]
    BY <1>3
  <2> HIDE DEF w
  <2> QED
    BY <2>1, <2>2, MultipliedSame
<1>6. \A a \in S : w(S)[a] = a[field]
  OBVIOUS
<1> HIDE DEF w
<1> QED
  BY <1>2, <1>4, <1>5, <1>6

\* The adjustments that a close of day d is multiplied by.
Later(d) == { a \in adjustments : d < a.ex_date }

LEMMA ClosesTyped ==
    ASSUME SplitInv
    PROVE  /\ NaN \notin Nat
           /\ \A i \in DOMAIN closes : closes[i] \in Nat \cup {NaN} /\ i \in Nat
           /\ \A i \in DOMAIN closes : i > 1 => i - 1 \in DOMAIN closes
<1>1. closes \in Seq(Closing \cup {NaN})
  BY DEF SplitInv
<1>2. \A i \in DOMAIN closes : closes[i] \in Closing \cup {NaN}
  BY <1>1
<1>3. DOMAIN closes = 1 .. Len(closes) /\ Len(closes) \in Nat
  BY <1>1
<1>4. \A i \in DOMAIN closes : i \in Nat /\ (i > 1 => i - 1 \in DOMAIN closes)
  BY <1>3
<1> QED
  BY <1>2, <1>4, SplitAssumption

\* Exceeds in terms of whole numbers.
LEMMA ExceedsInNumbers ==
    ASSUME SplitInv, NEW d \in DOMAIN closes, d - 1 \in DOMAIN closes,
           NEW S \in SUBSET adjustments, NEW T \in SUBSET adjustments
    PROVE  LET b == closes[d - 1]
               c == closes[d]
               x == (c * Product(T, "num")) * Product(S, "den")
               y == (b * Product(S, "num")) * Product(T, "den")
           IN  Exceeds(Scaled(d - 1, S), Scaled(d, T))
                 <=> \/ b = NaN
                     \/ b > 0 /\ c = NaN
                     \/ b > 0 /\ c # NaN /\ 100 * Distance(x, y) > Threshold * y
<1> DEFINE b == closes[d - 1]
           c == closes[d]
           N(U) == Product(U, "num")
           D(U) == Product(U, "den")
<1>1. b \in Nat \cup {NaN} /\ c \in Nat \cup {NaN} /\ NaN \notin Nat
  BY ClosesTyped
<1>2. N(S) \in Nat \ {0} /\ D(S) \in Nat \ {0} /\ N(T) \in Nat \ {0} /\ D(T) \in Nat \ {0}
  BY ProductTakes
<1>3. b = NaN => Scaled(d - 1, S) = NaN
  BY DEF Scaled
<1>4. b # NaN => /\ Scaled(d - 1, S) = [num |-> b * N(S), den |-> D(S)]
                 /\ Scaled(d - 1, S) # NaN
  <2> SUFFICES ASSUME b # NaN PROVE /\ Scaled(d - 1, S) = [num |-> b * N(S), den |-> D(S)]
                                    /\ Scaled(d - 1, S) # NaN
    OBVIOUS
  <2>1. Scaled(d - 1, S) = [num |-> b * N(S), den |-> D(S)]
    BY DEF Scaled
  <2>2. b * N(S) \in Nat /\ D(S) \in Nat
    BY <1>1, <1>2
  <2> QED
    BY <2>1, <2>2, SplitAssumption
<1>5. c = NaN => Scaled(d, T) = NaN
  BY DEF Scaled
<1>6. c # NaN => /\ Scaled(d, T) = [num |-> c * N(T), den |-> D(T)]
                 /\ Scaled(d, T) # NaN
  <2> SUFFICES ASSUME c # NaN PROVE /\ Scaled(d, T) = [num |-> c * N(T), den |-> D(T)]
                                    /\ Scaled(d, T) # NaN
    OBVIOUS
  <2>1. Scaled(d, T) = [num |-> c * N(T), den |-> D(T)]
    BY DEF Scaled
  <2>2. c * N(T) \in Nat /\ D(T) \in Nat
    BY <1>1, <1>2
  <2> QED
    BY <2>1, <2>2, SplitAssumption
<1>7. b # NaN => (b * N(S) > 0 <=> b > 0)
  BY <1>1, <1>2
<1> HIDE DEF b, c, N, D
<1>8. Exceeds(Scaled(d - 1, S), Scaled(d, T))
        <=> \/ b = NaN
            \/ b > 0 /\ c = NaN
            \/ /\ b > 0 /\ c # NaN
               /\ 100 * Distance((c * N(T)) * D(S), (b * N(S)) * D(T))
                    > Threshold * ((b * N(S)) * D(T))
  <2>1. CASE b = NaN
    BY <1>3, <2>1 DEF Exceeds
  <2>2. CASE b # NaN /\ c = NaN
    BY <1>4, <1>5, <1>7, <2>2 DEF Exceeds
  <2>3. CASE b # NaN /\ c # NaN
    BY <1>4, <1>6, <1>7, <2>3 DEF Exceeds
  <2> QED
    BY <2>1, <2>2, <2>3
<1> QED
  BY <1>8 DEF b, c, N, D

\* An adjustment takes the jump of its own day away and leaves all others alone.
LEMMA JumpIsRaw ==
    ASSUME SplitInv, NEW d \in DOMAIN closes
    PROVE  Jump(d) <=> Raw(d) /\ \A a \in adjustments : a.ex_date # d
<1> SUFFICES ASSUME d > 1
             PROVE  Exceeds(Adjusted(d - 1), Adjusted(d))
                      <=> /\ Exceeds(Scaled(d - 1, {}), Scaled(d, {}))
                          /\ \A a \in adjustments : a.ex_date # d
  BY DEF Jump, Raw
<1> DEFINE b == closes[d - 1]
           c == closes[d]
           L == Later(d)
           M == Later(d - 1)
           n == Product(L, "num")
           m == Product(L, "den")
<1>1. /\ d \in Nat /\ d - 1 \in DOMAIN closes
      /\ b \in Nat \cup {NaN} /\ c \in Nat \cup {NaN} /\ NaN \notin Nat
  BY ClosesTyped
<1>2. Adjusted(d - 1) = Scaled(d - 1, M) /\ Adjusted(d) = Scaled(d, L)
  BY DEF Adjusted, Later
<1>3. M \in SUBSET adjustments /\ L \in SUBSET adjustments /\ {} \in SUBSET adjustments
  BY DEF Later
<1>4. n \in Nat \ {0} /\ m \in Nat \ {0}
  BY <1>3, ProductTakes
<1>5. n * m \in Nat \ {0}
  BY <1>4
<1>6. Product({}, "num") = 1 /\ Product({}, "den") = 1
  BY <1>3, ProductTakes
<1>7. Exceeds(Scaled(d - 1, {}), Scaled(d, {}))
        <=> \/ b = NaN
            \/ b > 0 /\ c = NaN
            \/ b > 0 /\ c # NaN /\ 100 * Distance(c, b) > Threshold * b
  <2>1. (c # NaN => (c * 1) * 1 = c) /\ (b # NaN => (b * 1) * 1 = b)
    BY <1>1
  <2> HIDE DEF b, c
  <2> QED
    BY <1>1, <1>3, <1>6, <2>1, ExceedsInNumbers DEF b, c
<1>8. Exceeds(Adjusted(d - 1), Adjusted(d))
        <=> \/ b = NaN
            \/ b > 0 /\ c = NaN
            \/ /\ b > 0 /\ c # NaN
               /\ 100 * Distance((c * n) * Product(M, "den"), (b * Product(M, "num")) * m)
                    > Threshold * ((b * Product(M, "num")) * m)
  BY <1>1, <1>2, <1>3, ExceedsInNumbers
<1>9. CASE \A a \in adjustments : a.ex_date # d
  <2>1. M = L
    <3>1. ASSUME NEW a \in adjustments PROVE d - 1 < a.ex_date <=> d < a.ex_date
      <4>1. a.ex_date \in Nat /\ a.ex_date # d
        BY <1>9 DEF SplitInv
      <4> QED
        BY <1>1, <4>1
    <3> QED
      BY <3>1 DEF Later
  <2> HIDE DEF b, c, L, M, n, m
  <2>2. c # NaN /\ b # NaN => /\ (c * n) * m = (n * m) * c
                              /\ (b * n) * m = (n * m) * b
    BY <1>1, <1>4
  <2>3. c # NaN /\ b # NaN
          => (100 * Distance((n * m) * c, (n * m) * b) > Threshold * ((n * m) * b)
                <=> 100 * Distance(c, b) > Threshold * b)
    BY <1>1, <1>5, SameInAnyUnit
  <2>4. Product(M, "num") = n /\ Product(M, "den") = m
    BY <2>1 DEF n, m
  <2> QED
    BY <1>1, <1>7, <1>8, <1>9, <2>2, <2>3, <2>4
<1>10. ASSUME NEW a \in adjustments, a.ex_date = d
       PROVE  ~Exceeds(Adjusted(d - 1), Adjusted(d))
  <2>1. a \in M /\ M \ {a} = L
    <3>1. ASSUME NEW e \in adjustments PROVE d - 1 < e.ex_date <=> d < e.ex_date \/ e = a
      <4>1. e.ex_date \in Nat /\ (e.ex_date = d => e = a)
        BY <1>10 DEF SplitInv
      <4> QED
        BY <1>1, <1>10, <4>1
    <3> QED
      BY <1>1, <1>10, <3>1 DEF Later
  <2>2. Product(M, "num") = a.num * n /\ Product(M, "den") = a.den * m
    <3> HIDE DEF L, M
    <3>1. /\ Product(M, "num") = a["num"] * Product(M \ {a}, "num")
          /\ Product(M, "den") = a["den"] * Product(M \ {a}, "den")
      BY <1>3, <2>1, ProductTakes
    <3> QED
      BY <2>1, <3>1
  <2>3. PICK f \in SplitFactors(b, c) : a.num = f.num /\ a.den = f.den
    BY <1>10 DEF SplitInv
  <2>4. /\ b \in Nat /\ c \in Nat
        /\ a.num \in Nat \ {0} /\ a.den \in Nat \ {0}
        /\ \/ a.num = 1 /\ Near(b, a.den * c)
           \/ a.den = 1 /\ Near(a.num * b, c)
    BY <1>1, <2>3, FactorFits
  <2> DEFINE x == a.den * c
             y == a.num * b
  <2>5. x \in Nat /\ y \in Nat
    BY <2>4
  <2>6. ~(100 * Distance(x, y) > Threshold * y)
    <3>1. CASE a.num = 1 /\ Near(b, x)
      <4>1. y = b
        BY <2>4, <3>1
      <4> HIDE DEF x, y
      <4> QED
        BY <2>5, <3>1, <4>1, NearEnough
    <3>2. CASE a.den = 1 /\ Near(y, c)
      <4>1. x = c
        BY <2>4, <3>2
      <4> HIDE DEF x, y
      <4> QED
        BY <2>5, <3>2, <4>1, NearEnough
    <3> QED
      BY <2>4, <3>1, <3>2
  <2>7. /\ (c * n) * (a.den * m) = (n * m) * x
        /\ (b * (a.num * n)) * m = (n * m) * y
    <3>1. \A p, q, u, v \in Nat : /\ (p * u) * (q * v) = (u * v) * (q * p)
                                  /\ (p * (q * u)) * v = (u * v) * (q * p)
      OBVIOUS
    <3> HIDE DEF b, c, n, m
    <3> QED
      BY <1>4, <2>4, <3>1
  <2>8. ~(100 * Distance((n * m) * x, (n * m) * y) > Threshold * ((n * m) * y))
    <3> HIDE DEF x, y, n, m
    <3> QED
      BY <1>5, <2>5, <2>6, SameInAnyUnit
  <2> HIDE DEF b, c, L, M, n, m, x, y
  <2> QED
    BY <1>1, <1>8, <2>2, <2>4, <2>7, <2>8
<1> QED
  BY <1>9, <1>10

\* Nothing that happens to the adjustments, and no new day, changes what the source
\* showed.
LEMMA RawStays ==
    ASSUME SplitInv, NEW d \in DOMAIN closes,
           \A i \in DOMAIN closes : closes'[i] = closes[i]
    PROVE  Raw(d)' <=> Raw(d)
<1>1. d > 1 => d - 1 \in DOMAIN closes
  BY DEF SplitInv
<1> QED
  BY <1>1 DEF Raw, Scaled

LEMMA SplitInvStep == SplitInv /\ [SplitNext]_splitVars => SplitInv'
<1> SUFFICES ASSUME SplitInv, [SplitNext]_splitVars PROVE SplitInv'
  OBVIOUS
<1>1. CASE Publish
  <2>1. PICK c \in Closing \cup {NaN} : closes' = Append(closes, c)
    BY <1>1 DEF Publish
  <2>2. UNCHANGED <<adjustments, quarantine>>
    BY <1>1 DEF Publish
  <2>3. /\ closes' \in Seq(Closing \cup {NaN})
        /\ DOMAIN closes \subseteq DOMAIN closes'
        /\ \A i \in DOMAIN closes : closes'[i] = closes[i]
    BY <2>1 DEF SplitInv
  <2>4. \A d \in quarantine : d \in DOMAIN closes' /\ Raw(d)'
    BY <2>3, RawStays DEF SplitInv
  <2>5. ASSUME NEW a \in adjustments
        PROVE  /\ closes'[a.ex_date - 1] = closes[a.ex_date - 1]
               /\ closes'[a.ex_date] = closes[a.ex_date]
    <3>1. a.ex_date \in DOMAIN closes /\ a.ex_date - 1 \in DOMAIN closes
      BY DEF SplitInv
    <3> QED
      BY <2>3, <3>1
  <2> QED
    BY <2>2, <2>3, <2>4, <2>5 DEF SplitInv
<1>2. ASSUME NEW d \in DOMAIN closes, Explain(d) PROVE SplitInv'
  <2>1. Jump(d) /\ closes' = closes
    BY <1>2 DEF Explain
  <2>2. Raw(d) /\ \A a \in adjustments : a.ex_date # d
    BY <2>1, JumpIsRaw
  <2>3. \A i \in DOMAIN closes : Raw(i)' <=> Raw(i)
    BY <2>1, RawStays
  <2>4. ASSUME NEW f \in SplitFactors(closes[d - 1], closes[d]), UNCHANGED quarantine,
               adjustments' = adjustments \cup {[ex_date |-> d, num |-> f.num, den |-> f.den]}
        PROVE  SplitInv'
    <3>1. IsFiniteSet(adjustments')
      BY <2>4, FS_AddElement DEF SplitInv
    <3>2. d > 1
      BY <2>2 DEF Raw
    <3> QED
      BY <2>1, <2>2, <2>3, <2>4, <3>1, <3>2 DEF SplitInv
  <2>5. ASSUME quarantine' = quarantine \cup {d}, UNCHANGED adjustments PROVE SplitInv'
    BY <2>1, <2>2, <2>3, <2>5 DEF SplitInv
  <2> QED
    BY <1>2, <2>4, <2>5 DEF Explain
<1>3. CASE UNCHANGED splitVars
  <2>1. closes' = closes /\ UNCHANGED <<adjustments, quarantine>>
    BY <1>3 DEF splitVars
  <2>2. \A i \in DOMAIN closes : Raw(i)' <=> Raw(i)
    BY <2>1, RawStays
  <2> QED
    BY <2>1, <2>2 DEF SplitInv
<1> QED
  BY <1>1, <1>2, <1>3 DEF SplitNext

\* For series of any length, any closes and any threshold above the tolerance, in
\* whatever order the jumps are explained: an adjustment takes away the jump of
\* its own day and touches no other.
THEOREM AdjustmentsExplain == SplitSpec => []JumpsExplained
<1>1. SplitInv => JumpsExplained
  BY JumpIsRaw DEF SplitInv, JumpsExplained, Raw
<1>2. SplitSpec => []SplitInv
  BY SplitInvInit, SplitInvStep, PTL DEF SplitSpec
<1> QED
  BY <1>1, <1>2, PTL
=============================================================================
