------------------------- MODULE TrialRegistryV2Proofs -------------------------
(***************************************************************************)
(* Whatever number of registrations and migrations overlap, and wherever   *)
(* they die, no file and no list in memory ever holds the same trial_id    *)
(* twice or both prospective and migrated rows.                            *)
(*                                                                         *)
(* The argument follows the data: a list is made by appending a strict row *)
(* to a list that was read and found strict and without that id, or by     *)
(* copying the legacy registry; from there to the registry it is only      *)
(* moved, or becomes a text that does not parse.                           *)
(***************************************************************************)
EXTENDS TrialRegistryV2, TLAPS

Distinct(list) == \A i, j \in DOMAIN list : list[i].id = list[j].id => i = j

Uniform(list) == \A i, j \in DOMAIN list : list[i].strict = list[j].strict

GoodList(list) == list \in Seq(Row) /\ Distinct(list) /\ Uniform(list)

GoodFile(content) == content \in {None, Torn} \/ GoodList(content)

ListsGood ==
    /\ at \in [Proc -> Places]
    /\ row \in [Proc -> Row \cup {None}]
    /\ rows \in [Proc -> Seq(Row)]
    /\ \A p \in Proc : GoodList(rows[p])
    /\ \A p \in Proc : at[p] = "load" => row[p] \in Row /\ row[p].strict

V2Inv ==
    /\ GoodFile(mainFile)
    /\ GoodFile(tmpFile)
    /\ legacy \in Seq(LegacyTrial)
    /\ Distinct(legacy)
    /\ ListsGood

LEMMA EmptyGood == GoodList(<<>>)
  BY DEF GoodList, Distinct, Uniform

\* What a reader gets from a good file is a good list.
LEMMA ReadableGood == GoodFile(mainFile) => GoodList(Readable)
  BY EmptyGood DEF GoodFile, Readable

\* A strict row with a new id, at the end of a good list of strict rows.
LEMMA AppendGood ==
    ASSUME NEW list, GoodList(list), Strict(list), NEW r \in Row, r.strict, ~Taken(list, r)
    PROVE  GoodList(Append(list, r))
<1> DEFINE longer == Append(list, r)
<1>1. list \in Seq(Row) /\ longer \in Seq(Row) /\ Len(longer) = Len(list) + 1
  BY DEF GoodList
<1>2. \A i \in DOMAIN longer : \/ i \in DOMAIN list /\ longer[i] = list[i]
                               \/ i = Len(list) + 1 /\ longer[i] = r
  BY <1>1
<1>3. DOMAIN list = 1 .. Len(list)
  BY <1>1
<1> HIDE DEF longer
<1>4. Distinct(longer)
  <2> SUFFICES ASSUME NEW i \in DOMAIN longer, NEW j \in DOMAIN longer,
                      longer[i].id = longer[j].id
               PROVE  i = j
    BY DEF Distinct
  <2>1. CASE i \in DOMAIN list /\ longer[i] = list[i] /\ j \in DOMAIN list /\ longer[j] = list[j]
    BY <2>1 DEF GoodList, Distinct
  <2>2. CASE i \in DOMAIN list /\ longer[i] = list[i] /\ longer[j] = r
    BY <2>2 DEF Taken
  <2>3. CASE longer[i] = r /\ j \in DOMAIN list /\ longer[j] = list[j]
    BY <2>3 DEF Taken
  <2> QED
    BY <1>2, <2>1, <2>2, <2>3
<1>5. Uniform(longer)
  <2>1. \A i \in DOMAIN longer : longer[i].strict = TRUE
    <3> SUFFICES ASSUME NEW i \in DOMAIN longer PROVE longer[i].strict = TRUE
      OBVIOUS
    <3>1. CASE i \in DOMAIN list /\ longer[i] = list[i]
      <4>1. list[i] \in Row /\ list[i].strict
        BY <1>1, <3>1 DEF Strict
      <4> QED
        BY <3>1, <4>1 DEF Row
    <3>2. CASE longer[i] = r
      BY <3>2 DEF Row
    <3> QED
      BY <1>2, <3>1, <3>2
  <2> QED
    BY <2>1 DEF Uniform
<1> QED
  BY <1>1, <1>4, <1>5 DEF GoodList, longer

\* The copy of a legacy registry without repeated names.
LEMMA CopyGood ==
    ASSUME NEW list \in Seq(LegacyTrial), Distinct(list) PROVE GoodList(Copy(list))
<1>1. Copy(list) \in Seq(Row) /\ DOMAIN Copy(list) = DOMAIN list
  <2>1. \A i \in DOMAIN list : Migrated(list[i]) \in Row
    <3> SUFFICES ASSUME NEW i \in DOMAIN list PROVE Migrated(list[i]) \in Row
      OBVIOUS
    <3>1. list[i] \in LegacyTrial
      OBVIOUS
    <3> QED
      BY <3>1 DEF LegacyTrial, Row, Migrated
  <2>2. DOMAIN list = 1 .. Len(list) /\ Len(list) \in Nat
    OBVIOUS
  <2>3. Copy(list) \in [1 .. Len(list) -> Row]
    BY <2>1, <2>2 DEF Copy
  <2> QED
    BY <2>2, <2>3
<1>2. \A i \in DOMAIN list : Copy(list)[i].id = list[i].id /\ Copy(list)[i].strict = FALSE
  BY DEF Copy, Migrated
<1> QED
  BY <1>1, <1>2 DEF GoodList, Distinct, Uniform

LEMMA V2InvInit == V2Init => V2Inv
  BY EmptyGood DEF V2Init, FilesInit, V2Inv, GoodFile, ListsGood, Distinct, Places

\* A step that leaves the files and the lists in memory alone.
LEMMA ListsMove ==
    ASSUME ListsGood, NEW p \in Proc, NEW from, NEW to \in Places \ {"load"}, Go(p, from, to),
           NEW list, GoodList(list), rows' = [rows EXCEPT ![p] = list],
           \/ UNCHANGED row
           \/ row' = [row EXCEPT ![p] = None]
    PROVE  ListsGood'
<1>1. at' = [at EXCEPT ![p] = to] /\ at' \in [Proc -> Places]
  BY DEF ListsGood, Go
<1>2. row' \in [Proc -> Row \cup {None}] /\ \A q \in Proc \ {p} : row'[q] = row[q]
  BY DEF ListsGood
<1>3. rows' \in [Proc -> Seq(Row)] /\ \A q \in Proc : GoodList(rows'[q])
  BY DEF ListsGood, GoodList
<1>4. \A q \in Proc : at'[q] = "load" => row'[q] \in Row /\ row'[q].strict
  BY <1>1, <1>2 DEF ListsGood
<1> QED
  BY <1>1, <1>2, <1>3, <1>4 DEF ListsGood

\* A call that is over forgets its list.
LEMMA ListsForget ==
    ASSUME ListsGood, NEW p \in Proc, NEW from, NEW to \in {"idle", "dead"}, Over(p, from, to)
    PROVE  ListsGood'
  BY ListsMove, EmptyGood DEF Over, Places

\* A call that goes on keeps it.
LEMMA ListsStay ==
    ASSUME ListsGood, NEW p \in Proc, NEW from, NEW to \in Places \ {"load"}, Go(p, from, to),
           UNCHANGED <<row, rows>>
    PROVE  ListsGood'
  BY DEF ListsGood, Go

LEMMA V2InvStep == V2Inv /\ [V2Next]_v2Vars => V2Inv'
<1> SUFFICES ASSUME V2Inv, [V2Next]_v2Vars PROVE V2Inv'
  OBVIOUS
<1>1. ASSUME NEW p \in Proc, Register(p) PROVE V2Inv'
  <2>1. ListsGood'
    BY <1>1 DEF V2Inv, ListsGood, Register, Begin, Go, Places
  <2> QED
    BY <1>1, <2>1 DEF V2Inv, Register, Begin
<1>2. ASSUME NEW p \in Proc, Load(p) PROVE V2Inv'
  <2>1. CASE Over(p, "load", "idle")
    BY <1>2, <2>1, ListsForget DEF V2Inv, Load
  <2>2. CASE /\ Loads /\ ~Taken(Readable, row[p]) /\ Go(p, "load", "open_tmp")
             /\ rows' = [rows EXCEPT ![p] = Append(Readable, row[p])] /\ UNCHANGED row
    <3>1. GoodList(Append(Readable, row[p]))
      BY <1>2, <2>2, ReadableGood, AppendGood DEF V2Inv, ListsGood, Load, Loads
    <3>2. ListsGood'
      BY <2>2, <3>1, ListsMove DEF V2Inv, Places
    <3> QED
      BY <1>2, <3>2 DEF V2Inv, Load
  <2> QED
    BY <1>2, <2>1, <2>2 DEF Load
<1>3. ASSUME NEW p \in Proc, Migrate(p) PROVE V2Inv'
  <2>1. ListsGood'
    BY <1>3, ListsStay DEF V2Inv, Migrate, Begin, Places
  <2> QED
    BY <1>3, <2>1 DEF V2Inv, Migrate, Begin
<1>4. ASSUME NEW p \in Proc, ReadSource(p) PROVE V2Inv'
  <2>1. GoodList(Copy(legacy))
    BY CopyGood DEF V2Inv
  <2>2. ListsGood'
    BY <1>4, <2>1, ListsMove, ListsForget DEF V2Inv, ReadSource, Places
  <2> QED
    BY <1>4, <2>2 DEF V2Inv, ReadSource
<1>5. ASSUME NEW p \in Proc, Compare(p) PROVE V2Inv'
  <2>1. ListsGood'
    BY <1>5, ListsStay, ListsForget DEF V2Inv, Compare, Places
  <2> QED
    BY <1>5, <2>1 DEF V2Inv, Compare
<1>6. ASSUME NEW p \in Proc, OpenTmp(p) PROVE V2Inv'
  <2>1. ListsGood'
    BY <1>6, ListsStay DEF V2Inv, OpenTmp, Places
  <2> QED
    BY <1>6, <2>1 DEF V2Inv, OpenTmp, TruncateTmp, GoodFile
<1>7. ASSUME NEW p \in Proc, WriteTmp(p) PROVE V2Inv'
  <2>1. ListsGood'
    BY <1>7, ListsStay DEF V2Inv, WriteTmp, Places
  <2>2. GoodFile(mainFile') /\ GoodFile(tmpFile')
    <3>1. /\ mainFile' \in {mainFile, rows[p], Torn}
          /\ tmpFile' \in {tmpFile, rows[p], Torn}
      BY <1>7 DEF WriteTmp, WriteText, Overwritten
    <3> QED
      BY <3>1 DEF V2Inv, ListsGood, GoodFile
  <2> QED
    BY <1>7, <2>1, <2>2 DEF V2Inv, WriteTmp
<1>8. ASSUME NEW p \in Proc, Replace(p) PROVE V2Inv'
  <2>1. ListsGood'
    BY <1>8, ListsForget DEF V2Inv, Replace
  <2> QED
    BY <1>8, <2>1 DEF V2Inv, Replace, RenameTmp, GoodFile
<1>9. ASSUME NEW p \in Proc, Kill(p) PROVE V2Inv'
  <2>1. ListsGood'
    BY <1>9, ListsForget DEF V2Inv, Kill
  <2> QED
    BY <1>9, <2>1 DEF V2Inv, Kill
<1>10. ASSUME LegacyGrows PROVE V2Inv'
  <2>1. legacy' \in Seq(LegacyTrial) /\ Distinct(legacy')
    <3>1. PICK t \in LegacyTrial : /\ \A i \in DOMAIN legacy : legacy[i].id # t.id
                                   /\ legacy' = Append(legacy, t)
      BY <1>10 DEF LegacyGrows
    <3>2. legacy \in Seq(LegacyTrial) /\ DOMAIN legacy = 1 .. Len(legacy)
      BY DEF V2Inv
    <3>3. \A i \in DOMAIN legacy' : \/ i \in DOMAIN legacy /\ legacy'[i] = legacy[i]
                                    \/ i = Len(legacy) + 1 /\ legacy'[i] = t
      BY <3>1, <3>2
    <3> QED
      BY <3>1, <3>2, <3>3 DEF V2Inv, Distinct
  <2> QED
    BY <1>10, <2>1 DEF V2Inv, LegacyGrows, callVars, ListsGood
<1>11. CASE UNCHANGED v2Vars
  BY <1>11 DEF V2Inv, ListsGood, v2Vars, callVars
<1> QED
  BY <1>1, <1>2, <1>3, <1>4, <1>5, <1>6, <1>7, <1>8, <1>9, <1>10, <1>11 DEF V2Next

LEMMA V2InvHolds == V2Spec => []V2Inv
  BY V2InvInit, V2InvStep, PTL DEF V2Spec

\* A trial_id identifies one row of the V2 registry, for any number of processes
\* that register and migrate without a lock.
THEOREM V2IdentitiesUnique == V2Spec => []IdentitiesUnique
<1>1. V2Inv => IdentitiesUnique
  BY ReadableGood DEF V2Inv, GoodList, Distinct, IdentitiesUnique
<1> QED
  BY <1>1, V2InvHolds, PTL

\* Nor does that registry ever hold prospective and migrated rows together.
THEOREM V2NeverMixed == V2Spec => []NeverMixed
<1>1. V2Inv => NeverMixed
  BY ReadableGood DEF V2Inv, GoodList, Uniform, NeverMixed
<1> QED
  BY <1>1, V2InvHolds, PTL

-----------------------------------------------------------------------------
\* The rest of the types: descriptors, calls and the history.
Bookkeeping ==
    /\ fd \in [Proc -> {"closed", "tmp", "main", "gone"}]
    /\ calls \in [Proc -> 0 .. MaxCalls]
    /\ acked \subseteq Row
    /\ overlapped \in BOOLEAN /\ overwritten \in BOOLEAN

LEMMA BookkeepingStep == V2Inv /\ Bookkeeping /\ [V2Next]_v2Vars => Bookkeeping'
<1> SUFFICES ASSUME V2Inv, Bookkeeping, [V2Next]_v2Vars PROVE Bookkeeping'
  OBVIOUS
<1>1. fd' \in [Proc -> {"closed", "tmp", "main", "gone"}]
  <2>1. ASSUME NEW p \in Proc,
               Register(p) \/ Load(p) \/ Migrate(p) \/ ReadSource(p) \/ Compare(p)
        PROVE  UNCHANGED fd
    BY <2>1 DEF Register, Load, Migrate, ReadSource, Compare, Begin
  <2>2. ASSUME NEW p \in Proc, OpenTmp(p) \/ WriteTmp(p) \/ Kill(p)
        PROVE  fd' \in [Proc -> {"closed", "tmp", "main", "gone"}]
    BY <2>2 DEF OpenTmp, WriteTmp, Kill, TruncateTmp, WriteText, Bookkeeping
  <2>3. ASSUME NEW p \in Proc, Replace(p)
        PROVE  fd' \in [Proc -> {"closed", "tmp", "main", "gone"}]
    BY <2>3 DEF Replace, RenameTmp, Bookkeeping
  <2>4. CASE LegacyGrows \/ UNCHANGED v2Vars
    BY <2>4 DEF LegacyGrows, v2Vars, Bookkeeping
  <2> QED
    BY <2>1, <2>2, <2>3, <2>4 DEF V2Next, Bookkeeping
<1>2. calls' \in [Proc -> 0 .. MaxCalls]
  <2>1. ASSUME NEW p \in Proc, Register(p) \/ Migrate(p) PROVE calls' \in [Proc -> 0 .. MaxCalls]
    <3>1. calls[p] < MaxCalls /\ calls' = [calls EXCEPT ![p] = calls[p] + 1]
      BY <2>1 DEF Register, Migrate, Begin, Bookkeeping
    <3> QED
      BY <3>1, V2Assumption DEF Bookkeeping
  <2>2. ASSUME NEW p \in Proc,
               \/ Load(p) \/ ReadSource(p) \/ Compare(p) \/ OpenTmp(p) \/ WriteTmp(p)
               \/ Replace(p) \/ Kill(p)
        PROVE  UNCHANGED calls
    BY <2>2 DEF Load, ReadSource, Compare, OpenTmp, WriteTmp, Replace, Kill
  <2>3. CASE LegacyGrows \/ UNCHANGED v2Vars
    BY <2>3 DEF LegacyGrows, v2Vars, Bookkeeping
  <2> QED
    BY <2>1, <2>2, <2>3 DEF V2Next, Bookkeeping
<1>3. acked' \subseteq Row
  <2>1. ASSUME NEW p \in Proc, Replace(p) PROVE acked' \subseteq Row
    BY <2>1 DEF Replace, V2Inv, ListsGood, Bookkeeping
  <2>2. ASSUME NEW p \in Proc,
               \/ Register(p) \/ Load(p) \/ Migrate(p) \/ ReadSource(p) \/ Compare(p)
               \/ OpenTmp(p) \/ WriteTmp(p) \/ Kill(p)
        PROVE  UNCHANGED acked
    BY <2>2 DEF Register, Load, Migrate, ReadSource, Compare, OpenTmp, WriteTmp, Kill, Begin,
       history2
  <2>3. CASE LegacyGrows \/ UNCHANGED v2Vars
    BY <2>3 DEF LegacyGrows, v2Vars, history2, Bookkeeping
  <2> QED
    BY <2>1, <2>2, <2>3 DEF V2Next, Bookkeeping
<1>4. overlapped' \in BOOLEAN /\ overwritten' \in BOOLEAN
  <2>1. ASSUME NEW p \in Proc, Register(p) \/ Migrate(p)
        PROVE  overlapped' \in BOOLEAN /\ overwritten' \in BOOLEAN
    BY <2>1 DEF Register, Migrate, Begin, Bookkeeping
  <2>2. ASSUME NEW p \in Proc,
               \/ Load(p) \/ ReadSource(p) \/ Compare(p) \/ OpenTmp(p) \/ WriteTmp(p)
               \/ Replace(p) \/ Kill(p)
        PROVE  UNCHANGED <<overlapped, overwritten>>
    BY <2>2 DEF Load, ReadSource, Compare, OpenTmp, WriteTmp, Replace, Kill, history2
  <2>3. CASE LegacyGrows \/ UNCHANGED v2Vars
    BY <2>3 DEF LegacyGrows, v2Vars, history2, Bookkeeping
  <2> QED
    BY <2>1, <2>2, <2>3 DEF V2Next, Bookkeeping
<1> QED
  BY <1>1, <1>2, <1>3, <1>4 DEF Bookkeeping

\* The registry and its writers keep their types: no step puts anything else into
\* a file, a list or a record of calls.
THEOREM V2TypeCorrect == V2Spec => []V2TypeOK
<1>1. V2Init => V2Inv /\ Bookkeeping
  <2> SUFFICES ASSUME V2Init PROVE Bookkeeping
    BY V2InvInit
  <2>1. 0 \in 0 .. MaxCalls
    BY V2Assumption
  <2> QED
    BY <2>1 DEF V2Init, FilesInit, Bookkeeping
<1>2. V2Inv /\ Bookkeeping /\ [V2Next]_v2Vars => V2Inv' /\ Bookkeeping'
  BY V2InvStep, BookkeepingStep
<1>3. V2Inv /\ Bookkeeping => V2TypeOK
  BY DEF V2Inv, ListsGood, GoodFile, GoodList, Bookkeeping, V2TypeOK
<1> QED
  BY <1>1, <1>2, <1>3, PTL DEF V2Spec

-----------------------------------------------------------------------------
(* Migrated rows copy what the legacy registry was *)

\* A list of migrated rows copies the beginning of a legacy registry.
Copies(list, source) ==
    list # <<>> /\ ~list[1].strict =>
        /\ Len(list) <= Len(source)
        /\ \A i \in 1 .. Len(list) : list[i] = Migrated(source[i])

FileCopies(content, source) == content \in {None, Torn} \/ Copies(content, source)

CopyInv ==
    /\ V2Inv
    /\ FileCopies(mainFile, legacy)
    /\ FileCopies(tmpFile, legacy)
    /\ \A p \in Proc : Copies(rows[p], legacy)

\* What is a copy stays one while the legacy registry only grows.
LEMMA CopiesStay ==
    ASSUME NEW source \in Seq(LegacyTrial), NEW list \in Seq(Row), Copies(list, source),
           NEW t \in LegacyTrial
    PROVE  Copies(list, Append(source, t))
<1> DEFINE longer == Append(source, t)
<1>1. /\ Len(longer) = Len(source) + 1
      /\ \A i \in 1 .. Len(source) : longer[i] = source[i]
      /\ Len(source) \in Nat /\ Len(list) \in Nat
  OBVIOUS
<1> HIDE DEF longer
<1>2. Copies(list, longer)
  BY <1>1 DEF Copies
<1> QED
  BY <1>2 DEF longer

\* Lists with a strict row at the head claim nothing about the legacy registry.
LEMMA AppendCopies ==
    ASSUME NEW list \in Seq(Row), Strict(list), NEW r \in Row, r.strict, NEW source
    PROVE  Copies(Append(list, r), source)
<1>1. Append(list, r)[1] = r \/ (1 \in DOMAIN list /\ Append(list, r)[1] = list[1])
  OBVIOUS
<1>2. Append(list, r)[1].strict
  BY <1>1 DEF Strict
<1> QED
  BY <1>2 DEF Copies

LEMMA CopyCopies == ASSUME NEW source \in Seq(LegacyTrial) PROVE Copies(Copy(source), source)
<1>1. DOMAIN source = 1 .. Len(source) /\ Len(source) \in Nat
  OBVIOUS
<1>2. /\ Len(Copy(source)) = Len(source)
      /\ \A i \in 1 .. Len(source) : Copy(source)[i] = Migrated(source[i])
  BY <1>1 DEF Copy
<1> QED
  BY <1>1, <1>2 DEF Copies

\* A process takes another list, and files and the legacy registry stay.
LEMMA CopyInvRows ==
    ASSUME CopyInv, UNCHANGED <<mainFile, tmpFile, legacy>>, V2Inv',
           NEW p \in Proc, NEW list, Copies(list, legacy), rows' = [rows EXCEPT ![p] = list]
    PROVE  CopyInv'
<1>1. \A q \in Proc : Copies(rows'[q], legacy)
  BY DEF CopyInv, V2Inv, ListsGood
<1> QED
  BY <1>1 DEF CopyInv

LEMMA CopyInvStep == CopyInv /\ [V2Next]_v2Vars => CopyInv'
<1> SUFFICES ASSUME CopyInv, [V2Next]_v2Vars PROVE CopyInv'
  OBVIOUS
<1>1. V2Inv /\ V2Inv'
  BY V2InvStep DEF CopyInv
<1>2. Copies(<<>>, legacy)
  BY DEF Copies
<1>3. ASSUME UNCHANGED <<mainFile, tmpFile, legacy, rows>> PROVE CopyInv'
  BY <1>1, <1>3 DEF CopyInv
<1>4. ASSUME NEW p \in Proc, Register(p) \/ Migrate(p) PROVE CopyInv'
  BY <1>3, <1>4 DEF Register, Migrate, Begin
<1>5. ASSUME NEW p \in Proc, Load(p) PROVE CopyInv'
  <2>1. CASE Over(p, "load", "idle")
    BY <1>1, <1>2, <1>5, <2>1, CopyInvRows DEF Over, Load
  <2>2. CASE Loads /\ rows' = [rows EXCEPT ![p] = Append(Readable, row[p])]
    <3>1. /\ Readable \in Seq(Row) /\ Strict(Readable)
          /\ row[p] \in Row /\ row[p].strict
      BY <1>1, <1>5, <2>2, ReadableGood DEF V2Inv, ListsGood, GoodList, Load, Loads
    <3>2. Copies(Append(Readable, row[p]), legacy)
      BY <3>1, AppendCopies
    <3> QED
      BY <1>1, <1>5, <2>2, <3>2, CopyInvRows DEF Load
  <2> QED
    BY <1>5, <2>1, <2>2 DEF Load
<1>6. ASSUME NEW p \in Proc, ReadSource(p) PROVE CopyInv'
  <2>1. Copies(Copy(legacy), legacy)
    BY <1>1, CopyCopies DEF V2Inv
  <2> QED
    BY <1>1, <1>2, <1>6, <2>1, CopyInvRows DEF Over, ReadSource
<1>7. ASSUME NEW p \in Proc, Compare(p) PROVE CopyInv'
  BY <1>1, <1>2, <1>3, <1>7, CopyInvRows DEF Compare, Over
<1>8. ASSUME NEW p \in Proc, OpenTmp(p) PROVE CopyInv'
  BY <1>1, <1>8 DEF OpenTmp, TruncateTmp, CopyInv, FileCopies
<1>9. ASSUME NEW p \in Proc, WriteTmp(p) PROVE CopyInv'
  <2>1. /\ mainFile' \in {mainFile, rows[p], Torn}
        /\ tmpFile' \in {tmpFile, rows[p], Torn}
        /\ UNCHANGED <<legacy, rows>>
    BY <1>9 DEF WriteTmp, WriteText, Overwritten
  <2> QED
    BY <1>1, <2>1 DEF CopyInv, FileCopies
<1>10. ASSUME NEW p \in Proc, Replace(p) PROVE CopyInv'
  <2>1. /\ mainFile' \in {mainFile, tmpFile} /\ tmpFile' \in {tmpFile, None}
        /\ UNCHANGED legacy
        /\ rows' = [rows EXCEPT ![p] = <<>>]
    BY <1>10 DEF Replace, RenameTmp, Over
  <2>2. \A q \in Proc : Copies(rows'[q], legacy)
    BY <1>1, <1>2, <2>1 DEF CopyInv, V2Inv, ListsGood
  <2> QED
    BY <1>1, <2>1, <2>2 DEF CopyInv, FileCopies
<1>11. ASSUME NEW p \in Proc, Kill(p) PROVE CopyInv'
  BY <1>1, <1>2, <1>11, CopyInvRows DEF Kill, Over
<1>12. CASE LegacyGrows
  <2>1. PICK t \in LegacyTrial : legacy' = Append(legacy, t)
    BY <1>12 DEF LegacyGrows
  <2>2. ASSUME NEW list \in Seq(Row), Copies(list, legacy) PROVE Copies(list, legacy')
    BY <1>1, <2>1, <2>2, CopiesStay DEF V2Inv
  <2>3. UNCHANGED <<mainFile, tmpFile, rows>>
    BY <1>12 DEF LegacyGrows, callVars
  <2>4. \A p \in Proc : Copies(rows[p], legacy')
    BY <1>1, <2>2 DEF CopyInv, V2Inv, ListsGood
  <2>5. FileCopies(mainFile, legacy') /\ FileCopies(tmpFile, legacy')
    BY <1>1, <2>2 DEF CopyInv, V2Inv, FileCopies, GoodFile, GoodList
  <2> QED
    BY <1>1, <2>3, <2>4, <2>5 DEF CopyInv
<1>13. CASE UNCHANGED v2Vars
  BY <1>3, <1>13 DEF v2Vars, callVars
<1> QED
  BY <1>4, <1>5, <1>6, <1>7, <1>8, <1>9, <1>10, <1>11, <1>12, <1>13 DEF V2Next

\* However many migrations and registrations overlap and die, a registry of
\* migrated rows is the beginning of the copy of the legacy registry: no trial is
\* left out before another, and none is changed.
THEOREM V2FaithfulCopy == V2Spec => []FaithfulCopy
<1>1. V2Init => CopyInv
  BY V2InvInit DEF V2Init, FilesInit, CopyInv, FileCopies, Copies
<1>2. CopyInv => FaithfulCopy
  <2> SUFFICES ASSUME CopyInv, Readable # <<>>, ~Readable[1].strict
               PROVE  IsPrefix(Readable, Copy(legacy))
    BY DEF FaithfulCopy
  <2>1. Readable \in Seq(Row) /\ Copies(Readable, legacy)
    BY ReadableGood DEF CopyInv, V2Inv, GoodList, FileCopies, Readable
  <2>2. legacy \in Seq(LegacyTrial) /\ Len(legacy) \in Nat /\ DOMAIN legacy = 1 .. Len(legacy)
    BY DEF CopyInv, V2Inv
  <2>3. /\ Copy(legacy) \in Seq(Row) /\ Len(Copy(legacy)) = Len(legacy)
        /\ \A i \in 1 .. Len(legacy) : Copy(legacy)[i] = Migrated(legacy[i])
    <3>1. Copy(legacy) \in Seq(Row)
      BY CopyGood DEF CopyInv, V2Inv, GoodList
    <3> QED
      BY <2>2, <3>1 DEF Copy
  <2>4. /\ Len(Readable) <= Len(Copy(legacy))
        /\ \A i \in 1 .. Len(Readable) : Readable[i] = Copy(legacy)[i]
    BY <2>1, <2>2, <2>3 DEF Copies
  <2> QED
    BY <2>1, <2>3, <2>4 DEF IsPrefix
<1> QED
  BY <1>1, <1>2, CopyInvStep, PTL DEF V2Spec

-----------------------------------------------------------------------------
(* Callers that take turns lose no row *)

Busy(p) == at[p] \notin {"idle", "dead"}

\* Only a registration that is under way has a row, and it is strict.
RowFits ==
    \A p \in Proc :
        /\ at[p] \in {"idle", "dead", "read", "compare"} => row[p] = None
        /\ row[p] # None => row[p].strict

\* As long as no two calls have overlapped, the temporary file is that of the one
\* that writes it, and the registry is whole.
InTurns ==
    ~overlapped =>
        /\ \A p, q \in Proc : Busy(p) /\ Busy(q) => p = q
        /\ mainFile # Torn
        /\ \A p \in Proc :
             /\ fd[p] = IF at[p] = "write_tmp" THEN "tmp" ELSE "closed"
             /\ at[p] = "write_tmp" => tmpFile = Torn
             /\ at[p] = "replace" => tmpFile = rows[p]

\* What a registration is about to publish extends the registry as it is now; a
\* migration runs only while nothing has been registered.
Extending ==
    ~overlapped /\ ~overwritten =>
        /\ RowsKept
        /\ \A r \in acked : r.strict
        /\ \A p \in Proc :
             IF row[p] = None
               THEN Busy(p) => acked = {}
               ELSE at[p] \in {"open_tmp", "write_tmp", "replace"} =>
                        rows[p] = Append(Readable, row[p])

TurnsInv == V2Inv /\ Bookkeeping /\ RowFits /\ InTurns /\ Extending

LEMMA RowFitsStep == V2Inv /\ RowFits /\ [V2Next]_v2Vars => RowFits'
<1> SUFFICES ASSUME V2Inv, RowFits, [V2Next]_v2Vars PROVE RowFits'
  OBVIOUS
<1> USE DEF V2Inv, ListsGood, RowFits
<1>1. ASSUME NEW p \in Proc, Register(p) PROVE RowFits'
  BY <1>1 DEF Register, Begin, Go
<1>2. ASSUME NEW p \in Proc, NEW from, NEW to \in {"idle", "dead"}, Over(p, from, to)
      PROVE  RowFits'
  BY <1>2 DEF Over, Go
<1>3. ASSUME NEW p \in Proc, NEW from, NEW to, Go(p, from, to), UNCHANGED row,
             row[p] = None \/ to \notin {"idle", "dead", "read", "compare"}
      PROVE  RowFits'
  BY <1>3 DEF Go
<1>4. ASSUME NEW p \in Proc, Load(p) \/ Migrate(p) \/ ReadSource(p) \/ Compare(p) PROVE RowFits'
  BY <1>2, <1>3, <1>4 DEF Load, Migrate, ReadSource, Compare, Begin, Go
<1>5. ASSUME NEW p \in Proc, OpenTmp(p) \/ WriteTmp(p) PROVE RowFits'
  BY <1>3, <1>5 DEF OpenTmp, WriteTmp
<1>6. ASSUME NEW p \in Proc, Replace(p) \/ Kill(p) PROVE RowFits'
  BY <1>2, <1>6 DEF Replace, Kill
<1>7. CASE LegacyGrows \/ UNCHANGED v2Vars
  BY <1>7 DEF LegacyGrows, v2Vars, callVars
<1> QED
  BY <1>1, <1>4, <1>5, <1>6, <1>7 DEF V2Next

\* The one step that publishes, where callers take turns.
LEMMA ReplaceInTurn ==
    ASSUME V2Inv, InTurns, ~overlapped, NEW p \in Proc, Replace(p)
    PROVE  /\ RenameTmp
           /\ mainFile' = rows[p] /\ mainFile' \in Seq(Row)
           /\ acked' = acked \cup ({row[p]} \ {None})
<1>1. at[p] = "replace" /\ tmpFile = rows[p] /\ rows[p] \in Seq(Row)
  BY DEF Replace, Over, Go, InTurns, V2Inv, ListsGood
<1>2. tmpFile # None
  BY <1>1, V2Assumption
<1>3. RenameTmp /\ acked' = acked \cup ({row[p]} \ {None})
  BY <1>2 DEF Replace
<1> QED
  BY <1>1, <1>3 DEF RenameTmp

LEMMA InTurnsStep == V2Inv /\ Bookkeeping /\ InTurns /\ [V2Next]_v2Vars => InTurns'
<1> SUFFICES ASSUME V2Inv, Bookkeeping, InTurns, [V2Next]_v2Vars, ~overlapped' PROVE InTurns'
  BY DEF InTurns
<1> USE DEF V2Inv, ListsGood, InTurns, Busy, Bookkeeping
<1>1. ASSUME NEW p \in Proc, Register(p) \/ Migrate(p) PROVE InTurns'
  <2>1. /\ ~overlapped /\ \A q \in Proc \ {p} : ~Busy(q)
        /\ \E to \in {"load", "read"} : Go(p, "idle", to)
        /\ UNCHANGED <<mainFile, tmpFile, fd, rows>>
    BY <1>1 DEF Register, Migrate, Begin
  <2> QED
    BY <2>1 DEF Go
<1>2. ASSUME NEW p \in Proc, NEW from \in Places \ {"write_tmp", "idle", "dead"},
             NEW to \in {"idle", "dead", "compare", "open_tmp"},
             Go(p, from, to), UNCHANGED <<mainFile, tmpFile, fd, overlapped>>,
             \A q \in Proc \ {p} : rows'[q] = rows[q]
      PROVE  InTurns'
  BY <1>2 DEF Go
<1>3. ASSUME NEW p \in Proc, Load(p) \/ ReadSource(p) \/ Compare(p) PROVE InTurns'
  <2>1. /\ UNCHANGED <<mainFile, tmpFile, fd, overlapped>>
        /\ \A q \in Proc \ {p} : rows'[q] = rows[q]
    BY <1>3 DEF Load, ReadSource, Compare, Over, history2
  <2>2. PICK from \in {"load", "read", "compare"}, to \in {"idle", "compare", "open_tmp"} :
          Go(p, from, to)
    BY <1>3 DEF Load, ReadSource, Compare, Over
  <2>3. from \in Places \ {"write_tmp", "idle", "dead"}
    BY DEF Places
  <2> QED
    BY <1>2, <2>1, <2>2, <2>3
<1>4. ASSUME NEW p \in Proc, OpenTmp(p) PROVE InTurns'
  <2>1. /\ ~overlapped
        /\ Go(p, "open_tmp", "write_tmp") /\ tmpFile' = Torn
        /\ fd' = [fd EXCEPT ![p] = "tmp"] /\ UNCHANGED <<mainFile, rows>>
    BY <1>4 DEF OpenTmp, TruncateTmp, history2
  <2>2. \A q \in Proc \ {p} : ~Busy(q)
    BY <2>1 DEF Go
  <2>3. at' = [at EXCEPT ![p] = "write_tmp"]
    BY <2>1 DEF Go
  <2>4. fd'[p] = "tmp" /\ \A q \in Proc \ {p} : fd'[q] = fd[q]
    BY <2>1, <1>4 DEF OpenTmp, TruncateTmp
  <2> QED
    BY <2>1, <2>2, <2>3, <2>4
<1>5. ASSUME NEW p \in Proc, WriteTmp(p) PROVE InTurns'
  <2>1. ~overlapped /\ at[p] = "write_tmp" /\ at' = [at EXCEPT ![p] = "replace"]
        /\ UNCHANGED rows
    BY <1>5 DEF WriteTmp, Go, history2
  <2>2. \A q \in Proc \ {p} : ~Busy(q)
    BY <2>1
  <2>3. fd[p] = "tmp" /\ tmpFile = Torn
    BY <2>1
  <2>4. UNCHANGED mainFile /\ tmpFile' = rows[p] /\ fd' = [fd EXCEPT ![p] = "closed"]
    BY <1>5, <2>3 DEF WriteTmp, WriteText, Overwritten
  <2> QED
    BY <2>1, <2>2, <2>4
<1>6. ASSUME NEW p \in Proc, Replace(p) PROVE InTurns'
  <2>1. ~overlapped /\ at[p] = "replace" /\ at' = [at EXCEPT ![p] = "idle"]
    BY <1>6 DEF Replace, Over, Go
  <2>2. RenameTmp /\ mainFile' # Torn
    BY <1>6, <2>1, ReplaceInTurn, V2Assumption
  <2>3. \A q \in Proc \ {p} : ~Busy(q)
    BY <2>1
  <2>4. \A q \in Proc : fd[q] = "closed"
    BY <2>1, <2>3
  <2>5. \A q \in Proc : fd'[q] = "closed"
    <3> TAKE q \in Proc
    <3>1. fd[q] = "closed" /\ fd[q] # "tmp" /\ fd[q] # "main"
      BY <2>4
    <3> QED
      BY <2>2, <3>1 DEF RenameTmp
  <2> QED
    BY <2>1, <2>2, <2>3, <2>5
<1>7. ASSUME NEW p \in Proc, Kill(p) PROVE InTurns'
  <2>1. /\ ~overlapped /\ at' = [at EXCEPT ![p] = "dead"]
        /\ fd' = [fd EXCEPT ![p] = "closed"] /\ UNCHANGED <<mainFile, tmpFile>>
        /\ \A q \in Proc \ {p} : rows'[q] = rows[q]
    BY <1>7 DEF Kill, Over, Go, history2
  <2> QED
    BY <2>1
<1>8. CASE LegacyGrows \/ UNCHANGED v2Vars
  BY <1>8 DEF LegacyGrows, v2Vars, callVars, history2
<1> QED
  BY <1>1, <1>3, <1>4, <1>5, <1>6, <1>7, <1>8 DEF V2Next

\* A process that publishes nothing moves on.
LEMMA ExtendingMoves ==
    ASSUME V2Inv, Extending, UNCHANGED <<mainFile, history2>>, NEW p \in Proc,
           \A q \in Proc \ {p} : at'[q] = at[q] /\ row'[q] = row[q] /\ rows'[q] = rows[q],
           \/ at'[p] \in {"idle", "dead"} /\ row'[p] = None
           \/ /\ Busy(p) /\ row'[p] = row[p] /\ rows'[p] = rows[p]
              /\ at[p] \in {"open_tmp", "write_tmp", "replace"} \/ row[p] = None
           \/ at[p] = "load" /\ row'[p] = row[p] /\ rows'[p] = Append(Readable, row[p])
           \/ Busy(p) /\ row[p] = None /\ row'[p] = None
    PROVE  Extending'
<1>1. Readable' = Readable /\ RowsKept' = RowsKept
  BY DEF Readable, RowsKept, history2
<1>2. at[p] = "load" => row[p] # None
  BY V2Assumption DEF V2Inv, ListsGood
<1> SUFFICES ASSUME ~overlapped, ~overwritten PROVE Extending'
  BY DEF Extending, history2
<1> DEFINE Fits(q) == IF row[q] = None
                        THEN Busy(q) => acked = {}
                        ELSE at[q] \in {"open_tmp", "write_tmp", "replace"} =>
                                 rows[q] = Append(Readable, row[q])
<1>3. \A q \in Proc : Fits(q)
  BY DEF Extending
<1>4. \A q \in Proc \ {p} : Fits(q)'
  BY <1>1, <1>3 DEF history2, Busy
<1>5. Fits(p)'
  <2>1. CASE at'[p] \in {"idle", "dead"} /\ row'[p] = None
    BY <2>1 DEF Busy
  <2>2. CASE /\ Busy(p) /\ row'[p] = row[p] /\ rows'[p] = rows[p]
             /\ at[p] \in {"open_tmp", "write_tmp", "replace"} \/ row[p] = None
    BY <1>1, <1>3, <2>2 DEF history2
  <2>3. CASE at[p] = "load" /\ row'[p] = row[p] /\ rows'[p] = Append(Readable, row[p])
    BY <1>1, <1>2, <2>3
  <2>4. CASE Busy(p) /\ row[p] = None /\ row'[p] = None
    BY <1>3, <2>4 DEF history2
  <2> QED
    BY <2>1, <2>2, <2>3, <2>4
<1>6. RowsKept' /\ \A r \in acked' : r.strict
  BY <1>1 DEF Extending, history2
<1> QED
  BY <1>4, <1>5, <1>6 DEF Extending

LEMMA ExtendingStep ==
    TurnsInv /\ [V2Next]_v2Vars => Extending'
<1> SUFFICES ASSUME TurnsInv, [V2Next]_v2Vars PROVE Extending'
  OBVIOUS
<1> USE DEF TurnsInv
<1>1. ASSUME NEW p \in Proc, Register(p) PROVE Extending'
  <2> SUFFICES ASSUME ~overlapped, ~overwritten PROVE Extending'
    BY <1>1 DEF Extending, Register, Begin
  <2>1. /\ at[p] = "idle" /\ at' = [at EXCEPT ![p] = "load"]
        /\ UNCHANGED <<mainFile, rows, acked>>
        /\ \E r \in Row : row' = [row EXCEPT ![p] = r]
    BY <1>1 DEF Register, Begin, Go
  <2>2. row'[p] # None /\ at'[p] = "load" /\ RowsKept' = RowsKept /\ Readable' = Readable
    BY <2>1, V2Assumption DEF V2Inv, ListsGood, Readable, RowsKept
  <2>3. \A q \in Proc \ {p} : row'[q] = row[q] /\ at'[q] = at[q]
    BY <2>1 DEF V2Inv, ListsGood
  <2> QED
    BY <2>1, <2>2, <2>3 DEF Extending, Busy
<1>2. ASSUME NEW p \in Proc, Migrate(p) PROVE Extending'
  <2> SUFFICES ASSUME ~overlapped, ~overwritten' PROVE Extending'
    BY <1>2 DEF Extending, Migrate, Begin
  <2>1. /\ at[p] = "idle" /\ at' = [at EXCEPT ![p] = "read"]
        /\ UNCHANGED <<mainFile, rows, acked, row>>
        /\ ~overwritten /\ \A i \in DOMAIN Readable : ~Readable[i].strict
    BY <1>2 DEF Migrate, Begin, Go
  <2>2. acked = {}
    BY <2>1 DEF Extending, RowsKept
  <2>3. RowsKept' = RowsKept /\ Readable' = Readable
    BY <2>1 DEF Readable, RowsKept
  <2>4. row[p] = None /\ \A q \in Proc \ {p} : at'[q] = at[q]
    BY <2>1 DEF RowFits, V2Inv, ListsGood
  <2> QED
    BY <2>1, <2>2, <2>3, <2>4 DEF Extending
<1>3. ASSUME NEW p \in Proc, Load(p) PROVE Extending'
  <2>1. /\ at[p] = "load" /\ UNCHANGED <<mainFile, history2>>
        /\ \A q \in Proc \ {p} : at'[q] = at[q] /\ row'[q] = row[q] /\ rows'[q] = rows[q]
    BY <1>3 DEF Load, Over, Go, V2Inv, ListsGood
  <2>2. \/ at'[p] = "idle" /\ row'[p] = None
        \/ row'[p] = row[p] /\ rows'[p] = Append(Readable, row[p])
    BY <1>3 DEF Load, Over, Go, V2Inv, ListsGood
  <2> QED
    BY <2>1, <2>2, ExtendingMoves
<1>4. ASSUME NEW p \in Proc, ReadSource(p) \/ Compare(p) PROVE Extending'
  <2>1. /\ at[p] \in {"read", "compare"} /\ UNCHANGED <<mainFile, history2>>
        /\ \A q \in Proc \ {p} : at'[q] = at[q] /\ row'[q] = row[q] /\ rows'[q] = rows[q]
    BY <1>4 DEF ReadSource, Compare, Over, Go, V2Inv, ListsGood
  <2>2. row[p] = None
    BY <2>1 DEF RowFits
  <2>3. row'[p] = None
    BY <1>4, <2>2 DEF ReadSource, Compare, Over, V2Inv, ListsGood
  <2>4. Busy(p)
    BY <2>1 DEF Busy
  <2> QED
    BY <2>1, <2>2, <2>3, <2>4, ExtendingMoves
<1>5. ASSUME NEW p \in Proc, OpenTmp(p) PROVE Extending'
  <2>1. /\ at[p] = "open_tmp" /\ Busy(p) /\ UNCHANGED <<mainFile, row, rows, history2>>
        /\ \A q \in Proc \ {p} : at'[q] = at[q]
    BY <1>5 DEF OpenTmp, TruncateTmp, Go, Busy, V2Inv, ListsGood
  <2> QED
    BY <2>1, ExtendingMoves
<1>6. ASSUME NEW p \in Proc, WriteTmp(p) PROVE Extending'
  <2> SUFFICES ASSUME ~overlapped PROVE Extending'
    BY <1>6 DEF Extending, WriteTmp, history2
  <2>1. /\ at[p] = "write_tmp" /\ Busy(p) /\ UNCHANGED <<row, rows, history2>>
        /\ \A q \in Proc \ {p} : at'[q] = at[q]
    BY <1>6 DEF WriteTmp, Go, Busy, V2Inv, ListsGood
  <2>2. UNCHANGED mainFile
    BY <1>6, <2>1 DEF WriteTmp, WriteText, InTurns
  <2> QED
    BY <2>1, <2>2, ExtendingMoves
<1>7. ASSUME NEW p \in Proc, Replace(p) PROVE Extending'
  <2> SUFFICES ASSUME ~overlapped, ~overwritten PROVE Extending'
    BY <1>7 DEF Extending, Replace
  <2>1. /\ mainFile' = rows[p] /\ mainFile' \in Seq(Row)
        /\ acked' = acked \cup ({row[p]} \ {None})
    BY <1>7, ReplaceInTurn
  <2>2. Readable' = rows[p]
    BY <2>1, V2Assumption DEF Readable
  <2>3. /\ at[p] = "replace" /\ Busy(p)
        /\ at' = [at EXCEPT ![p] = "idle"] /\ row' = [row EXCEPT ![p] = None]
    BY <1>7 DEF Replace, Over, Go, Busy
  <2>4. \A q \in Proc \ {p} : ~Busy(q)
    BY <2>3 DEF InTurns
  <2>5. \A q \in Proc : ~Busy(q)' /\ row'[q] = None
    BY <2>3, <2>4 DEF Busy, RowFits, V2Inv, ListsGood
  <2>6. CASE row[p] = None
    <3>1. acked' = {}
      BY <2>1, <2>3, <2>6 DEF Extending
    <3> QED
      BY <2>5, <3>1 DEF Extending, RowsKept
  <2>7. CASE row[p] # None
    <3>1. /\ Readable \in Seq(Row) /\ row[p] \in Row /\ row[p].strict
          /\ Readable' = Append(Readable, row[p])
      BY <2>2, <2>3, <2>7, ReadableGood DEF Extending, V2Inv, ListsGood, GoodList, RowFits
    <3>2. /\ DOMAIN Readable' = 1 .. Len(Readable) + 1 /\ DOMAIN Readable = 1 .. Len(Readable)
          /\ Len(Readable) \in Nat
          /\ Readable'[Len(Readable) + 1] = row[p]
          /\ \A i \in DOMAIN Readable : Readable'[i] = Readable[i]
      BY <3>1
    <3>3. \A r \in acked : \E i \in DOMAIN Readable : Readable[i] = r
      BY DEF Extending, RowsKept
    <3>4. RowsKept'
      BY <2>1, <3>2, <3>3 DEF RowsKept
    <3>5. \A r \in acked' : r.strict
      BY <2>1, <3>1 DEF Extending
    <3> QED
      BY <2>5, <3>4, <3>5 DEF Extending
  <2> QED
    BY <2>6, <2>7
<1>8. ASSUME NEW p \in Proc, Kill(p) PROVE Extending'
  <2>1. /\ at'[p] = "dead" /\ row'[p] = None /\ UNCHANGED <<mainFile, history2>>
        /\ \A q \in Proc \ {p} : at'[q] = at[q] /\ row'[q] = row[q] /\ rows'[q] = rows[q]
    BY <1>8 DEF Kill, Over, Go, V2Inv, ListsGood
  <2> QED
    BY <2>1, ExtendingMoves
<1>9. CASE LegacyGrows \/ UNCHANGED v2Vars
  BY <1>9 DEF LegacyGrows, v2Vars, callVars, history2, Extending, RowsKept, Readable, Busy
<1> QED
  BY <1>1, <1>2, <1>3, <1>4, <1>5, <1>6, <1>7, <1>8, <1>9 DEF V2Next

\* Processes may be killed anywhere: as long as calls do not overlap and nobody
\* migrates over prospective rows, the registry is whole and holds every row that
\* register returned for.
THEOREM V2RowsKeptInTurns == V2Spec => []RowsKeptInTurns
<1>1. V2Init => TurnsInv
  <2> SUFFICES ASSUME V2Init PROVE Bookkeeping /\ RowFits /\ InTurns /\ Extending
    BY V2InvInit DEF TurnsInv
  <2>1. 0 \in 0 .. MaxCalls /\ None # Torn
    BY V2Assumption
  <2> QED
    BY <2>1 DEF V2Init, FilesInit, Bookkeeping, RowFits, InTurns, Extending, RowsKept, Busy
<1>2. TurnsInv /\ [V2Next]_v2Vars => TurnsInv'
  BY V2InvStep, BookkeepingStep, RowFitsStep, InTurnsStep, ExtendingStep DEF TurnsInv
<1>3. TurnsInv => RowsKeptInTurns
  BY DEF TurnsInv, InTurns, Extending, RowsKeptInTurns
<1> QED
  BY <1>1, <1>2, <1>3, PTL DEF V2Spec
===============================================================================
