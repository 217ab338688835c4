--------------------------- MODULE TrialRegistryV2 ---------------------------
(***************************************************************************)
(* The strict registry of prospective trials (contracts/trial_v2.py):      *)
(* TrialRegistryV2.register, and migrate_legacy_registry, which writes the *)
(* V2 copy of a legacy registry to a destination that may be the same      *)
(* file.  Both read, decide and replace the file without a lock.           *)
(*                                                                         *)
(* A row is its trial_id, what else it says (facts), and whether it passes *)
(* validate_trial_v2 without legacy_mode (strict).  No migrated row does:  *)
(* the fields that the legacy schema lacks are UNKNOWN in it.              *)
(***************************************************************************)
EXTENDS Sequences, SequencesExt, Naturals

CONSTANTS
    Proc,      \* processes that use the registry
    Mortal,    \* those that may be killed in the middle of a call
    Id,        \* trial ids, which are also the names of legacy trials
    Facts,     \* the rest of a row
    UNKNOWN,   \* the id of a migrated trial that had no name
    Torn, None,
    MaxCalls,  \* bound: calls per process
    MaxLegacy  \* bound: trials of the legacy registry

Row == [id : Id \cup {UNKNOWN}, facts : Facts, strict : BOOLEAN]

\* A trial of the legacy registry; `sound`: its V2 copy passes legacy_mode.
LegacyTrial == [id : Id \cup {UNKNOWN}, facts : Facts, sound : BOOLEAN]

ASSUME V2Assumption ==
    /\ Mortal \subseteq Proc
    /\ UNKNOWN \notin Id
    /\ Torn # None
    /\ Torn \notin Seq(Row) /\ None \notin Seq(Row) \cup Row
    /\ MaxCalls \in Nat /\ MaxLegacy \in Nat

VARIABLES
    mainFile, tmpFile, fd,  \* the V2 registry, a list of rows, and its ".tmp"
    legacy,      \* the legacy registry, a list of LegacyTrial
    at,          \* where each process is
    row,         \* the argument of each process's register
    rows,        \* the list each process has in memory
    calls,       \* calls begun by each process
    acked,       \* history: the rows register returned for
    overlapped,  \* history: have two calls ever run at the same time?
    overwritten  \* history: has a migration begun over prospective rows?

INSTANCE ReplacedFile

callVars == <<at, row, rows>>
history2 == <<acked, overlapped, overwritten>>
v2Vars   == <<mainFile, tmpFile, fd, legacy, callVars, calls, history2>>

Places == {"idle", "dead", "load", "read", "compare", "open_tmp", "write_tmp", "replace"}

V2TypeOK ==
    /\ mainFile \in {None, Torn} \/ mainFile \in Seq(Row)
    /\ tmpFile \in {None, Torn} \/ tmpFile \in Seq(Row)
    /\ fd \in [Proc -> {"closed", "tmp", "main", "gone"}]
    /\ legacy \in Seq(LegacyTrial)
    /\ at \in [Proc -> Places]
    /\ row \in [Proc -> Row \cup {None}]
    /\ DOMAIN rows = Proc /\ \A p \in Proc : rows[p] \in Seq(Row)
    /\ calls \in [Proc -> 0 .. MaxCalls]
    /\ acked \subseteq Row
    /\ overlapped \in BOOLEAN /\ overwritten \in BOOLEAN

V2Init ==
    /\ FilesInit(None)
    /\ legacy = <<>>
    /\ at = [p \in Proc |-> "idle"]
    /\ row = [p \in Proc |-> None]
    /\ rows = [p \in Proc |-> <<>>]
    /\ calls = [p \in Proc |-> 0]
    /\ acked = {}
    /\ overlapped = FALSE
    /\ overwritten = FALSE

-----------------------------------------------------------------------------
\* The rows a reader of the registry gets.
Readable == IF mainFile \in {None, Torn} THEN <<>> ELSE mainFile

Strict(list) == \A i \in DOMAIN list : list[i].strict

Go(p, from, to) == at[p] = from /\ at' = [at EXCEPT ![p] = to]

\* The call of p is over: it returned, raised, or p is dead.
Over(p, from, to) ==
    /\ Go(p, from, to)
    /\ row' = [row EXCEPT ![p] = None]
    /\ rows' = [rows EXCEPT ![p] = <<>>]

Begin(p, to) ==
    /\ calls[p] < MaxCalls
    /\ Go(p, "idle", to)
    /\ calls' = [calls EXCEPT ![p] = @ + 1]
    /\ overlapped' = (overlapped \/ \E q \in Proc \ {p} : at[q] \notin {"idle", "dead"})
    /\ UNCHANGED <<mainFile, tmpFile, fd, legacy, rows, acked>>

\* register(trial), with a trial that passes require_trial_v2.
Register(p) ==
    /\ Begin(p, "load")
    /\ \E r \in Row : r.strict /\ r.id # UNKNOWN /\ row' = [row EXCEPT ![p] = r]
    /\ UNCHANGED overwritten

\* Bug: what is compared is the whole row.
TakenByRow(list, r) == \E i \in DOMAIN list : list[i] = r

\* trial_id already registered
Taken(list, r) == \E i \in DOMAIN list : list[i].id = r.id

\* Bug: the rows on disk are read in legacy_mode.
LoadsLenient == mainFile # Torn

\* load() returns: the file is absent, or a list of rows that are all strict.
Loads == mainFile # Torn /\ Strict(Readable)

Load(p) ==
    /\ at[p] = "load"
    /\ \/ /\ Loads
          /\ ~Taken(Readable, row[p])
          /\ Go(p, "load", "open_tmp")
          /\ rows' = [rows EXCEPT ![p] = Append(Readable, row[p])]
          /\ UNCHANGED row
       \/ ~(Loads /\ ~Taken(Readable, row[p])) /\ Over(p, "load", "idle")
    /\ UNCHANGED <<mainFile, tmpFile, fd, legacy, calls, history2>>

\* migrate_legacy_registry(legacy, the V2 registry).
Migrate(p) ==
    /\ Begin(p, "read")
    /\ overwritten' = (overwritten \/ \E i \in DOMAIN Readable : Readable[i].strict)
    /\ UNCHANGED row

\* migrate_legacy_trial, of a sound trial.
Migrated(t) == [id |-> t.id, facts |-> t.facts, strict |-> FALSE]

Sound(list) == \A i \in DOMAIN list : list[i].sound

\* Bug: trials that cannot be migrated are left out.
CopySound(list) ==
    LET good == SelectSeq(list, LAMBDA t : t.sound)
    IN  [i \in DOMAIN good |-> Migrated(good[i])]

Copy(list) == [i \in DOMAIN list |-> Migrated(list[i])]

\* Bug: a trial that cannot be migrated does not stop the migration.
ReadSourceLenient(p) ==
    /\ Go(p, "read", "compare")
    /\ rows' = [rows EXCEPT ![p] = CopySound(legacy)]
    /\ UNCHANGED row
    /\ UNCHANGED <<mainFile, tmpFile, fd, legacy, calls, history2>>

\* The source is read and migrated; one trial that is not sound raises.
ReadSource(p) ==
    /\ \/ /\ Sound(legacy)
          /\ Go(p, "read", "compare")
          /\ rows' = [rows EXCEPT ![p] = Copy(legacy)]
          /\ UNCHANGED row
       \/ ~Sound(legacy) /\ Over(p, "read", "idle")
    /\ UNCHANGED <<mainFile, tmpFile, fd, legacy, calls, history2>>

\* The destination holds that copy already: nothing is written.
Compare(p) ==
    /\ \/ mainFile = rows[p] /\ Over(p, "compare", "idle")
       \/ mainFile # rows[p] /\ Go(p, "compare", "open_tmp") /\ UNCHANGED <<row, rows>>
    /\ UNCHANGED <<mainFile, tmpFile, fd, legacy, calls, history2>>

\* Bug: the registry is written in place.
OpenMain(p) ==
    /\ Go(p, "open_tmp", "write_tmp")
    /\ mainFile' = Torn
    /\ fd' = [fd EXCEPT ![p] = "main"]
    /\ UNCHANGED <<tmpFile, legacy, row, rows, calls, history2>>

OpenTmp(p) ==
    /\ Go(p, "open_tmp", "write_tmp")
    /\ TruncateTmp(p)
    /\ UNCHANGED <<legacy, row, rows, calls, history2>>

WriteTmp(p) ==
    /\ Go(p, "write_tmp", "replace")
    /\ WriteText(p, rows[p])
    /\ UNCHANGED <<legacy, row, rows, calls, history2>>

\* The rename, after which register returns; it raises when another writer has
\* taken the temporary file away.
Replace(p) ==
    /\ \/ RenameTmp /\ acked' = acked \cup ({row[p]} \ {None})
       \/ tmpFile = None /\ UNCHANGED <<mainFile, tmpFile, fd, acked>>
    /\ Over(p, "replace", "idle")
    /\ UNCHANGED <<legacy, calls, overlapped, overwritten>>

Kill(p) ==
    /\ p \in Mortal
    /\ at[p] # "idle"
    /\ \E from \in Places \ {"dead"} : Over(p, from, "dead")
    /\ fd' = [fd EXCEPT ![p] = "closed"]
    /\ UNCHANGED <<mainFile, tmpFile, legacy, calls, history2>>

\* register_trial adds a trial, of another name, to the legacy registry.  What it
\* changes in a trial that is there already is not represented.
LegacyGrows ==
    /\ Len(legacy) < MaxLegacy
    /\ \E t \in LegacyTrial :
         /\ \A i \in DOMAIN legacy : legacy[i].id # t.id
         /\ legacy' = Append(legacy, t)
    /\ UNCHANGED <<mainFile, tmpFile, fd, callVars, calls, history2>>

V2Next ==
    \/ \E p \in Proc :
         \/ Register(p) \/ Load(p)
         \/ Migrate(p) \/ ReadSource(p) \/ Compare(p)
         \/ OpenTmp(p) \/ WriteTmp(p) \/ Replace(p)
         \/ Kill(p)
    \/ LegacyGrows

V2Spec == V2Init /\ [][V2Next]_v2Vars

-----------------------------------------------------------------------------
(* Properties *)

\* "Append-only-by-identity": a trial_id identifies one row of the registry,
\* whatever calls overlap, die or migrate.
IdentitiesUnique ==
    \A i, j \in DOMAIN Readable : Readable[i].id = Readable[j].id => i = j

\* Prospective rows and migrated ones never share the registry: a row that lacks
\* provenance cannot slip in among those that have it, nor the other way round.
NeverMixed ==
    \A i, j \in DOMAIN Readable : Readable[i].strict = Readable[j].strict

\* A migrated registry is the copy of what the legacy registry once was: no trial
\* left out, none changed, in the same order.
FaithfulCopy ==
    (Readable # <<>> /\ ~Readable[1].strict) => IsPrefix(Readable, Copy(legacy))

\* Each trial that register returned for is in the registry.
RowsKept == \A r \in acked : \E i \in DOMAIN Readable : Readable[i] = r

\* So it is, in spite of processes killed at any point, as long as callers take
\* turns and nobody migrates over prospective rows.
RowsKeptInTurns == ~overlapped /\ ~overwritten => mainFile # Torn /\ RowsKept
===============================================================================
