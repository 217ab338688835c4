---------------------------- MODULE TrialRegistry ----------------------------
(***************************************************************************)
(* register_trial (measurement/trials.py) as a whole: the lock protocol of *)
(* TrialsLock around the body _register_trial_locked, which loads the      *)
(* registry, decides what the call may do to it, writes the new list to    *)
(* the shared file trials.json.tmp and renames that file over trials.json  *)
(* (ReplacedFile).                                                         *)
(*                                                                         *)
(* A registry is a function from trial names to entries: the order of the  *)
(* list plays no part, and a list with two entries of one name is one that *)
(* does not pass validate_trials (entry field `ok`).  Notes, periods and   *)
(* the other free fields are not represented; a verdict, the pair status   *)
(* and sharpe, is one value.                                               *)
(***************************************************************************)
EXTENDS TrialsLock, Sequences

CONSTANTS
    Torn,        \* the content of a file that does not parse as a list
    Name, Params, Verdict, Metric, Fingerprint, Stamp,
    Initial,     \* the registry before the first call
    Request,     \* the calls the processes make
    Attestation, \* the attestations the harness may emit
    MaxCalls     \* bound: calls of register_trial per process

Entry == [params : Params, at : Stamp, verdict : Verdict, metric : Metric \cup {None},
          superseded : Seq(Verdict), ok : BOOLEAN]

IsRegistry(x) == \E S \in SUBSET Name : x \in [S -> Entry]

ASSUME RegistryAssumption ==
    /\ Torn # None
    /\ ~IsRegistry(None) /\ ~IsRegistry(Torn)
    /\ None \notin Metric \cup Fingerprint
    /\ IsRegistry(Initial)
    /\ \A r \in Request :
         /\ r.name \in Name /\ r.params \in Params /\ r.at \in Stamp
         /\ r.verdict \in Verdict /\ r.metric \in Metric \cup {None}
         /\ r.fingerprint \in Fingerprint \cup {None}
         /\ r.superseded \in Seq(Verdict)
         /\ r.bypass \in BOOLEAN /\ r.ok \in BOOLEAN
    /\ \A a \in Attestation : a.metric \in Metric /\ a.fingerprint \in Fingerprint
    /\ None \notin Request \cup Attestation
    /\ MaxCalls \in Nat

VARIABLES
    mainFile, tmpFile, fd,  \* trials.json, trials.json.tmp, the descriptors
    step,      \* where each process is in the body
    req,       \* the arguments of each process's call
    buf,       \* the list each process has in memory
    att,       \* the attestation in force; None when absent, unreadable,
               \* incomplete, expired, or of another version of the core
    calls,     \* calls begun by each process
    earned,    \* history: the verdicts that calls asked for, each with the metrics that
               \* were attested for that call's pipeline at some time during the call
    acked      \* history: the verdicts of the calls that returned

INSTANCE ReplacedFile

files   == <<mainFile, tmpFile>>
bodies  == <<step, req, buf, fd>>
history == <<calls, earned, acked>>
vars    == <<lockVars, files, bodies, att, history>>

Steps == {"load", "decide", "open_tmp", "write_tmp", "replace", "done", "failed"}

TypeOK ==
    /\ LockTypeOK
    /\ mainFile \in {None, Torn} \/ IsRegistry(mainFile)
    /\ tmpFile \in {None, Torn} \/ IsRegistry(tmpFile)
    /\ step \in [Proc -> Steps]
    /\ req \in [Proc -> Request \cup {None}]
    /\ DOMAIN buf = Proc /\ \A p \in Proc : buf[p] = None \/ IsRegistry(buf[p])
    /\ fd \in [Proc -> {"closed", "tmp", "main", "gone"}]
    /\ att \in Attestation \cup {None}
    /\ calls \in [Proc -> 0 .. MaxCalls]
    /\ earned \subseteq Name \X Verdict \X Metric
    /\ acked \subseteq Name \X Verdict

NoTrials == [n \in {} |-> None]

Init ==
    /\ LockInit
    /\ FilesInit(IF DOMAIN Initial = {} THEN None ELSE Initial)
    /\ step = [p \in Proc |-> "load"]
    /\ req = [p \in Proc |-> None]
    /\ buf = [p \in Proc |-> None]
    /\ att = None
    /\ calls = [p \in Proc |-> 0]
    /\ earned = {}
    /\ acked = {}

-----------------------------------------------------------------------------
(* The decision: what a call may do to the registry it has loaded *)

Known(trials, r) == r.name \in DOMAIN trials

\* Bug: a known trial may be updated under other parameters.
ConflictsByMetric(trials, r) ==
    /\ Known(trials, r)
    /\ LET t == trials[r.name]
       IN  r.metric # None /\ t.metric # None /\ r.metric # t.metric

\* The configuration and the metric of a known trial are its identity.
Conflicts(trials, r) ==
    /\ Known(trials, r)
    /\ LET t == trials[r.name]
       IN  \/ t.params # r.params
           \/ r.metric # None /\ t.metric # None /\ r.metric # t.metric

\* The metric of the resulting entry: an update that names none keeps it.
EffectiveMetric(trials, r) ==
    IF Known(trials, r) /\ r.metric = None THEN trials[r.name].metric ELSE r.metric

\* Bug: the update path is exempt, as it was until 2026-09-05.
ProducesVerdictIfNew(trials, r) == ~Known(trials, r)

\* The call produces a verdict: a new trial, or another verdict for a known one.
ProducesVerdict(trials, r) ==
    Known(trials, r) => trials[r.name].verdict # r.verdict

\* _require_valid_attestation
Covered(metric, fingerprint) ==
    /\ att # None
    /\ metric # None /\ att.metric = metric
    /\ fingerprint # None /\ att.fingerprint = fingerprint

Powered(trials, r) ==
    \/ r.bypass
    \/ ~ProducesVerdict(trials, r)
    \/ Covered(EffectiveMetric(trials, r), r.fingerprint)

\* Bug: the replaced verdict leaves no trace, as until 2026-09-05.
SupersededForgotten(trials, r) ==
    IF ~Known(trials, r) THEN r.superseded ELSE trials[r.name].superseded

\* The history of replaced verdicts in the resulting entry.
Superseded(trials, r) ==
    IF ~Known(trials, r) THEN r.superseded
    ELSE LET t == trials[r.name]
         IN  IF t.verdict # r.verdict THEN Append(t.superseded, t.verdict)
             ELSE IF t.superseded # <<>> THEN t.superseded
             ELSE r.superseded

\* Bug: the registration date of a known trial is looked up under a wrong key.
NewEntryUndated(trials, r) ==
    [params     |-> r.params,
     at         |-> IF Known(trials, r) THEN None ELSE r.at,
     verdict    |-> r.verdict,
     metric     |-> EffectiveMetric(trials, r),
     superseded |-> Superseded(trials, r),
     ok         |-> r.ok]

NewEntry(trials, r) ==
    [params     |-> r.params,
     at         |-> IF Known(trials, r) THEN trials[r.name].at ELSE r.at,
     verdict    |-> r.verdict,
     metric     |-> EffectiveMetric(trials, r),
     superseded |-> Superseded(trials, r),
     ok         |-> r.ok]

Proposed(trials, r) ==
    [n \in DOMAIN trials \cup {r.name} |->
        IF n = r.name THEN NewEntry(trials, r) ELSE trials[n]]

\* validate_trials and json.dumps accept the list, the entries of others included.
Valid(trials) == \A n \in DOMAIN trials : trials[n].ok

-----------------------------------------------------------------------------
(* The body, one action per access to a file *)

InBody(p, s) == pc[p] = "body" /\ step[p] = s

Then(p, s) ==
    /\ step' = [step EXCEPT ![p] = s]
    /\ UNCHANGED lockVars

\* Bug: no `finally`, an exception leaves the lock in place.
LeaveLocked(p, s) ==
    /\ Goto(p, "body", IF s = "failed" THEN "idle" ELSE "release")
    /\ step' = [step EXCEPT ![p] = s]
    /\ UNCHANGED <<lock, ownerLive, waited>>

\* The body returns or raises; the `finally` comes next.
Leave(p, s) ==
    /\ LeaveBody(p)
    /\ step' = [step EXCEPT ![p] = s]

\* load_trials
Load(p) ==
    /\ InBody(p, "load")
    /\ IF mainFile = Torn
         THEN Leave(p, "failed") /\ UNCHANGED buf
         ELSE /\ buf' = [buf EXCEPT ![p] = IF mainFile = None THEN NoTrials ELSE mainFile]
              /\ Then(p, "decide")
    /\ UNCHANGED <<files, req, fd, att, history>>

Accepts(p) ==
    /\ ~Conflicts(buf[p], req[p])
    /\ Powered(buf[p], req[p])
    /\ Valid(Proposed(buf[p], req[p]))

\* The checks, in memory but for the attestation, which is read now.
Decide(p) ==
    /\ InBody(p, "decide")
    /\ IF Accepts(p)
         THEN /\ buf' = [buf EXCEPT ![p] = Proposed(buf[p], req[p])]
              /\ Then(p, "open_tmp")
         ELSE Leave(p, "failed") /\ UNCHANGED buf
    /\ UNCHANGED <<files, req, fd, att, history>>

\* Bug: trials.json is written in place.
OpenMain(p) ==
    /\ InBody(p, "open_tmp")
    /\ mainFile' = Torn
    /\ fd' = [fd EXCEPT ![p] = "main"]
    /\ Then(p, "write_tmp")
    /\ UNCHANGED <<tmpFile, req, buf, att, history>>

\* write_text opens the shared temporary file and truncates it.
OpenTmp(p) ==
    /\ InBody(p, "open_tmp")
    /\ TruncateTmp(p)
    /\ Then(p, "write_tmp")
    /\ UNCHANGED <<req, buf, att, history>>

WriteTmp(p) ==
    /\ InBody(p, "write_tmp")
    /\ WriteText(p, buf[p])
    /\ Then(p, "replace")
    /\ UNCHANGED <<req, buf, att, history>>

\* tmp.replace(p), which raises when another writer has taken the file away.
Replace(p) ==
    /\ InBody(p, "replace")
    /\ \/ RenameTmp /\ Leave(p, "done")
       \/ tmpFile = None /\ Leave(p, "failed") /\ UNCHANGED <<files, fd>>
    /\ UNCHANGED <<req, buf, att, history>>

Body(p) == Load(p) \/ Decide(p) \/ OpenTmp(p) \/ WriteTmp(p) \/ Replace(p)

-----------------------------------------------------------------------------
(* The call around the body *)

Forgotten(p) ==
    /\ req' = [req EXCEPT ![p] = None]
    /\ buf' = [buf EXCEPT ![p] = None]
    /\ fd' = [fd EXCEPT ![p] = "closed"]
    /\ step' = [step EXCEPT ![p] = "load"]

\* The verdict that r asks for, if attestation a is one of its pipeline.
Earns(r, a) ==
    IF r # None /\ a # None /\ r.fingerprint = a.fingerprint
      THEN {<<r.name, r.verdict, a.metric>>}
      ELSE {}

RegisterTrial(p) ==
    /\ Call(p)
    /\ calls[p] < MaxCalls
    /\ calls' = [calls EXCEPT ![p] = @ + 1]
    /\ \E r \in Request : /\ req' = [req EXCEPT ![p] = r]
                           /\ earned' = earned \cup Earns(r, att)
    /\ UNCHANGED <<files, step, buf, fd, att, acked>>

LockStep(p) == Acquire(p) /\ UNCHANGED <<files, bodies, att, history>>

\* register_trial returns, or raises what the body raised.
Return(p) ==
    /\ Release(p)
    /\ acked' = IF step[p] = "done" THEN acked \cup {<<req[p].name, req[p].verdict>>}
                                    ELSE acked
    /\ Forgotten(p)
    /\ UNCHANGED <<files, att, calls, earned>>

\* The trial is in the registry, and yet the call raises.
ReturnFails(p) == ReleaseFails(p) /\ Forgotten(p) /\ UNCHANGED <<files, att, history>>

Kill(p) == Crash(p) /\ Forgotten(p) /\ UNCHANGED <<files, att, history>>

Reborn(p) == Respawn(p) /\ UNCHANGED <<files, bodies, att, history>>

TimePasses == Tick /\ UNCHANGED <<files, bodies, att, history>>

\* testing.harness.attest_pipeline_power, in another process, emits an attestation.
Attest(a) ==
    /\ att' = a
    /\ earned' = earned \cup UNION { Earns(req[p], a) : p \in Proc }
    /\ UNCHANGED <<lockVars, files, bodies, calls, acked>>

\* It expires, is damaged, or the core is upgraded.
AttestationLapses ==
    /\ att # None
    /\ att' = None
    /\ UNCHANGED <<lockVars, files, bodies, history>>

Next ==
    \/ \E p \in Proc : RegisterTrial(p) \/ LockStep(p) \/ Body(p) \/ Return(p)
                       \/ ReturnFails(p) \/ Kill(p) \/ Reborn(p)
    \/ \E a \in Attestation : Attest(a)
    \/ AttestationLapses
    \/ TimePasses

Spec == Init /\ [][Next]_vars

-----------------------------------------------------------------------------
(* Properties *)

\* The registry as a reader of trials.json sees it.
Trials == IF mainFile \in {None, Torn} THEN NoTrials ELSE mainFile

Claims(t) == Append(t.superseded, t.verdict)

\* A reader never meets half of a write: trials.json always parses, in spite of
\* crashes between any two steps of a writer.
NeverTorn == mainFile # Torn

\* What register_trial returned for is in the registry ever after, as the
\* current verdict of the trial or among the superseded ones.
AckedKept ==
    \A a \in acked :
        /\ a[1] \in DOMAIN Trials
        /\ \E i \in DOMAIN Claims(Trials[a[1]]) : Claims(Trials[a[1]])[i] = a[2]

\* The claims of trial n that were there before the first call.
Inherited(n) == IF n \in DOMAIN Initial THEN Len(Claims(Initial[n])) ELSE 0

\* No verdict from a blind judge: every claim published here, superseded ones
\* included, was asked for by a call during which the harness's attestation, of the
\* trial's metric and of that call's pipeline, was in force.
VerdictsAttested ==
    \A n \in DOMAIN Trials : \A i \in DOMAIN Claims(Trials[n]) :
        i > Inherited(n) => <<n, Claims(Trials[n])[i], Trials[n].metric>> \in earned

\* The registry is an append-only ledger of verdicts (VerdictLedger).
LedgerOf(trials) ==
    [n \in DOMAIN trials |-> [params |-> trials[n].params,
                              at     |-> trials[n].at,
                              metric |-> trials[n].metric,
                              claims |-> Claims(trials[n])]]

Ledger == INSTANCE VerdictLedger WITH
              ledger <- LedgerOf(Trials), Opening <- LedgerOf(Initial)

\* Trials are never lost, their identity never changes, and every verdict that
\* was ever published can still be read, in the order of publication.
AppendOnly == Ledger!LedgerSpec
=============================================================================
