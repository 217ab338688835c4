# A verification of predictor-core in TLA+

predictor-core is the shared library of a family of forecasting applications: it registers
research trials so that their number cannot be understated, archives what collectors observe,
and asks unreliable data sources through circuit breakers.  Its promises are about files that
survive crashes and about calls that overlap, so that is what these modules model.  The models
are checked with TLC on small instances, and the central invariants are proved with TLAPS for
every instance.  Paths below are relative to `src/src/predictor_core/`.

## 1. Inventory of the system

| Component (source) | State | Operations | Interacts with | What is hard | What makes it correct |
|---|---|---|---|---|---|
| Trial registry lock (`measurement/trials.py` 147-255) | `trials.json.lock`: existence, pid, age | acquire (create, write pid, two reads, stat, unlink, sleep), release (unlink) | every `register_trial`, other OS processes | interleaving of system calls, kills, recycled pids, suspended processes, writes and unlinks that fail | one writer, until two waiters reclaim at once or an age misleads; dead owners reclaimed; which calls end |
| Trial registry (`measurement/trials.py` 125-144, 276-379, 388-660) | `trials.json`, its shared `.tmp`, the attestation file | `register_trial`, `load_trials`, `validate_trials` | lock, attestation harness | crash between truncate, write and rename; decision on data read earlier; long update sequences | file always parses; nothing acknowledged is lost; verdicts only under an attestation of their metric and pipeline; append-only ledger |
| Power attestation harness (`testing/harness.py`) | attestation JSON | `attest_pipeline_power` | registry | code version read before the controls run; several suites, kills, edits of the tree | an attestation belongs to code that passed |
| Circuit breaker (`data/circuit_breaker.py`) | state, failure counter, `opened_at`, probe flag | `can_attempt`, `record_success`, `record_failure` | routers, telemetry | late answers, lost outcomes, events that raise inside a transition | fields agree; one probe at a time; never closed for good |
| Fallback router (`data/router.py` 37-106) | none of its own | `fetch_ohlcv` | breakers, providers, telemetry | concurrency at the awaits, cancellation, telemetry failures | every provider tried before "unavailable" |
| Aggregation router (`data/router.py` 109-176) | none of its own | `fetch_ohlcv`, `_try` | same | children that outlive a failed call, cancellation of all of them | no outcome lost to a sibling; every call ends |
| JSONL store (`kernel/jsonl_store.py`) | one file | `append`, iteration, `count`, `tail` | collection archive | a write cut short anywhere | acknowledged rows are read back, or the read raises |
| Collection archive (`data/collection.py`) | history of envelopes in a JSONL store | `transition`, `append`, `history`, `aggregate_funnel` | JSONL store, `kernel/timeindex.py` | retries after lost answers, restarts, times serialised in whole seconds | the history is a path of the lifecycle; the funnel counts its last state |
| Trial V2 (`contracts/trial_v2.py`) | `trials-v2.json`, its shared `.tmp` | `TrialRegistryV2.register`, `migrate_legacy_registry` | legacy registry | no lock at all; migration onto a live file | ids unique; prospective and migrated rows apart; rows kept |
| Scientific governance (`contracts/scientific.py`) | none of its own: charters and freezes are immutable, the caller holds them | `validate_scientific_transition`, charters, `DatasetFreeze.seal`, `verify` | whoever keeps the records | each transition is checked alone; a sealed record may change in its file | no verdict without hypothesis and freeze; a seal stays bound to its content |
| Telemetry (`kernel/obs.py`) | `events.jsonl` | `emit_event`, `read_events` | breakers, routers | several appenders without a lock, long lines in several writes, failures that raise into the caller | what is read back is complete, or the read raises |
| Network (`kernel/net.py`) | destination file and `.tmp`; the wrapper's delay | `with_retry`, `is_transient`, `download_file` | servers | retries over a shared temporary file; quota against transient status | a complete file or the old one; a bounded number of attempts |
| SQLite helpers (`kernel/infra.py`) | table `_migrations`, the schema | `connect`, `run_migrations` | other processes | check, script and record are three steps, the script several | in order, to the end, recorded once |
| Replay (`measurement/replay.py`) | position in the list | `replay`, `PastView` | handlers | off-by-one is lookahead | only the past is visible |
| Prequential evaluation (`testing/prequential.py`) | position, steps since the last training | `run` | the domain's hooks | schedule at its boundaries | trained on the past, as recently as promised |
| Source quality (`data/source_quality.py`) | none | `source_quality_scorecard` | collectors | boundaries of windows, rates of nothing | HEALTHY means complete |
| Fusion (`data/aggregation.py`) | none | `consensus_median`, `consensus_mean`, `twap` | aggregation router | timestamps of the result | within its sources, never earlier than they |
| Data quality (`data/quality.py`) | none | `detect_jumps`, `infer_split_factor`, `adjusted_closes` | the domain | several events on one series, missing closes | a jump is removed where it is explained, nowhere else |
| Statistics (`measurement/*`), other data contracts (`data/contracts.py`, `contracts/points.py`), settings and secrets (`kernel/*`), facades | none | pure functions | – | floating point | – |

`PROJECT.json` has the same list with the status of each part, and the hazards of the code, each
at its line and with the properties that watch it.

## 2. The modules

| Module | Models | State and actions in terms of the code |
|---|---|---|
| `TrialsLock` | `_acquire_trials_lock`, `_release_trials_lock` | `lock` is the file under the name; `pc[p]` is the place of a process in the loop. One action is one system call: `CreateLock` (os.open with O_EXCL), `WritePid`, `CheckDead` and `CheckLive` (the two reads), `StatOld`/`StatGone`, `UnlinkDead`, `UnlinkOld`, `GiveUp` (TimeoutError), `Sleep`, `Release`. An unlink may fail: it is passed over in the loop (`Unlink`) and leaves `register_trial` in the release (`ReleaseFails`). `Crash`, `Respawn`, `WriteFails`, `Tick` are the environment |
| `ReplacedFile` | write to `.tmp`, then rename | `TruncateTmp`, `WriteText`, `RenameTmp`; descriptors follow a renamed file, texts of two writers may mix |
| `TrialRegistry` | `register_trial` | `TrialsLock` around `Load`, `Decide`, `OpenTmp`, `WriteTmp`, `Replace`; `Return` and `ReturnFails` are the `finally`. `Attest` and `AttestationLapses` stand for the harness, expiry and upgrades |
| `VerdictLedger` | what the registry promises | a ledger to which trials and verdicts are only added |
| `CircuitBreaker` | the breaker's methods | operators on a record of its fields: `Admits`/`Attempted` (can_attempt), `Succeeded`, `Failed`, `AttemptRaised` (the event of the transition cannot be written) |
| `GuardedProviders` | what both routers share | `Open` (allow), `Booked` |
| `FallbackRouter` | `FallbackRouter.fetch_ohlcv` | one action is the stretch from one await to the next: `Fetch`, `Delivers`, `Fails`, `DeliversUnrecorded`, `Cancelled`, `Tick` |
| `AggregationRouter` | `AggregationRouter.fetch_ohlcv`, `_try` | each provider has a child task: `Gather`, `Begin`, `Delivers`, `Fails`, `Raises` (gather passes the first exception on and leaves the other children running), `Finishes`, `Cancelled`, `Tick` |
| `JsonlStore` | the JSONL file | `AppendRecord`, `AppendCutShort`; `Records` and `Raises` are iteration |
| `CollectionArchive` | envelopes, archive, funnel | `Discover`, `Transition`, `Submit` (append, also repeated), `Reload`, `Tick`; the file is a `JsonlStore` |
| `TrialRegistryV2` | V2 registry and migration | `Register`, `Load`, `Migrate`, `ReadSource`, `Compare`, `OpenTmp`, `WriteTmp`, `Replace`, `Kill`, `LegacyGrows` |
| `PowerHarness` | `attest_pipeline_power`, `_atomic_write_json` | `Import`, `ReadVersion`, `EdgeControl`, `NoiseControl`, `OpenDraft`, `WriteDraft`, `RenameDraft`; `Edit` and `Dies` are the environment |
| `FileDownload` | `download_file` | `Download`, `Responds` (urlopen and open), `Copies`, `Fails`, `Wakes`, `Saves` (rename), `Aborts` |
| `TransientRetry` | `with_retry`, `is_transient` | `CallWrapper`, `Raises` (and the decision that follows), `Wake`, `Returns`, `Cancel` |
| `Migrations` | `run_migrations` | `Migrate`, `Read` (SELECT), `Execute` (one statement of the script), `Record` (INSERT and commit), `Abort` |
| `EventLog` | `emit_event`, `read_events` | the file is a sequence of writes: `Emit`, `EmitHead`, `EmitRest`, `EmitCutShort`, `RestCutShort`, `Refuse`; `Readable` and `EventsRead` are `read_events` |
| `Replay` | `replay`, `PastView.__getitem__` | `Start`, one step per turn of each of the three loops (`CheckOrder`, `CheckAvailability`, `Handle`), `Finish`; `Item` is an index into the view, `Slice` a slice of it (iteration is the slice of everything; strides other than 1 are left out) |
| `Prequential` | `PrequentialEvaluator.run` | `Run`, `Advance` (head of the loop), `Train`, `Predict`, `HookRaises` |
| `ScientificGovernance` | transition table, charters, `DatasetFreeze` | `Charter`, `Promote`, `Draft`, `Seal`, `Tamper` |
| `SourceQuality` | `source_quality_scorecard` | a collector's `Answer` and `NoAnswer`; `ScorecardState` is the verdict on any window |
| `Fusion` | `data/aggregation.py`, validation of a candle | `Receive`; medians, means and averages of what was received |
| `SplitAdjustment` | `data/quality.py` | `Publish` (a close), `Explain` (a jump, by an adjustment or by quarantine); `Adjusted`, `Jump`, `SplitFactors` are the functions |
| `MCParts` | – | one instance of each of the eleven modules above |
| `MCLiveness` | – | two instances of `FallbackRouter` and two of `TrialsLock` |
| other `MC*` | – | model values, the calls that are made, symmetry |
| `SetLemmas` | – | what the proofs use of finite sets, sums and products |
| `TrialRegistryProofs`, `TrialRegistryV2Proofs`, `FallbackRouterProofs`, `AggregationRouterProofs` | – | theorems about the lock and the registry over it, the V2 registry, the two routers |
| `DataProofs` | – | theorems about store, archive, scorecard, fusion and split adjustment |
| `KernelProofs` | – | theorems about migrations, downloads, retries and the event log |
| `EvaluationProofs` | – | theorems about replay, prequential evaluation, governance and attestations |

Composition: `TrialRegistry` extends `TrialsLock` and instantiates `ReplacedFile`; its steps are
those of the lock or leave the lock alone (property `LockSafety`, checked in the run `crash` and
proved).  It also implements `VerdictLedger` under the mapping `LedgerOf(Trials)` (property
`AppendOnly`).  `CollectionArchive` extends `JsonlStore`.  Both routers extend `CircuitBreaker` by
way of `GuardedProviders`.  `TrialRegistry`, `TrialRegistryV2`, `FileDownload` and `PowerHarness`
replace a file in the same way and share `ReplacedFile`.  The eleven parts that `MCParts`
gathers share no state with anything, so nothing is learnt from interleaving them: its first
step chooses the part that moves.  `MCLiveness` does the same with two routers and two locks.

Operators that begin with a comment `Bug:` are plausible mistakes; each is paired in
`PROJECT.json` with the property that notices when it takes the place of the operator it varies.

### Abstractions

* A pid is its process. `os.kill(pid, 0)` succeeds for every process that is not dead; a
  permission error, which the code counts as alive, is the same outcome.
* Time is in ticks, and ages saturate just above the one threshold they are compared with, so
  time is unbounded and the states are finite.
* The lock does not count its calls; the registry above it does (`MaxCalls`), since its history
  variables would grow for ever.  What the lock promises in the end is therefore checked for calls
  without number, and a succession of owners may be endless.
* Names, parameters, metrics and verdicts are model values. A verdict is the pair of status and
  Sharpe; that a trial passes `validate_trials` is a field of the call.
* The attestation is its metric and fingerprint while it is valid, and `None` otherwise: absent,
  unreadable, incomplete, expired or of another core version are all refused alike.
* In V2, a row is its id, the rest, and whether it passes the strict validation; the field-by-field
  checks of `validate_trial_v2` are not spelled out. No migrated row passes them, because fields
  such as `dataset_hash` become `UNKNOWN`. The legacy registry is another file than the V2
  registry and its temporary file, its names are distinct, and it only grows.
* A point of the scorecard carries the number of the request that delivered it, so that a
  point that is delivered twice counts twice, as in the list of the code.
* In the archive an envelope's fields that only equality looks at are one value, `observed_at`
  is its default, and serialisation truncates times to whole seconds, as `iso_z` does. That
  truncation is the point of two properties.
* `Rows` are the rows that an archive can write, and the store's `Record` is any set that holds them
  (`RowsAssumption`): the archive's file is a store of records like any other.
* A record of the JSONL file is a value; a record written behind the remains of an earlier one
  makes a line that does not parse.
* An event of `EventLog` takes one write or two. Which texts hold one of the separators at which
  `splitlines` also splits (U+2028, for one) is a property of the event.
* Whether a charter or a hypothesis passes its field checks, whether a control passes, and which
  status or text an error carries are choices of the environment. Times of a freeze are halves of
  a second, because the seal is computed over whole ones.
* Rates, medians, means, factors and returns are compared as exact fractions, where the code has
  floats and rounds a split factor to six places.
* The scorecard is modelled without reference values; `SplitAdjustment` explains each jump with
  the factor that the two closes of the source suggest.

## 3. The runs

| Run | Question | Instance, and why it is enough |
|---|---|---|
| `crash` | May a process die anywhere and still: one writer, the holder's own file under the name, `trials.json` never torn, acknowledged verdicts kept, ledger append-only? | two mortal processes, two calls each, Timeout 1, unlinks of one of them may fail: every pair of system calls interleaves, with a dead owner's file, its draft and its half-written registry. A waiter that reclaims is here the last process alive; two that reclaim at once need a third process, and are the business of `lost_trial` and `liveness` |
| `governance` | Do verdicts need a passing harness, through every kind of update? | one process, four calls of seven kinds (new, changed verdict, other metric, other configuration, legacy trial adopting a metric, invalid list), attestations that come and lapse: of the metric and pipeline of the calls, and of another metric and another pipeline; writes and unlinks that fail |
| `lost_trial` (violation) | The promise of the docstring, with three processes | three processes, one mortal, one call each |
| `endless_wait` (violation) | "The timeout limits the waiting" | two processes, one mortal; unlinks of the other may fail |
| `liveness` | Routers: one probe at a time, breakers that agree, every provider tried; and is a provider ever shut out for good? Locks: which calls may go on for ever, is a dead owner reclaimed at once, and what alone can undo the exclusion? | First router: three calls, two guarded providers, threshold 2, Latency 2 < ResetTimeout 3, cancellation and failing telemetry. Second: two calls, no cancellation, Latency above ResetTimeout, so that late answers are included. First lock: two processes with every fault on – kills, suspensions, failing writes and unlinks, recycled pids. Second: three processes, two of them mortal, one whose unlinks may fail: two survivors do meet the same dead owner, and its successor |
| `cancelled_probe` (violation) | Shut out for good, with cancellation | two calls, one provider |
| `aggregation` | The same questions of the aggregation, and whether its calls end | two calls, one guarded and one unguarded provider, cancellation and failing telemetry |
| `archive` | Lifecycle, funnel, retries, durability | one event, two versions of its fact, three lines, three times two of which share a second, writes cut short anywhere, retries at any time after. Histories of different events share nothing but the file |
| `retry_subsecond` (violation) | "Identical retries are idempotent" | one event |
| `v2` | What survives when nothing is locked? | two mortal processes, two calls each, two ids, two contents, a legacy registry that grows to two trials |
| `v2_overlap` (violation) | "Append-only" for overlapping registrations | two processes, one call each |
| `parts` | One property for each of the eleven small parts, below | below |

The properties of `parts`:

| Property | Says | Instance |
|---|---|---|
| `DownloadsWhole` | through failures, retries and kills, the destination is whole, and changes only when a call has the whole body | two processes that take turns, two attempts each |
| `RetryBudget` | never more than `attempts` calls, another only after an error worth it and the wait of its position | three attempts, base delay 2 and cap 3: the second wait would be 4 and is the cap, every combination of what `is_transient` looks at |
| `MigrationsInOrder` | a recorded migration was executed to its end, after all earlier ones, and is not executed again unless calls overlap | two processes, three migrations of two statements |
| `EventsCompleteOrLoud` | `read_events` raises, or returns every event that was emitted and none that was refused | two processes, five events: short, two long ones, refused, with a separator |
| `NoLookahead` | no index or slice reads past the event; with `key` nothing later, with `available_at` nothing unpublished | every feed of up to three events over three instants |
| `TrainedOnPast` | every prediction comes from the model the schedule promises | every run of up to four observations and every argument up to four |
| `NoVerdictBeforeFreeze` | a shadow evaluation or a verdict comes after a hypothesis and a freeze, there are never both GO and NO_GO, and only a verdict is closed | the whole table |
| `SealBindsContent` | a record that passes `verify` is what was sealed, up to fractions of a second | two manifests, four times |
| `HealthyMeansComplete` | HEALTHY is exactly: every slot, in one version, on time, with provenance, no request refused | three requests, windows within 0 .. 5, cadence 2 |
| `ConsensusWithinSources` | a fused candle is valid, within its sources and not earlier; robust from three sources on | three sources, two timestamps, prices 0 .. 2, three candles |
| `JumpsExplained` | an adjustment removes the jump of its own day and changes no other | four days, closes that are splits of each other, a missing and a zero close, threshold 10 % |
| `AttestationSound` | a readable attestation of a clean version is about code that passed both controls | two suites, three revisions, edits |

`CHECK_DEADLOCK FALSE` is used where the calls per process are bounded and nothing else moves
(`v2`, `v2_overlap`) and where a part has come to its end (`parts`).

Bounds: `MaxCalls` (calls per process), `MaxLines` (lines of the archive file), `MaxTime` (its
clock), `First` and `Target` (the states in which a caller enters and moves an envelope),
`MaxLegacy`, `MaxObservations`, `MaxHalfTime`, `Horizon`, `MaxRequests`, `MaxPrice`,
`MaxInstant`, `MaxCandles`, `MaxDays`.  Each sits in the guard of the action it limits.  Bounds by
the choice of a set are `Event` (each is emitted once) and `Feed` (short lists).  `Threshold` of
`SplitAdjustment` is at least 9 because a split within its tolerance of 8 % leaves a step of up to
8/92: with a smaller threshold an explained jump may be reported again.

### Fairness

* `LockFairness`: weak fairness of each process's own steps – the scheduler does not starve a
  process for ever – and strong fairness of `Tick`: time passes although each wait for it is
  interrupted.  Calls, crashes, recycled pids are never obliged to happen, and an
  unlink that may fail may fail every time.
* `LivenessSpec` (its second router) and `AggSpec`: every provider answers, fails or times out in the end (the clients
  have timeouts), the event loop resumes what can go on, and time passes.  Nothing obliges a
  caller to call; `LateNeverShutOut` and `NeverShutOut` are therefore about what the breaker would
  answer.  `FairSpec`, the same for one router, is the specification of `cancelled_probe`.

## 4. What is proved

For every set of processes, providers, records and every bound:

* `TrialRegistryProofs`, the lock: `LockTypeCorrect` needs no assumption, and neither does
  `LockExcludesUnlessRaced`: for any number of processes and every fault, the bodies are serial
  and every holder's file is its own until two waiters are between decision and unlink at once
  (not `LoneReclaimer`) or an age misleads a waiter about a file that is being written or held
  (not `AgeTellsDeath`).  The inductive invariant `LockInv` says that whoever writes or holds owns the
  file under the name, and that whoever is about to unlink will find a file that is nobody's
  (`ReclaimsStale`).  `OnlyTwoReclaimersUndo` discharges the second condition where no process is
  suspended at the two places that matter: what a waiter has read there is not older than the
  age it compares.  `LockExcludes` and `HolderKeepsFile` discharge both under `BenignFaults` – no
  suspensions, no failed writes of the pid, and either nobody dies, or there are at most two
  processes, which may die anywhere but do not get each other's pid back: then whoever
  reclaims is the last process alive.  Section 5 shows that without each part of the assumption
  the conclusion is false.
* `TrialRegistryProofs`, the registry: `RegistryUsesLock` maps every step of the registry to a step of the lock or
  a stutter, so that the theorems above hold for the registry.  `RegistryTypeCorrect` needs no
  assumption.  `VerdictsNeedHarness` needs no lock either.  `earned` records, for every call, the
  verdict it asks for together with each metric that was attested for that call's own pipeline
  while the call was under way; the theorem says that every claim in the registry beyond those it
  began with is in it.  An attestation that came too late, lapsed before the call, or was of
  another metric or pipeline would not put it there.  The invariant carries this through the
  registry, the temporary file and the lists in memory; it assumes only that no call
  bypasses the harness or brings `superseded` of its own.
  `RegistryNeverTorn` and `RegistryKeepsAcked` are conditional on `[]MutualExclusion` and on nothing
  else: processes may die anywhere.  Their invariant says that a step belongs to somebody in the
  body, that a draft on disk is whole or has an author who is still there to write it, that what
  the one in the body loaded is what the registry holds, and that acknowledged trials are in
  it.  `RegistryIsLedger` is the refinement of `VerdictLedger` under the same condition.  The run
  `lost_trial` shows the condition false for three mortal processes; where it holds,
  `RegistrySurvives` and `LedgerSurvives` discharge it by `LockExcludes`, and
  `RegistrySurvivesUnlessRaced` by `LockExcludesUnlessRaced`, for every fault.  Between them the theorems
  cover all that the run `crash` checks, for every timeout, number of calls and request.
* `FallbackRouterProofs`: `RouterKeepsBreakers` has no assumption beyond those on the constants.
  `RouterProbesOnce` assumes `Latency < ResetTimeout`: the invariant adds that whoever waits for a
  provider whose circuit is open began to wait before it opened, so that by the time the probe
  goes out everybody else has been answered.
  `RouterTriesAll` has no assumption either: the invariant adds that while a call waits for its
  p-th provider, all the providers before it have failed or were skipped.
  `RouterTypeCorrect` combines the two invariants.
* `TrialRegistryV2Proofs`: `V2IdentitiesUnique` and `V2NeverMixed`, for any number of overlapping
  and dying processes.  The invariant carries both through every file and every list in memory.
  `V2TypeCorrect` comes from the same invariant.
  `V2FaithfulCopy` adds to it that every list and file of migrated rows is a beginning of the copy
  of the legacy registry, which only grows.  `V2RowsKeptInTurns` is about callers that take turns:
  then there is one busy process at most, the temporary file is its own, a registration is about
  to publish what it read and its row, and a migration runs only while nothing has been
  registered; a kill anywhere leaves the registry as it was.
* `AggregationRouterProofs`: `ChildrenProbeOnce`, under `Latency < ResetTimeout` as for the fallback
  router.  Each step of a child concerns one provider, so the argument is made for one breaker
  and the children that ask its provider: those that are out when the circuit opens have been
  answered by the time it admits a probe, also when their call has long failed.
* `DataProofs`, the store: `StoreCompleteOrLoud`, `StorePrefixStable` and `StoreTypeCorrect`.  The
  invariant says that an acknowledged line holds its record or garbage; that lines with a newline
  never change is a lemma about the two ways to append.
* `DataProofs`, the archive: `ArchiveIsStore` maps every step of the archive to one of the store or
  a stutter, so that `ArchiveCompleteOrLoud` and `ArchivePrefixStable` are the store's theorems
  again.  `HistoriesLawful` (`LegalLifecycle`) needs more than the file: `ArchiveInv` says that
  whatever can be read is `Lawful` – the envelopes of an event are stored ones, in the order of
  their times, and each succeeds the one before it by a transition the lifecycle allows.  The step
  is `LawfulGrows`: an envelope that `append` accepts after the last one of its event keeps the
  whole lawful.  `FunnelCountsLast` follows because the latest `updated` is also at the last
  place, whole seconds and ties included.  `RetriesAccepted` is about two calls of `append` with
  anything in between.  Its invariant `RetryInv` says what the first one leaves behind as long as
  the archive can be read: its envelope is the last of its event, or, after a write cut short, still
  one that the last of its event admits.  Appends for other events do not touch the last row of
  this one (`LastOfGrown`), and whatever cannot be read any more stays so.
* `DataProofs`, the scorecard: `HealthIsComplete`, for any points, windows and cadence under
  `NoTolerance` – the thresholds let no single error pass, which is what the defaults say of
  windows of less than a hundred slots.  A window has as many slots as the code expects points
  (`SlotsExpected`: rounding up is right, also for a last interval that is not full); keys of one
  series on the grid are a subset of the slots, so that equal numbers mean equal sets, and between
  neighbouring slots there is no gap.
* `DataProofs`, fusion: `FusionStaysWithin`.  The median is made of the k-th smallest values, which
  are characterised by counting (`RankedIs`); from there that a larger field has a larger k-th
  value, and that a middle one of three or more stays among the others whichever is left out.
  The mean and `twap` rest on sums: `TotalGrows`, `WeightsAverage`.
* `DataProofs`, splits: `AdjustmentsExplain`.  `SplitInv` says that each adjustment has its own day
  and a factor that the closes of that day suggest.  The products of the later factors before and
  after a day differ by the factor of that day only, if it has one, and a common factor does not
  change what is a jump: `JumpIsRaw`, an adjusted series shows exactly the jumps of the source
  that have no adjustment of their own.
* `KernelProofs`: `MigrationsStayInOrder`, for any number of processes, migrations and
  statements.  The property is not inductive: one has to know that a process has executed the
  statements before its own, that what it read in the table is still there, and, without overlap,
  that nothing was recorded since it read but what it recorded itself.
  `DestinationStaysWhole`: as long as no calls overlapped and no body was short, one call is under
  way, its descriptor is open only while it copies, and then into the temporary file that it
  emptied itself; what it is about to rename is whole.  `RetriesWithinBudget`: each error but the
  last has had the wait of its position, and the delay is the doubled and not yet capped one of
  the next (that 2^(n+1) is twice 2^n is `PowerDoubles`, by counting subsets).
  `EventsKeptOrLoud`: the file holds only pieces of events that were handed over and not refused,
  and a piece of every one that was acknowledged; if it can be read, each piece is a line.
* `EvaluationProofs`: `ReplayNoLookahead`, for every feed.  The invariant says what each loop has
  established up to `pos`: the events before it are in order, the ones before it were available,
  and, in the last loop, both for all of them as far as the keywords ask for it.  That neighbours in
  order are in order throughout, which Python's loop takes for granted, calls for induction along
  the list; the invariant builds it up as the loop goes.  `PredictionsFromPast`: the last training
  was at `min_history` plus a multiple of `retrain_every`, `sinceTrain` steps ago, which gives the
  quotient that the property promises.  `VerdictsFollowFreeze`: for each state in the past of a
  charter, one that had to come before.  `SealsBind`: however often a
  freeze is changed and sealed, its hash is the one that the first seal computed (`HashOfSeal`).
  `AttestationsEarned`: while nothing raced, whoever is past a control runs code that passed it,
  and a text is in a file or a descriptor only if it was earned; however `ReplacedFile` mixes
  two texts, what can be read is one of them (`WriteMixes`).
* `SetLemmas`: facts one would prove by induction over a finite set, which the prover's library
  states with an operator parameter that no backend can instantiate.  The way round is a smallest
  counterexample: strict inclusion of finite sets is well-founded
  (`FS_StrictSubsetOrderingWellFounded`), so that among the sets for which a fact fails one contains
  no other (`SmallestOf`).  This gives least and greatest elements, and what the sums and
  products of the community module `Functions` are: that a fold exists, is unique, and may begin
  with any element (`FoldsExist`, `FoldsAgree`, `FoldsTakeAny`).

Every safety invariant and action property of a passing run is now a theorem under the
assumptions named here.  The assumptions on constants are those of the modules; those of theorems
are `BenignFaults`, `Stalling = {}` and `[]MutualExclusion` (lock and registry), `NoBypass` (verdicts),
`Latency < ResetTimeout` (one probe), and for V2 that callers take turns.

Only model-checked: everything about liveness and fairness, which the prover cannot do (which
calls of the lock end, that a dead owner is reclaimed, that a provider is not shut out for good,
that a gather ends).  Where a type invariant is a theorem (lock, router, V2, store), no run
repeats it.

## 5. Where the code does not do what its text says

Shown by runs, with a trace from TLC:

* `lost_trial` – `trials.py` 219-224. Two waiters find the same dead owner; the first unlinks and
  enters; the second then unlinks the *first one's* lock and enters too. A trial for which
  `register_trial` had returned disappears. The docstring (430-433) says the lock prevents exactly
  that.
  The same trace contradicts "NUNCA é roubado" (198).  `ExcludesUnlessRaced` says exactly what it
  takes; that a live lock is never stolen is no property of this project, since it is true only
  where nobody could steal.
* `endless_wait` – `trials.py` 220-224 (and 238-242). An unlink that fails is passed over, and the
  loop begins again without a look at the deadline: the waiter spins past its timeout for ever.
  The docstring (198-199) says the timeout limits the waiting.  `EndlessOnlyAmongOthers` says what
  is left of that: besides this only an endless succession of other owners keeps a call from
  ending, whose files the waiter finds gone at its stat (233-236) or reclaims itself, and after
  which it is never the first to open.
* `cancelled_probe` – `router.py` 77, `circuit_breaker.py` 93. A cancelled call records no outcome:
  the probe stays out and the provider is refused for ever.
* `retry_subsecond` – `collection.py` 313. A retry of an envelope with a fractional second is
  refused; `docs/COLLECTION_ONLY_HANDOFF.md` 13 calls identical retries idempotent.
* `v2_overlap` – `trial_v2.py` 293-301. Two overlapping registrations both return, and one row is
  gone from the "append-only-by-identity" registry.

Seen with other values of the constants, each within a minute of TLC:

* With a process in `Stalling`, `HolderOwnsFile` and `MutualExclusion` fail: an owner that is suspended between
  open and write loses its lock by age as it writes its pid (229-242, against 208 and 225-227).
* With two processes and `PidReuse = TRUE`, `NeverTorn` fails: a recycled pid, found dead earlier,
  gets the lock and loses it to the waiter's unlink.
* With a process in `WriteError`, `MutualExclusion` fails: two waiters find the empty lock of the
  failed write too old, and the second unlinks the lock that the first has just made
  (237-242, against 225-227).
* With a call that carries `superseded` among its extra fields, `AppendOnly` fails: the registry
  stores a history it never wrote (561, against 77-78).
* With `Latency` at or above `ResetTimeout`, `OneRequestInHalfOpen` fails: the failure of a request
  from before the circuit opened clears the probe flag (`circuit_breaker.py` 110, against 79-83).
* An event that cannot be written aborts the fallback before the next provider is asked
  (`router.py` 82): the outcome `aborted` is reachable.
* With `GivesPrevious = {TRUE}`, retries that name their predecessor are refused
  (`collection.py` 311 comes before 313).
* A legal transition replaces a result that is already archived (`collection.py` 233, against
  116-117).
* After a write cut short before its newline, the next append spoils the line it continues, its own
  record included, and returns (`jsonl_store.py` 78).
* Without `flawed`, `DownloadsWhole` fails twice: a body that ends early is no exception for
  `read(n)`, so that a truncated file is renamed into place (`net.py` 37-38), and two overlapping
  downloads share one temporary file, which one may rename while the other has just truncated it.
* Without `overlapped`, the last part of `MigrationsInOrder` fails: two processes execute one script
  and the second INSERT raises (`infra.py` 37-44).
* Without `raced`, `AttestationSound` fails: the version is read when the function is called, the
  code was imported before, and a commit in between gets the attestation of the old code
  (`harness.py` 165).  A control that fails leaves an older attestation in force.
* Without the condition on the grid and on one series, `HealthyMeansComplete` fails: points of a
  second series, or off the grid, count as coverage for slots that are missing
  (`source_quality.py` 173-175).

Plain from the code, and built into the modules: with `attempts=0` `with_retry` returns `None`
without calling anything (`net.py` 139); an event with U+2028 in a text makes every later
`read_events` raise, since the writer does not escape it and `splitlines` splits at it (`obs.py`
124); a seal does not cover fractions of a second (`scientific.py` 238-256); the median of two
sources is their mean (as `aggregation.py` 46-59 says itself); a close that follows one of zero has
no return and is never reported (`quality.py` 34).

## 6. What is not modelled, and why

* Statistics, bootstrap, metrics and the deflated Sharpe ratio itself (`measurement/stats.py`,
  `bootstrap.py`, `metrics.py`, `trials.py` from 663 on): floating-point numerics without state.
  Properties TLC could check would be about other numbers than those of the code.
* The validation of immutable records field by field (`data/contracts.py` but for candles,
  `contracts/points.py`, charters, V2 rows): each check is independent of the others.
* `twap` over a series in which two candles share a timestamp, and the scorecard's comparison
  with reference values.
* Settings, metadata, secrets, synthetic data, facades and tools: configuration and re-exports.
* Two writers of one collection archive, which the store's documentation excludes.
* A reader that holds the registry open while it is renamed, which only some platforms refuse.

## 7. Plan

Done in this order: lock, registry over it, ledger; breaker and fallback router; store and archive;
V2 registry; aggregation router; proofs of lock, breaker, store and V2; then the harness and the
small parts (network, migrations, telemetry, governance, replay, prequential, quality, fusion),
and the proofs of the registry, the aggregation router, V2's copies and turns, replay and
migrations; last the archive as a store and as a lawful history, and the proofs of all the other
small parts.

Next, by importance:

1. The bound `Latency < ResetTimeout` of the one-probe theorems is sharp for the run; state what
   holds of the breaker without it.
2. The scorecard with reference values, and for several series.
