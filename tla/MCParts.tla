------------------------------- MODULE MCParts -------------------------------
(***************************************************************************)
(* One instance of each of the parts that share no state with anything     *)
(* else.  Nothing is learnt from interleaving them, so the first step      *)
(* chooses the one that moves, and the others stay as they are.            *)
(***************************************************************************)
EXTENDS FileDownload, TransientRetry, Migrations, EventLog, Replay, Prequential,
        ScientificGovernance, SourceQuality, Fusion, SplitAdjustment, PowerHarness, SequencesExt

CONSTANTS d1, d2, m1, m2, w1, w2, s1, s2, s3, h1, h2

TwoDownloaders == {d1, d2}
TwoMigrators   == {m1, m2}
TwoEmitters    == {w1, w2}
ThreeSources   == {s1, s2, s3}
TwoTesters     == {h1, h2}

\* A short event, two long ones, one that is refused and one whose text holds a line
\* separator.
Events          == {"short", "long", "longer", "refused", "separated"}
LongEvents      == {"long", "longer"}
InvalidEvents   == {"refused"}
SeparatedEvents == {"separated"}

Instants == 0 .. 2
Feeds    == SeqOf([at : Instants, available : Instants], 3)

\* A well-formed manifest, and one without a role for a partition.
Manifests ==
    { [hashes |-> {"x", "y"}, roles |-> [q \in {"x", "y"} |-> IF q = "x" THEN "IS" ELSE "OOS"]],
      [hashes |-> {"x", "y"}, roles |-> [q \in {"x"} |-> "IS"]] }

\* For each request one good point for each time and version, of two series; late,
\* untrusted and incomplete ones of the first.
Point(r, m, t, l, h, e, u) ==
    [request |-> r, metric |-> m, event |-> t, latency |-> l, hash |-> h, enriched |-> e,
     untrusted |-> u]
Signals ==
    UNION { { Point(r, "funding", t, 1, "a", TRUE, FALSE),
              Point(r, "funding", t, 1, "b", TRUE, FALSE),
              Point(r, "interest", t, 1, "a", TRUE, FALSE),
              Point(r, "funding", t, 4, "a", TRUE, FALSE),
              Point(r, "funding", t, 1, "a", TRUE, TRUE),
              Point(r, "funding", t, 1, "a", FALSE, FALSE) }
            : r \in 1 .. MaxRequests, t \in 0 .. 4 }

\* The defaults of SourceQualityThresholds, with limits for the latency in the units
\* of Signals.
DefaultLimits ==
    [coverage |-> 99, median |-> 1, p99 |-> 3, gaps |-> 0, gap |-> 0, revisions |-> 1,
     availability |-> 99, causality |-> 0, integrity |-> 0]

\* 8, 17 and 40 are near splits of each other, 12 is near none; after 0 there is no
\* return.
Closes == {0, 8, 12, 17, 40}

Revisions == {"sound", "blind", "credulous"}
NotBlind  == {"sound", "credulous"}
Critical  == {"sound", "blind"}

-----------------------------------------------------------------------------
VARIABLE part

Init ==
    /\ part = "none"
    /\ DownloadInit /\ RetryInit /\ MigrationsInit /\ EventLogInit /\ ReplayInit
    /\ PrequentialInit /\ GovernanceInit /\ QualityInit /\ FusionInit /\ SplitInit /\ HarnessInit

Fixed(name, vars) == IF part' = name THEN TRUE ELSE UNCHANGED vars

Only(name) ==
    /\ part \in {"none", name} /\ part' = name
    /\ Fixed("download", downloadVars)
    /\ Fixed("retry", retryVars)
    /\ Fixed("migrations", migrationVars)
    /\ Fixed("events", eventVars)
    /\ Fixed("replay", replayVars)
    /\ Fixed("prequential", prequentialVars)
    /\ Fixed("governance", governanceVars)
    /\ Fixed("quality", qualityVars)
    /\ Fixed("fusion", fusionVars)
    /\ Fixed("splits", splitVars)
    /\ Fixed("harness", harnessVars)

Next ==
    \/ Only("download")    /\ DownloadNext
    \/ Only("retry")       /\ RetryNext
    \/ Only("migrations")  /\ MigrationsNext
    \/ Only("events")      /\ EventLogNext
    \/ Only("replay")      /\ ReplayNext
    \/ Only("prequential") /\ PrequentialNext
    \/ Only("governance")  /\ GovernanceNext
    \/ Only("quality")     /\ QualityNext
    \/ Only("fusion")      /\ FusionNext
    \/ Only("splits")      /\ SplitNext
    \/ Only("harness")     /\ HarnessNext

vars == <<part, downloadVars, retryVars, migrationVars, eventVars, replayVars,
          prequentialVars, governanceVars, qualityVars, fusionVars, splitVars, harnessVars>>

Spec == Init /\ [][Next]_vars
=============================================================================
