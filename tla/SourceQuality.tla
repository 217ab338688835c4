---------------------------- MODULE SourceQuality ----------------------------
(***************************************************************************)
(* source_quality_scorecard (data/source_quality.py): what a collector has *)
(* got from one source, and the state that the scorecard of a window gives *)
(* the source.  Rates are compared in percent, and no reference values are *)
(* given.                                                                  *)
(***************************************************************************)
EXTENDS Naturals, FiniteSets

CONSTANTS
    Signal,     \* the points the source may deliver: [request, metric, event, latency,
                \* hash, enriched, untrusted], request being the one that delivers it
    Horizon,    \* bound: event times and windows lie in 0 .. Horizon
    Cadence,    \* cadence_seconds
    Limits,     \* the thresholds
    MaxRequests \* bound: requests

ASSUME QualityAssumption ==
    /\ Horizon \in Nat /\ Cadence \in Nat \ {0} /\ MaxRequests \in Nat
    /\ \A p \in Signal : p.event \in 0 .. Horizon - 1 /\ p.latency \in Nat

VARIABLES
    collected,  \* the points delivered so far; one that comes again counts again
    answered,   \* successful_requests
    requests    \* total_requests

qualityVars == <<collected, answered, requests>>

QualityInit == collected = {} /\ answered = 0 /\ requests = 0

-----------------------------------------------------------------------------
Answer(p) ==
    /\ requests < MaxRequests
    /\ p.request = requests + 1
    /\ collected' = collected \cup {p}
    /\ answered' = answered + 1 /\ requests' = requests + 1

NoAnswer ==
    /\ requests < MaxRequests
    /\ requests' = requests + 1
    /\ UNCHANGED <<collected, answered>>

QualityNext == NoAnswer \/ \E p \in Signal : Answer(p)

QualitySpec == QualityInit /\ [][QualityNext]_qualityVars

-----------------------------------------------------------------------------
(* The scorecard of the points S over the window from a to b. *)

Selected(a, b) == { p \in collected : a <= p.event /\ p.event < b }

\* Bug: a last interval that is not full is not expected.
ExpectedFull(a, b) == IF (b - a) \div Cadence = 0 THEN 1 ELSE (b - a) \div Cadence

\* ceil((end - start) / cadence)
Expected(a, b) == (b - a + Cadence - 1) \div Cadence

UniqueKeys(S) == { <<p.metric, p.event>> : p \in S }
Versions(S) == { <<p.metric, p.event, p.hash>> : p \in S }

\* Neighbouring event times that are further apart than the cadence.
Gaps(S) ==
    LET times == { p.event : p \in S }
    IN  { g \in times \X times :
            /\ g[2] > g[1] + Cadence
            /\ ~\E t \in times : g[1] < t /\ t < g[2] }

\* The k-th smallest latency.
Latency(S, k) ==
    CHOOSE l \in { p.latency : p \in S } :
        /\ Cardinality({ p \in S : p.latency <= l }) >= k
        /\ Cardinality({ p \in S : p.latency < l }) < k

\* Median and 99th percentile; without points both are infinite.
Stale(S) ==
    LET n == Cardinality(S)
    IN  \/ n = 0
        \/ Latency(S, (n + 1) \div 2) + Latency(S, n \div 2 + 1) > 2 * Limits.median
        \/ Latency(S, (99 * n + 99) \div 100) > Limits.p99

Above(part, whole, percent) == 100 * part > percent * (IF whole = 0 THEN 1 ELSE whole)
Below(part, whole, percent) == 100 * part < percent * (IF whole = 0 THEN 1 ELSE whole)

Quarantines(S) ==
    \/ Above(Cardinality({ p \in S : p.untrusted }), Cardinality(S), Limits.causality)
    \/ Above(Cardinality({ p \in S : ~p.enriched }), Cardinality(S), Limits.integrity)

Degrades(S, a, b) ==
    LET keys == Cardinality(UniqueKeys(S))
    IN  \/ keys < Expected(a, b) /\ Below(keys, Expected(a, b), Limits.coverage)
        \/ Stale(S)
        \/ Cardinality(Gaps(S)) > Limits.gaps
        \/ \E g \in Gaps(S) : g[2] - g[1] - Cadence > Limits.gap
        \/ Above(Cardinality(Versions(S)) - keys, keys, Limits.revisions)
        \/ Below(answered, requests, Limits.availability)

ScorecardState(a, b) ==
    CASE Quarantines(Selected(a, b))    -> "QUARANTINED"
      [] ~Quarantines(Selected(a, b)) /\ Degrades(Selected(a, b), a, b) -> "DEGRADED"
      [] OTHER                          -> "HEALTHY"

-----------------------------------------------------------------------------
(* Property *)

Slots(a, b) == { t \in a .. b - 1 : (t - a) % Cadence = 0 }

\* The thresholds let no error pass in windows this short: one slot missing, one
\* revision or one request without an answer is already too much.
NoTolerance ==
    /\ Limits.causality = 0 /\ Limits.integrity = 0 /\ Limits.gaps \in Nat /\ Limits.gap \in Nat
    /\ {Limits.coverage, Limits.revisions, Limits.availability} \subseteq 0 .. 100
    /\ \A n \in 1 .. Horizon : Below(n - 1, n, Limits.coverage) /\ Above(1, n, Limits.revisions)
    /\ \A n \in 1 .. MaxRequests : Below(n - 1, n, Limits.availability)

\* For one series whose points lie on the grid of the window, and no tolerance for
\* errors, HEALTHY means exactly this: every slot has its point, in one version
\* however often it came, with its provenance and on time, and every request was
\* answered.
\* Two series, or points off the grid, can make up for slots that are missing.
HealthyMeansComplete ==
    NoTolerance =>
    \A a \in 0 .. Horizon : \A b \in a + 1 .. Horizon :
        LET S == Selected(a, b)
        IN  /\ Cardinality({ p.metric : p \in S }) <= 1
            /\ \A p \in S : p.event \in Slots(a, b)
            => (ScorecardState(a, b) = "HEALTHY"
                <=> /\ { p.event : p \in S } = Slots(a, b)
                    /\ Cardinality(Versions(S)) = Cardinality(Slots(a, b))
                    /\ \A p \in S : p.enriched /\ ~p.untrusted
                    /\ ~Stale(S)
                    /\ answered = requests)
=============================================================================
