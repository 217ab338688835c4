---------------------------- MODULE MCTrialRegistry ----------------------------
(* Instances of TrialRegistry: the processes, and the calls they make. *)
EXTENDS TrialRegistry, TLC

CONSTANTS p1, p2, p3, a, b, old, c1, c2, v1, v2, brier, rps, f, g

OneProc    == {p1}
TwoProcs   == {p1, p2}
ThreeProcs == {p1, p2, p3}
Nobody     == {}
OnlyP1     == {p1}
OnlyP2     == {p2}

Names        == {a, b, old}
Configs      == {c1, c2}
Verdicts     == {v1, v2}
Metrics      == {brier, rps}
Fingerprints == {f, g}
Stamps       == 0 .. 3

\* A registry from before the attestations: one trial, without a metric.
LegacyTrials ==
    old :> [params |-> c1, at |-> 0, verdict |-> v1, metric |-> None,
            superseded |-> <<>>, ok |-> TRUE]
NoTrialsYet == [n \in {} |-> None]

Req(n, p, v, m, at) ==
    [name |-> n, params |-> p, verdict |-> v, metric |-> m, fingerprint |-> f,
     bypass |-> FALSE, ok |-> TRUE, superseded |-> <<>>, at |-> at]

\* A new trial; its verdict changed, without naming the metric; the same
\* configuration under another metric; another configuration; a legacy trial
\* that adopts a metric, and one whose verdict changes; a list that does not
\* pass validation.
Calls ==
    { Req(a, c1, v1, brier, 1), Req(a, c1, v2, None, 2), Req(a, c1, v2, rps, 3),
      Req(a, c2, v1, brier, 3), Req(old, c1, v1, rps, 1), Req(old, c1, v2, brier, 2),
      [Req(b, c1, v1, brier, 1) EXCEPT !.ok = FALSE] }

TwoTrials == { Req(a, c1, v1, brier, 1), Req(b, c1, v1, brier, 2) }

TwoVerdicts == { Req(a, c1, v1, brier, 1), Req(a, c1, v2, brier, 2) }

Unprotected(r) == [r EXCEPT !.bypass = TRUE]

UnprotectedTrials == { Unprotected(r) : r \in TwoTrials }

Brier == { [metric |-> brier, fingerprint |-> f] }

\* The metric of one pipeline and another metric of another.
OwnAndOther == Brier \cup { [metric |-> rps, fingerprint |-> g] }
=============================================================================
