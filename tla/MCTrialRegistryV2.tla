--------------------------- MODULE MCTrialRegistryV2 ---------------------------
(* Model values and symmetry for the runs of TrialRegistryV2. *)
EXTENDS TrialRegistryV2, TLC

CONSTANTS p1, p2, a, b, x1, x2

TwoProcs == {p1, p2}
Nobody   == {}

V2Symmetry == Permutations({p1, p2}) \cup Permutations({a, b}) \cup Permutations({x1, x2})
===============================================================================
