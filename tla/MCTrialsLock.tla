----------------------------- MODULE MCTrialsLock -----------------------------
(* Sets of processes for the runs of TrialsLock. *)
EXTENDS TrialsLock

CONSTANTS p1, p2

TwoProcs == {p1, p2}
Nobody   == {}
OnlyP1   == {p1}
OnlyP2   == {p2}
=============================================================================
