--------------------------- MODULE MCFallbackRouter ---------------------------
(* Model values for the runs of FallbackRouter. *)
EXTENDS FallbackRouter

CONSTANTS t1, t2, t3

TwoTasks   == {t1, t2}
ThreeTasks == {t1, t2, t3}

First == {1}
Both  == {1, 2}

=============================================================================
