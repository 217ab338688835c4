-------------------------- MODULE MCAggregationRouter --------------------------
(* Model values for the runs of AggregationRouter. *)
EXTENDS AggregationRouter

CONSTANTS t1, t2

TwoTasks == {t1, t2}
First    == {1}
===============================================================================
