-------------------------- MODULE MCCollectionArchive --------------------------
(* Targets for the runs of CollectionArchive. *)
EXTENDS CollectionArchive

CONSTANTS e1, f1, f2, res1, why

\* The funnel is entered at its begin and near its end, so that it is walked from
\* both ends within few lines; and there is one way out of it.
Entries == {"DISCOVERED", "OFFICIAL_RESULT_FOUND"}
Moves   == {"VALIDATED", "COMPLETE", "CLOSED"}

OnlyWithout == {FALSE}
EitherWay   == BOOLEAN
===============================================================================
