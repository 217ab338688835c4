--------------------------- MODULE SplitAdjustment ---------------------------
(***************************************************************************)
(* data/quality.py: a series of daily closes whose jumps are explained one *)
(* by one, by a split or a reverse split, or put into quarantine.  The     *)
(* code has the functions; that somebody explains the jumps with them is   *)
(* what its docstring asks of the domain.  Prices are exact fractions.     *)
(***************************************************************************)
EXTENDS Integers, Sequences, Functions

CONSTANTS
    Closing,   \* the closes of the source
    NaN,       \* a close that is missing
    MaxDays,   \* bound: the length of the series
    Threshold  \* the argument `threshold`, in percent

\* The tolerance of a split leaves a step of up to 8/92: below that threshold an
\* explained jump may still be reported.
ASSUME SplitAssumption ==
    /\ Closing \subseteq Nat /\ NaN \notin Nat \cup [num : Nat, den : Nat]
    /\ MaxDays \in Nat /\ Threshold \in Nat /\ Threshold >= 9

VARIABLES
    closes,      \* the closes of the source
    adjustments, \* the adjustments made: [ex_date, num, den], for the factor num/den
    quarantine   \* the days without an explanation

splitVars == <<closes, adjustments, quarantine>>

SplitInit == closes = <<>> /\ adjustments = {} /\ quarantine = {}

-----------------------------------------------------------------------------
Distance(x, y) == IF x > y THEN x - y ELSE y - x

\* The relative difference of x from y is below tol.
Near(x, y) == 100 * Distance(x, y) < 8 * y

SplitRatios == {2, 3, 4, 5, 6, 8, 10}

\* infer_split_factor: 1/r when the price has fallen r times, r when it has risen
\* r times.  The ratios are too far apart for two of them to fit.
SplitFactors(before, after) ==
    IF {before, after} \cap {0, NaN} # {} THEN {}
    ELSE { [num |-> 1, den |-> r] : r \in { r \in SplitRatios : Near(before, r * after) } }
         \cup { [num |-> r, den |-> 1] : r \in { r \in SplitRatios : Near(r * before, after) } }

Product(S, field) == FoldFunction(LAMBDA x, y : x * y, 1, [a \in S |-> a[field]])

Scaled(d, S) ==
    IF closes[d] = NaN THEN NaN
    ELSE [num |-> closes[d] * Product(S, "num"), den |-> Product(S, "den")]

\* Bug: the day of the event is adjusted too.
AdjustedThrough(d) == Scaled(d, { a \in adjustments : d <= a.ex_date })

\* adjusted_closes: the factors of the events after the day.
Adjusted(d) == Scaled(d, { a \in adjustments : d < a.ex_date })

\* The return from one price to the next is above the threshold, or no number.  A
\* price after one of zero has no return.
Exceeds(before, after) ==
    IF before = NaN THEN TRUE
    ELSE /\ before.num > 0
         /\ IF after = NaN THEN TRUE
            ELSE LET x == after.num * before.den
                     y == before.num * after.den
                 IN  100 * Distance(x, y) > Threshold * y

\* detect_jumps, of the adjusted series.
Jump(d) == d > 1 /\ Exceeds(Adjusted(d - 1), Adjusted(d))

\* A day is over.
Publish ==
    /\ Len(closes) < MaxDays
    /\ \E c \in Closing \cup {NaN} : closes' = Append(closes, c)
    /\ UNCHANGED <<adjustments, quarantine>>

Explain(d) ==
    /\ d \notin quarantine /\ Jump(d)
    /\ \/ \E f \in SplitFactors(closes[d - 1], closes[d]) :
            /\ adjustments' = adjustments \cup {[ex_date |-> d, num |-> f.num, den |-> f.den]}
            /\ UNCHANGED quarantine
       \/ /\ SplitFactors(closes[d - 1], closes[d]) = {}
          /\ quarantine' = quarantine \cup {d}
          /\ UNCHANGED adjustments
    /\ UNCHANGED closes

SplitNext == Publish \/ \E d \in DOMAIN closes : Explain(d)

SplitSpec == SplitInit /\ [][SplitNext]_splitVars

-----------------------------------------------------------------------------
(* Property *)

\* In whatever order the jumps are explained: an adjustment removes the jump of
\* its own day, and neither makes nor hides one of another day; a day is in
\* quarantine only for a jump that the source itself shows.
JumpsExplained ==
    \A d \in DOMAIN closes :
        LET raw == d > 1 /\ Exceeds(Scaled(d - 1, {}), Scaled(d, {}))
        IN  /\ Jump(d) <=> raw /\ \A a \in adjustments : a.ex_date # d
            /\ d \in quarantine => raw
=============================================================================
