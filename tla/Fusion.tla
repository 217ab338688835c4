------------------------------- MODULE Fusion -------------------------------
(***************************************************************************)
(* data/aggregation.py and MarketDataPoint (data/contracts.py): candles of *)
(* several sources, fused timestamp by timestamp, and the time-weighted    *)
(* average of a series.  The arithmetic is exact; a median is given twice  *)
(* its value, a mean as a sum, so that all numbers are whole.              *)
(***************************************************************************)
EXTENDS Integers, FiniteSets, FiniteSetsExt

CONSTANTS
    Source,     \* the exchanges
    MaxPrice,   \* bound: prices
    MaxInstant, \* bound: timestamps
    MaxCandles  \* bound: candles received

ASSUME FusionAssumption == MaxPrice \in Nat /\ MaxInstant \in Nat /\ MaxCandles \in Nat

VARIABLE candles  \* the candles received

fusionVars == <<candles>>

FusionInit == candles = {}

-----------------------------------------------------------------------------
Price == 0 .. MaxPrice

\* What MarketDataPoint accepts.
ValidCandle(p) == p.high >= p.low /\ p.published >= p.timestamp

\* A provider delivers a candle that the constructor accepts; that the close lies
\* between low and high is the provider's affair.
Receive ==
    /\ Cardinality(candles) < MaxCandles
    /\ \E p \in [source : Source, timestamp : 0 .. MaxInstant, published : 0 .. MaxInstant,
                 low : Price, high : Price, close : Price] :
         /\ ValidCandle(p) /\ p.low <= p.close /\ p.close <= p.high
         /\ \A q \in candles : q.source # p.source \/ q.timestamp # p.timestamp
         /\ candles' = candles \cup {p}

FusionNext == Receive

FusionSpec == FusionInit /\ [][FusionNext]_fusionVars

-----------------------------------------------------------------------------
Bucket(t) == { p \in candles : p.timestamp = t }

\* The k-th smallest value of a field.
Ranked(S, field, k) ==
    CHOOSE x \in { p[field] : p \in S } :
        /\ Cardinality({ p \in S : p[field] <= x }) >= k
        /\ Cardinality({ p \in S : p[field] < x }) < k

\* statistics.median, twice.
Median(S, field) ==
    Ranked(S, field, (Cardinality(S) + 1) \div 2) + Ranked(S, field, Cardinality(S) \div 2 + 1)

\* statistics.fmean, times the number of values.
Sum(S, field) == SumFunction([p \in S |-> p[field]])

\* Bug: the time of the first candle of the bucket.
FirstPublished(S) == Min({ p.published : p \in S })

\* The fused point is as late as the last of its sources.
FusedPublished(S) == Max({ p.published : p \in S })

\* One series in order: how long each candle lasts, the last as long as the one
\* before it.
Duration(S, p) ==
    LET later   == { q.timestamp : q \in { q \in S : q.timestamp > p.timestamp } }
        earlier == { q.timestamp : q \in { q \in S : q.timestamp < p.timestamp } }
    IN  IF later # {} THEN Min(later) - p.timestamp ELSE p.timestamp - Max(earlier)

\* twap, as numerator and denominator; a single candle is its own average.
Twap(S) ==
    LET lasting == [p \in S |-> IF Cardinality(S) = 1 THEN 1 ELSE Duration(S, p)]
    IN  [num |-> SumFunction([p \in S |-> p.close * lasting[p]]), den |-> SumFunction(lasting)]

-----------------------------------------------------------------------------
(* Property *)

Between(low, close, high) == low <= close /\ close <= high

\* Whatever one of the candles says, the median stays among the others.
Robust(S, field) ==
    \A p \in S : LET others == { q[field] : q \in S \ {p} }
                 IN  Between(2 * Min(others), Median(S, field), 2 * Max(others))

\* A fused candle is one that MarketDataPoint accepts, its close between its low
\* and high, no earlier than any of its sources ("the fused datum is available
\* when the last source has published"); from three sources on the median stands
\* up to any single one; and an average lies between the closes it is of.
ConsensusWithinSources ==
    /\ \A S \in { Bucket(t) : t \in 0 .. MaxInstant } \ {{}} :
         /\ Between(Median(S, "low"), Median(S, "close"), Median(S, "high"))
         /\ Between(Sum(S, "low"), Sum(S, "close"), Sum(S, "high"))
         /\ \A p \in S : FusedPublished(S) >= p.published /\ FusedPublished(S) >= p.timestamp
         /\ Cardinality(S) >= 3 => \A field \in {"low", "high", "close"} : Robust(S, field)
    /\ \A S \in { { p \in candles : p.source = s } : s \in Source } \ {{}} :
         LET closes == { p.close : p \in S }
             average == Twap(S)
         IN  Between(Min(closes) * average.den, average.num, Max(closes) * average.den)
=============================================================================
