------------------------------- MODULE Replay -------------------------------
(***************************************************************************)
(* replay and PastView (measurement/replay.py): the events are handed to a *)
(* handler one by one, as a view of the past that ends at the event.  The  *)
(* order and the availability of the events are verified first, when the   *)
(* caller gives `key` and `available_at`.                                  *)
(***************************************************************************)
EXTENDS Integers, Sequences

CONSTANTS
    Instant,  \* the timestamps
    Feed      \* the sequences of events that are replayed

ASSUME ReplayAssumption ==
    /\ Instant \subseteq Int
    /\ Feed \subseteq Seq([at : Instant, available : Instant])

VARIABLES
    data,    \* the events
    keyed,   \* `key` is given
    dated,   \* `available_at` is given
    rstep,   \* the loop that is running
    pos,     \* its next event
    past,    \* what the handler was given last
    ledger   \* the positions for which it decided something

replayVars == <<data, keyed, dated, rstep, pos, past, ledger>>

Loops == {"none", "order", "availability", "handling", "done", "refused"}

ReplayInit ==
    /\ data = <<>> /\ keyed = FALSE /\ dated = FALSE
    /\ rstep = "none" /\ pos = 1
    /\ past = <<>> /\ ledger = <<>>

-----------------------------------------------------------------------------
\* The call.  A date of availability without a key is refused.
Start ==
    /\ rstep = "none"
    /\ data' \in Feed /\ keyed' \in BOOLEAN /\ dated' \in BOOLEAN
    /\ rstep' = IF dated' /\ ~keyed' THEN "refused" ELSE IF keyed' THEN "order" ELSE "handling"
    /\ UNCHANGED <<pos, past, ledger>>

Turn(loop, p) == rstep' = loop /\ pos' = p /\ UNCHANGED <<data, keyed, dated, past, ledger>>

InOrder(i) == i > 1 => data[i].at >= data[i - 1].at

CheckOrder ==
    /\ rstep = "order"
    /\ \/ pos \in DOMAIN data /\ InOrder(pos) /\ Turn("order", pos + 1)
       \/ pos \in DOMAIN data /\ ~InOrder(pos) /\ Turn("refused", pos)
       \/ pos \notin DOMAIN data /\ Turn(IF dated THEN "availability" ELSE "handling", 1)

CheckAvailability ==
    /\ rstep = "availability"
    /\ \/ pos \in DOMAIN data /\ data[pos].available <= data[pos].at
          /\ Turn("availability", pos + 1)
       \/ pos \in DOMAIN data /\ data[pos].available > data[pos].at /\ Turn("refused", pos)
       \/ pos \notin DOMAIN data /\ Turn("handling", 1)

\* Bug: the view reaches one event further.
HandleAhead ==
    /\ rstep = "handling"
    /\ pos \in DOMAIN data
    /\ past' = SubSeq(data, 1, IF pos < Len(data) THEN pos + 1 ELSE pos)
    /\ ledger' \in {ledger, Append(ledger, pos)}
    /\ pos' = pos + 1
    /\ UNCHANGED <<data, keyed, dated, rstep>>

\* handler(PastView(data[: i + 1])), and its decision if it makes one.
Handle ==
    /\ rstep = "handling"
    /\ pos \in DOMAIN data
    /\ past' = SubSeq(data, 1, pos)
    /\ ledger' \in {ledger, Append(ledger, pos)}
    /\ pos' = pos + 1
    /\ UNCHANGED <<data, keyed, dated, rstep>>

\* The ledger is returned, or the handler raises.
Finish == rstep = "handling" /\ Turn("done", pos)

ReplayNext == Start \/ CheckOrder \/ CheckAvailability \/ Handle \/ Finish

ReplaySpec == ReplayInit /\ [][ReplayNext]_replayVars

-----------------------------------------------------------------------------
(* PastView *)

\* Python's index k of a view: it counts from the end when it is negative.
Index(k) == IF k < 0 THEN k + Len(past) ELSE k

\* past[k]: the event, or the exception.
Item(k) ==
    CASE Index(k) < 0          -> "IndexError"
      [] Index(k) >= Len(past) -> "LookaheadError"
      [] OTHER                 -> past[Index(k) + 1]

\* slice.indices: a bound outside the view is brought back to its end.
Clamped(k) ==
    CASE Index(k) < 0         -> 0
      [] Index(k) > Len(past) -> Len(past)
      [] OTHER                -> Index(k)

\* past[i:j].  Iterating over the view is past[0:len(past)].
Slice(i, j) == SubSeq(past, Clamped(i) + 1, Clamped(j))

-----------------------------------------------------------------------------
(* Property *)

\* No lookahead: what a handler can read by any index or slice is the feed up to the
\* event it is called for, which is past[-1], and the next index raises; with `key`
\* nothing in it is later than that event, and with `available_at` all of it had
\* been published by then.
NoLookahead ==
    past # <<>> =>
        LET now == Item(-1)
        IN  /\ Len(past) < pos /\ now = data[pos - 1]
            /\ Item(Len(past)) = "LookaheadError"
            /\ \A i, j \in -pos .. pos : \A n \in DOMAIN Slice(i, j) :
                 /\ Clamped(i) + n \in 1 .. pos - 1
                 /\ Slice(i, j)[n] = data[Clamped(i) + n]
            /\ \A k \in 0 .. Len(past) - 1 :
                 /\ Item(k) = data[k + 1]
                 /\ keyed => Item(k).at <= now.at
                 /\ dated => Item(k).available <= now.at
=============================================================================
