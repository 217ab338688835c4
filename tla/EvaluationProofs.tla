--------------------------- MODULE EvaluationProofs ---------------------------
(***************************************************************************)
(* What an evaluation may rest on, for feeds of any length, any schedule,  *)
(* any number of processes and any contents.                               *)
(*                                                                         *)
(* Replay: no handler sees past its own event.  The argument follows the   *)
(* loops: each of the two that verify the feed extends by one event what   *)
(* is known of the part behind it, and when the handlers begin that part   *)
(* is the whole feed.  Prequential evaluation: no prediction is made by a  *)
(* model that saw its own step; the strengthening is the arithmetic of the *)
(* retraining schedule.  Governance: which states lie behind each state.   *)
(* Attestations: what each test of the suite has found out by the time it  *)
(* writes, unless the code changed under it.                               *)
(***************************************************************************)
EXTENDS Replay, Prequential, ScientificGovernance, PowerHarness, TLAPS

-----------------------------------------------------------------------------
(* Replay *)

Observation == [at : Instant, available : Instant]

\* The first n events are in order, or were available in time.
OrderedTo(n)   == \A i, j \in 1 .. n : i <= j => data[i].at <= data[j].at
AvailableTo(n) == \A i \in 1 .. n : data[i].available <= data[i].at

ReplayTypes ==
    /\ data \in Seq(Observation)
    /\ keyed \in BOOLEAN /\ dated \in BOOLEAN
    /\ rstep \in Loops
    /\ pos \in 1 .. Len(data) + 1

Verified ==
    /\ rstep = "order" => keyed /\ OrderedTo(pos - 1)
    /\ rstep = "availability" => keyed /\ OrderedTo(Len(data)) /\ AvailableTo(pos - 1)
    /\ rstep \in {"handling", "done"} =>
         /\ keyed => OrderedTo(Len(data))
         /\ dated => keyed /\ AvailableTo(Len(data))

\* What a handler holds, once the first was called.
Handed ==
    past # <<>> =>
        /\ rstep \in {"handling", "done"}
        /\ pos > 1
        /\ past = SubSeq(data, 1, pos - 1)

ReplayInv == ReplayTypes /\ Verified /\ Handed /\ (rstep = "none" => pos = 1 /\ past = <<>>)

LEMMA Timestamps ==
    ASSUME data \in Seq(Observation), NEW i \in 1 .. Len(data)
    PROVE  data[i].at \in Int /\ data[i].available \in Int
<1>1. data[i] \in Observation
  OBVIOUS
<1>2. data[i].at \in Instant /\ data[i].available \in Instant
  BY <1>1 DEF Observation
<1> QED
  BY <1>2, ReplayAssumption

LEMMA ReplayInvInit == ReplayInit => ReplayInv
<1> SUFFICES ASSUME ReplayInit PROVE ReplayInv
  OBVIOUS
<1>1. data \in Seq(Observation) /\ pos \in 1 .. Len(data) + 1 /\ rstep = "none" /\ past = <<>>
  BY DEF ReplayInit
<1>2. keyed \in BOOLEAN /\ dated \in BOOLEAN
  BY DEF ReplayInit
<1>3. ReplayTypes
  BY <1>1, <1>2 DEF ReplayTypes, Loops
<1>4. Verified /\ Handed
  BY <1>1 DEF Verified, Handed
<1> QED
  BY <1>1, <1>3, <1>4 DEF ReplayInv, ReplayInit

LEMMA StartKeeps ==
    ASSUME ReplayInv, Start PROVE ReplayInv'
<1> USE DEF ReplayInv, Start
<1>1. data' \in Seq(Observation) /\ pos' = 1 /\ past' = <<>>
  BY ReplayAssumption DEF Observation
<1>2. OrderedTo(0)' /\ AvailableTo(0)'
  BY DEF OrderedTo, AvailableTo
<1>3. rstep' \in {"refused", "order", "handling"}
  OBVIOUS
<1>4. rstep' = "order" => keyed'
  OBVIOUS
<1>5. rstep' = "handling" => ~keyed' /\ ~dated'
  OBVIOUS
<1>6. ReplayTypes'
  BY <1>1, <1>3 DEF ReplayTypes, Loops
<1> HIDE DEF Start
<1>7. Verified'
  BY <1>1, <1>2, <1>3, <1>4, <1>5 DEF Verified
<1>8. Handed'
  BY <1>1 DEF Handed
<1> QED
  BY <1>1, <1>3, <1>6, <1>7, <1>8

LEMMA CheckOrderKeeps ==
    ASSUME ReplayInv, CheckOrder PROVE ReplayInv'
<1>1. /\ UNCHANGED <<data, keyed, dated, past, ledger>>
      /\ rstep = "order" /\ past = <<>> /\ keyed /\ OrderedTo(pos - 1)
  BY DEF ReplayInv, CheckOrder, Turn, Handed, Verified
<1>2. /\ data \in Seq(Observation) /\ pos \in 1 .. Len(data) + 1
      /\ DOMAIN data = 1 .. Len(data) /\ Len(data) \in Nat
  BY DEF ReplayInv, ReplayTypes
<1>3. CASE pos \in DOMAIN data /\ InOrder(pos) /\ Turn("order", pos + 1)
  <2>1. \A i \in 1 .. Len(data) : data[i].at \in Int
    BY <1>2, Timestamps
  <2>2. OrderedTo(pos)
    <3> SUFFICES ASSUME NEW i \in 1 .. pos, NEW j \in 1 .. pos, i <= j
                 PROVE  data[i].at <= data[j].at
      BY DEF OrderedTo
    <3>1. CASE j < pos
      BY <1>1, <1>2, <3>1 DEF OrderedTo
    <3>2. CASE i < pos /\ j = pos
      <4>1. data[i].at <= data[pos - 1].at
        BY <1>1, <1>2, <3>2 DEF OrderedTo
      <4>2. data[pos - 1].at <= data[pos].at
        BY <1>2, <1>3, <2>1, <3>2 DEF InOrder
      <4> QED
        BY <1>2, <1>3, <2>1, <3>2, <4>1, <4>2
    <3>3. CASE i = pos /\ j = pos
      BY <1>2, <1>3, <2>1, <3>3
    <3> QED
      BY <1>2, <3>1, <3>2, <3>3
  <2>3. rstep' = "order" /\ pos' = pos + 1 /\ pos' - 1 = pos
    BY <1>2, <1>3 DEF Turn
  <2>4. OrderedTo(pos - 1)'
    BY <1>1, <2>2, <2>3 DEF OrderedTo
  <2>5. ReplayTypes'
    BY <1>1, <1>2, <1>3, <2>3 DEF ReplayInv, ReplayTypes, Loops
  <2>6. Verified' /\ Handed'
    BY <1>1, <2>3, <2>4 DEF Verified, Handed
  <2> QED
    BY <2>3, <2>5, <2>6 DEF ReplayInv
<1>4. CASE pos \in DOMAIN data /\ ~InOrder(pos) /\ Turn("refused", pos)
  BY <1>1, <1>2, <1>4 DEF Turn, ReplayInv, ReplayTypes, Verified, Handed, Loops
<1>5. CASE pos \notin DOMAIN data /\ Turn(IF dated THEN "availability" ELSE "handling", 1)
  <2>1. OrderedTo(Len(data))' /\ AvailableTo(0)'
    BY <1>1, <1>2, <1>5 DEF OrderedTo, AvailableTo
  <2>2. pos' = 1 /\ rstep' = IF dated THEN "availability" ELSE "handling"
    BY <1>5 DEF Turn
  <2>3. Verified'
    BY <1>1, <2>1, <2>2 DEF Verified
  <2> QED
    BY <1>1, <1>2, <2>2, <2>3 DEF ReplayInv, ReplayTypes, Handed, Loops
<1> QED
  BY <1>3, <1>4, <1>5 DEF CheckOrder

LEMMA CheckAvailabilityKeeps ==
    ASSUME ReplayInv, CheckAvailability PROVE ReplayInv'
<1>1. /\ UNCHANGED <<data, keyed, dated, past, ledger>>
      /\ rstep = "availability" /\ past = <<>>
      /\ keyed /\ OrderedTo(Len(data)) /\ AvailableTo(pos - 1)
  BY DEF ReplayInv, CheckAvailability, Turn, Handed, Verified
<1>2. /\ data \in Seq(Observation) /\ pos \in 1 .. Len(data) + 1
      /\ DOMAIN data = 1 .. Len(data) /\ Len(data) \in Nat
  BY DEF ReplayInv, ReplayTypes
<1>3. OrderedTo(Len(data))'
  BY <1>1 DEF OrderedTo
<1>4. CASE /\ pos \in DOMAIN data /\ data[pos].available <= data[pos].at
           /\ Turn("availability", pos + 1)
  <2>1. rstep' = "availability" /\ pos' = pos + 1 /\ pos' - 1 = pos
    BY <1>2, <1>4 DEF Turn
  <2>2. AvailableTo(pos - 1)'
    BY <1>1, <1>2, <1>4, <2>1 DEF AvailableTo
  <2>3. ReplayTypes'
    BY <1>1, <1>2, <1>4, <2>1 DEF ReplayInv, ReplayTypes, Loops
  <2>4. Verified' /\ Handed'
    BY <1>1, <1>3, <2>1, <2>2 DEF Verified, Handed
  <2> QED
    BY <2>1, <2>3, <2>4 DEF ReplayInv
<1>5. CASE pos \in DOMAIN data /\ data[pos].available > data[pos].at /\ Turn("refused", pos)
  BY <1>1, <1>2, <1>5 DEF Turn, ReplayInv, ReplayTypes, Verified, Handed, Loops
<1>6. CASE pos \notin DOMAIN data /\ Turn("handling", 1)
  <2>1. AvailableTo(Len(data))'
    BY <1>1, <1>2, <1>6 DEF AvailableTo
  <2>2. pos' = 1 /\ rstep' = "handling"
    BY <1>6 DEF Turn
  <2> QED
    BY <1>1, <1>2, <1>3, <2>1, <2>2 DEF ReplayInv, ReplayTypes, Verified, Handed, Loops
<1> QED
  BY <1>4, <1>5, <1>6 DEF CheckAvailability

LEMMA HandleKeeps ==
    ASSUME ReplayInv, Handle \/ Finish PROVE ReplayInv'
<1>1. CASE Handle
  <2>1. /\ UNCHANGED <<data, keyed, dated, rstep>> /\ rstep = "handling"
        /\ pos \in DOMAIN data /\ pos' = pos + 1 /\ past' = SubSeq(data, 1, pos)
    BY <1>1 DEF Handle
  <2>2. ReplayTypes'
    BY <2>1 DEF ReplayInv, ReplayTypes
  <2>3. Verified'
    BY <2>1 DEF ReplayInv, Verified, OrderedTo, AvailableTo
  <2>4. Handed'
    BY <2>1 DEF ReplayInv, ReplayTypes, Handed
  <2> QED
    BY <2>1, <2>2, <2>3, <2>4 DEF ReplayInv
<1>2. CASE Finish
  BY <1>2 DEF Finish, Turn, ReplayInv, ReplayTypes, Verified, Handed, OrderedTo, AvailableTo, Loops
<1> QED
  BY <1>1, <1>2

LEMMA ReplayInvStep == ReplayInv /\ [ReplayNext]_replayVars => ReplayInv'
<1>1. CASE UNCHANGED replayVars
  BY <1>1 DEF replayVars, ReplayInv, ReplayTypes, Verified, Handed, OrderedTo, AvailableTo
<1> QED
  BY <1>1, StartKeeps, CheckOrderKeeps, CheckAvailabilityKeeps, HandleKeeps DEF ReplayNext

LEMMA InvShutsOutFuture == ReplayInv => NoLookahead
<1> SUFFICES ASSUME ReplayInv, past # <<>> PROVE NoLookahead
  BY DEF NoLookahead
<1>1. /\ data \in Seq(Observation) /\ DOMAIN data = 1 .. Len(data) /\ Len(data) \in Nat
      /\ pos - 1 \in 1 .. Len(data) /\ rstep \in {"handling", "done"}
      /\ past = SubSeq(data, 1, pos - 1)
  BY DEF ReplayInv, ReplayTypes, Handed
<1>2. past \in Seq(Observation) /\ Len(past) = pos - 1 /\ DOMAIN past = 1 .. pos - 1
      /\ \A i \in 1 .. pos - 1 : past[i] = data[i]
  BY <1>1
<1>3. Item(-1) = data[pos - 1] /\ Item(Len(past)) = "LookaheadError"
  BY <1>1, <1>2 DEF Item, Index
<1>4. \A k \in 0 .. Len(past) - 1 : Item(k) = data[k + 1]
  BY <1>1, <1>2 DEF Item, Index
<1>5. ASSUME NEW k \in 0 .. Len(past) - 1
      PROVE  /\ keyed => data[k + 1].at <= data[pos - 1].at
             /\ dated => data[k + 1].available <= data[pos - 1].at
  <2>1. /\ data[k + 1].at \in Int /\ data[k + 1].available \in Int
        /\ data[pos - 1].at \in Int /\ k + 1 \in 1 .. Len(data) /\ k + 1 <= pos - 1
    BY <1>1, <1>2, Timestamps
  <2>2. keyed => data[k + 1].at <= data[pos - 1].at
    BY <1>1, <2>1 DEF ReplayInv, Verified, OrderedTo
  <2>3. dated => keyed /\ data[k + 1].available <= data[k + 1].at
    BY <1>1, <2>1 DEF ReplayInv, Verified, AvailableTo
  <2> QED
    BY <2>1, <2>2, <2>3
<1>6. Len(past) < pos
  BY <1>1, <1>2 DEF ReplayInv, ReplayTypes
<1>7. \A k \in 0 .. Len(past) - 1 :
         /\ Item(k) = data[k + 1]
         /\ keyed => Item(k).at <= Item(-1).at
         /\ dated => Item(k).available <= Item(-1).at
  BY <1>3, <1>4, <1>5
<1>8. ASSUME NEW i \in -pos .. pos, NEW j \in -pos .. pos, NEW n \in DOMAIN Slice(i, j)
      PROVE  /\ Clamped(i) + n \in 1 .. pos - 1
             /\ Slice(i, j)[n] = data[Clamped(i) + n]
  <2>1. pos \in Int
    BY DEF ReplayInv, ReplayTypes
  <2>2. Clamped(i) \in 0 .. Len(past) /\ Clamped(j) \in 0 .. Len(past)
    BY <1>1, <1>2, <2>1 DEF Clamped, Index
  <2>3. /\ n \in 1 .. Clamped(j) - Clamped(i)
        /\ Slice(i, j)[n] = past[Clamped(i) + n]
    <3>1. ASSUME NEW a \in 0 .. Len(past), NEW b \in 0 .. Len(past),
                 NEW m \in DOMAIN SubSeq(past, a + 1, b)
          PROVE  m \in 1 .. b - a /\ SubSeq(past, a + 1, b)[m] = past[a + m]
      <4>1. Len(past) \in Nat
        BY <1>1, <1>2
      <4>2. \A x \in a + 1 .. b : past[x] \in Observation
        BY <1>2, <4>1
      <4>3. SubSeq(past, a + 1, b) \in Seq(Observation)
        BY <1>2, <4>1
      <4>4. Len(SubSeq(past, a + 1, b)) = IF a + 1 <= b THEN b - a ELSE 0
        BY <1>2, <4>1
      <4> QED
        BY <1>2, <4>1, <4>3, <4>4
    <3> QED
      BY <2>2, <3>1 DEF Slice
  <2>4. Clamped(i) + n \in 1 .. pos - 1
    BY <1>1, <1>2, <2>2, <2>3
  <2> QED
    BY <1>2, <2>3, <2>4
<1> QED
  BY <1>3, <1>6, <1>7, <1>8 DEF NoLookahead

\* For every feed, with `key`, with `available_at` too, or with neither: no index or slice
\* a handler can use gives it an event after its own, nor with `key` a later one,
\* nor with `available_at` one that was published later.
THEOREM ReplayNoLookahead == ReplaySpec => []NoLookahead
<1>1. ReplayInit => ReplayInv
  BY ReplayInvInit
<1>2. ReplayInv /\ [ReplayNext]_replayVars => ReplayInv'
  BY ReplayInvStep
<1>3. ReplayInv => NoLookahead
  BY InvShutsOutFuture
<1> QED
  BY <1>1, <1>2, <1>3, PTL DEF ReplaySpec

-----------------------------------------------------------------------------
(* Prequential evaluation *)

\* The last training was at a multiple of retrain_every after min_history, and not
\* more than retrain_every steps ago.
Schedule ==
    IF trained = 0
    THEN current = minHistory /\ sinceTrain = 0 /\ results = {} /\ hook # "predict"
    ELSE /\ \E q \in Nat : trained = minHistory + q * retrainEvery
         /\ current = trained + sinceTrain
         /\ sinceTrain <= retrainEvery
         /\ hook = "predict" => sinceTrain < retrainEvery
         /\ hook = "train" => sinceTrain = retrainEvery

PrequentialInv ==
    /\ hook \in {"none", "next", "train", "predict", "done", "refused"}
    /\ observations \in Nat /\ minHistory \in Nat /\ retrainEvery \in Nat
    /\ current \in Nat /\ sinceTrain \in Nat /\ trained \in Nat
    /\ hook = "none" => trained = 0 /\ sinceTrain = 0 /\ results = {}
    /\ results \subseteq [index : Nat, trained : Nat]
    /\ \A r \in results :
         r.trained = minHistory + ((r.index - minHistory) \div retrainEvery) * retrainEvery
    /\ hook \notin {"none", "refused"} =>
         /\ minHistory >= 1 /\ retrainEvery >= 1
         /\ { r.index : r \in results } = minHistory .. current - 1
         /\ Schedule

\* Between two trainings the quotient stays what it was at the first of them.
LEMMA QuotientStays ==
    ASSUME NEW every \in Nat \ {0}, NEW q \in Nat, NEW since \in 0 .. every - 1
    PROVE  (q * every + since) \div every = q
  OBVIOUS

LEMMA PrequentialInvInit == PrequentialInit => PrequentialInv
  BY DEF PrequentialInit, PrequentialInv

LEMMA PredictKeeps == PrequentialInv /\ Predict => PrequentialInv'
<1> SUFFICES ASSUME PrequentialInv, Predict PROVE PrequentialInv'
  OBVIOUS
<1> DEFINE r == [index |-> current, trained |-> trained]
<1>1. /\ hook = "predict" /\ hook' = "next"
      /\ results' = results \cup {r}
      /\ sinceTrain' = sinceTrain + 1 /\ current' = current + 1
      /\ UNCHANGED <<observations, minHistory, retrainEvery, trained>>
  BY DEF Predict, arguments
<1>2. /\ minHistory \in Nat /\ minHistory >= 1
      /\ retrainEvery \in Nat \ {0}
      /\ current \in Nat /\ trained \in Nat /\ sinceTrain \in Nat
      /\ trained # 0 /\ current = trained + sinceTrain /\ sinceTrain < retrainEvery
      /\ { s.index : s \in results } = minHistory .. current - 1
  BY <1>1 DEF PrequentialInv, Schedule
<1>3. PICK q \in Nat : trained = minHistory + q * retrainEvery
  BY <1>1, <1>2 DEF PrequentialInv, Schedule
<1>4. q * retrainEvery \in Nat
  BY <1>2
<1>5. /\ current - minHistory = q * retrainEvery + sinceTrain
      /\ minHistory <= current
  BY <1>2, <1>3, <1>4
<1>6. (current - minHistory) \div retrainEvery = q
  BY <1>2, <1>5, QuotientStays
<1>7. r.trained = minHistory + ((r.index - minHistory) \div retrainEvery) * retrainEvery
  BY <1>3, <1>6
<1>8. { s.index : s \in results' } = minHistory .. current' - 1
  <2>1. { s.index : s \in results' } = { s.index : s \in results } \cup {current}
    <3>1. { s.index : s \in results \cup {r} } = { s.index : s \in results } \cup {r.index}
      BY Zenon
    <3> QED
      BY <1>1, <3>1
  <2>2. minHistory .. current' - 1 = (minHistory .. current - 1) \cup {current}
    BY <1>1, <1>2, <1>5
  <2> QED
    BY <1>2, <2>1, <2>2
<1>9. Schedule'
  BY <1>1, <1>2, <1>3 DEF Schedule
<1>10. \A s \in results' :
         s.trained = minHistory + ((s.index - minHistory) \div retrainEvery) * retrainEvery
  BY <1>1, <1>7 DEF PrequentialInv
<1>11. results' \subseteq [index : Nat, trained : Nat]
  BY <1>1, <1>2 DEF PrequentialInv
<1> QED
  BY <1>1, <1>2, <1>8, <1>9, <1>10, <1>11 DEF PrequentialInv

LEMMA PrequentialInvStep ==
    PrequentialInv /\ [PrequentialNext]_prequentialVars => PrequentialInv'
<1> SUFFICES ASSUME PrequentialInv, [PrequentialNext]_prequentialVars PROVE PrequentialInv'
  OBVIOUS
<1> USE DEF PrequentialInv, Schedule, arguments
<1>1. CASE Run
  <2>1. /\ hook = "none" /\ trained = 0 /\ sinceTrain = 0 /\ results = {}
        /\ observations' \in Nat /\ minHistory' \in Nat /\ retrainEvery' \in Nat
        /\ hook' = IF minHistory' < 1 \/ retrainEvery' < 1 THEN "refused" ELSE "next"
        /\ current' = minHistory'
        /\ trained' = 0 /\ sinceTrain' = 0 /\ results' = {}
    BY <1>1, PrequentialAssumption DEF Run
  <2>2. { r.index : r \in results' } = minHistory' .. current' - 1
    BY <2>1
  <2> QED
    BY <2>1, <2>2
<1>2. CASE Advance
  <2>1. /\ UNCHANGED <<observations, minHistory, retrainEvery>>
        /\ UNCHANGED <<current, sinceTrain, trained, results>>
        /\ hook = "next"
    BY <1>2 DEF Advance
  <2>2. \/ hook' \in {"done", "refused"}
        \/ hook' = "train" /\ (trained = 0 \/ sinceTrain >= retrainEvery)
        \/ hook' = "predict" /\ trained # 0 /\ ~(sinceTrain >= retrainEvery)
    BY <1>2, Zenon DEF Advance, MustTrain
  <2>3. CASE hook' \in {"done", "refused"}
    BY <2>1, <2>3
  <2>4. CASE hook' = "train" /\ (trained = 0 \/ sinceTrain >= retrainEvery)
    BY <2>1, <2>4
  <2>5. CASE hook' = "predict" /\ trained # 0 /\ ~(sinceTrain >= retrainEvery)
    BY <2>1, <2>5
  <2> QED
    BY <2>2, <2>3, <2>4, <2>5
<1>3. CASE Train
  <2>1. /\ hook = "train" /\ hook' = "predict"
        /\ trained' = current /\ sinceTrain' = 0
        /\ UNCHANGED <<observations, minHistory, retrainEvery, current, results>>
    BY <1>3 DEF Train
  <2>2. \E q \in Nat : current = minHistory + q * retrainEvery
    <3>1. CASE trained = 0
      <4>1. current = minHistory + 0 * retrainEvery
        BY <2>1, <3>1
      <4> QED
        BY <4>1
    <3>2. CASE trained # 0
      <4>1. PICK q \in Nat : trained = minHistory + q * retrainEvery
        BY <2>1, <3>2
      <4>2. current = minHistory + (q + 1) * retrainEvery
        BY <2>1, <3>2, <4>1
      <4> QED
        BY <4>2
    <3> QED
      BY <3>1, <3>2
  <2>3. current \in Nat /\ current # 0
    BY <2>1
  <2> QED
    BY <2>1, <2>2, <2>3
<1>4. CASE Predict
  BY <1>4, PredictKeeps
<1>5. CASE HookRaises
  BY <1>5 DEF HookRaises
<1>6. CASE UNCHANGED prequentialVars
  BY <1>6 DEF prequentialVars
<1> QED
  BY <1>1, <1>2, <1>3, <1>4, <1>5, <1>6 DEF PrequentialNext

\* For any number of observations, any min_history and retrain_every, and hooks
\* that fail anywhere: each prediction is that of the model of its place in the
\* schedule, and no position is left out.
THEOREM PredictionsFromPast == PrequentialSpec => []TrainedOnPast
<1>1. PrequentialInv => TrainedOnPast
  BY DEF PrequentialInv, TrainedOnPast
<1>2. PrequentialSpec => []PrequentialInv
  BY PrequentialInvInit, PrequentialInvStep, PTL DEF PrequentialSpec
<1> QED
  BY <1>1, <1>2, PTL

-----------------------------------------------------------------------------
(* Scientific governance *)

\* What lies behind each scientific state: `visited` holds the current state and,
\* for each state in it, one that had to come before.
GovernanceInv ==
    /\ state = "none" => visited = {}
    /\ state # "none" => state \in visited
    /\ "DATASET_FROZEN" \in visited => "HYPOTHESIS_REGISTERED" \in visited
    /\ "PENDING_SAMPLE" \in visited => "DATASET_FROZEN" \in visited
    /\ "SHADOW" \in visited => "DATASET_FROZEN" \in visited
    /\ visited \cap Verdicts # {} => "SHADOW" \in visited
    /\ ~(Verdicts \subseteq visited)
    /\ state \in Verdicts \cup {"CLOSED_BY_HUMAN_DECISION"} <=> visited \cap Verdicts # {}

LEMMA GovernanceInvInit == GovernanceInit => GovernanceInv
  BY DEF GovernanceInit, GovernanceInv, Verdicts

LEMMA GovernanceInvStep == GovernanceInv /\ [GovernanceNext]_governanceVars => GovernanceInv'
<1> SUFFICES ASSUME GovernanceInv, [GovernanceNext]_governanceVars PROVE GovernanceInv'
  OBVIOUS
<1> USE DEF GovernanceInv, Verdicts
<1>1. CASE Charter
  BY <1>1 DEF Charter, Accepts
<1>2. ASSUME NEW target \in ScientificState, Promote(target) PROVE GovernanceInv'
  BY <1>2 DEF Promote, Transitions
<1>3. CASE UNCHANGED <<state, visited>>
  BY <1>3
<1> QED
  BY <1>1, <1>2, <1>3 DEF GovernanceNext, Draft, Seal, Tamper, governanceVars

\* On every path from a charter, whatever happens to the freeze: no shadow and no
\* verdict without a hypothesis and a frozen dataset, at most one verdict, and no
\* human closing without one.
THEOREM VerdictsFollowFreeze == GovernanceSpec => []NoVerdictBeforeFreeze
<1>1. GovernanceInv => NoVerdictBeforeFreeze
  BY DEF GovernanceInv, NoVerdictBeforeFreeze, Verdicts
<1>2. GovernanceSpec => []GovernanceInv
  BY GovernanceInvInit, GovernanceInvStep, PTL DEF GovernanceSpec
<1> QED
  BY <1>1, <1>2, PTL

\* The hash of the freeze is the one its first seal computed, however often it is
\* changed and sealed.
HashOfSeal == freeze.hash = sealed

\* A seal covers everything but the hash itself.
LEMMA UnsignedIgnoresHash == \A f, h : Unsigned(Hashed(f, h)) = Unsigned(f)
  BY DEF Unsigned, Hashed

LEMMA HashOfSealStep == HashOfSeal /\ [GovernanceNext]_governanceVars => HashOfSeal'
<1> SUFFICES ASSUME HashOfSeal, [GovernanceNext]_governanceVars PROVE HashOfSeal'
  OBVIOUS
<1> USE DEF HashOfSeal
<1>1. CASE Draft
  BY <1>1 DEF Draft, Hashed
<1>2. CASE Seal
  <2>1. freeze'.hash = Unsigned(freeze)
    BY <1>2 DEF Seal, Hashed
  <2>2. sealed = NoHash \/ sealed = Unsigned(freeze)
    BY <1>2 DEF Seal, Sealable, Verifies
  <2> QED
    BY <1>2, <2>1, <2>2 DEF Seal
<1>3. CASE Tamper
  BY <1>3 DEF Tamper, Hashed
<1>4. CASE UNCHANGED <<freeze, sealed>>
  BY <1>4
<1> QED
  BY <1>1, <1>2, <1>3, <1>4 DEF GovernanceNext, Charter, Promote, governanceVars

\* For any manifests and times, any tampering and resealing: what verifies is what
\* the first seal covered.
THEOREM SealsBind == GovernanceSpec => []SealBindsContent
<1>1. GovernanceInit => HashOfSeal
  BY DEF GovernanceInit, HashOfSeal, NoFreeze
<1>2. HashOfSeal => SealBindsContent
  BY DEF HashOfSeal, SealBindsContent, Verifies
<1> QED
  BY <1>1, <1>2, HashOfSealStep, PTL DEF GovernanceSpec

-----------------------------------------------------------------------------
(* Attestations of statistical power *)

Place == {"version", "edge", "noise", "open", "write", "rename"}

\* A content of the attestation file that is no unearned attestation.
Earned(content) ==
    \A v \in Revision : content = Attestation(v) => v \in Detects \cap Rejects

\* What a process that has got so far knows of the code, when nobody touched the
\* tree since it started.
Passed(p) ==
    suite[p] # Off =>
        /\ suite[p].code = tree /\ suite[p].version = tree
        /\ suite[p].at \notin {"version", "edge"} => tree \in Detects \cup {Dirty}
        /\ suite[p].at \in {"open", "write", "rename"} => tree \in Rejects \cup {Dirty}

HarnessInv ==
    /\ tree \in Tree
    /\ suite \in [Tester -> {Off} \cup [at : Place, code : Tree, version : Tree]]
    /\ raced \in BOOLEAN
    /\ ~raced => Earned(attested) /\ Earned(draft) /\ \A p \in Tester : Passed(p)

\* A file that is missing or cannot be read attests nothing.
LEMMA NothingEarned == Earned(NoFile) /\ Earned(Unreadable)
<1>1. ASSUME NEW v PROVE Attestation(v) # NoFile /\ Attestation(v) # Unreadable
  <2>1. /\ DOMAIN Attestation(v) = {"version"}
        /\ DOMAIN NoFile = {"exists"} /\ DOMAIN Unreadable = {"parses"}
    BY DEF Attestation, NoFile, Unreadable
  <2>2. "version" # "exists" /\ "version" # "parses"
    OBVIOUS
  <2> QED
    BY <2>1, <2>2
<1> QED
  BY <1>1 DEF Earned

\* Whatever files the descriptors refer to, a write leaves in each file what was
\* there, the new text, or nothing that can be read.
LEMMA WriteMixes ==
    ASSUME NEW p, NEW body, Json!WriteText(p, body)
    PROVE  /\ attested' \in {attested, body, Unreadable}
           /\ draft' \in {draft, body, Unreadable}
  BY DEF Json!WriteText, Json!Overwritten

LEMMA CutOffSpoils ==
    ASSUME NEW p, Json!CutOff(p)
    PROVE  attested' \in {attested, Unreadable} /\ draft' \in {draft, Unreadable}
  BY DEF Json!CutOff

LEMMA HarnessInvInit == HarnessInit => HarnessInv
  BY NothingEarned DEF HarnessInit, HarnessInv, Json!FilesInit, Tree, Passed

\* A process moves on within its suite, or leaves it.
LEMMA SuiteMoves ==
    ASSUME HarnessInv, NEW p \in Tester, suite[p] # Off, UNCHANGED <<tree, raced>>,
           \/ Leave(p)
           \/ \E there \in Place :
                /\ GoOn(p, there)
                /\ there # "version"
                /\ there = "edge" \/ suite[p].at \notin {"version", "edge"}
                   \/ tree \in Detects \cup {Dirty} \/ raced
                /\ there \in {"edge", "noise"} \/ suite[p].at \in {"open", "write", "rename"}
                   \/ tree \in Rejects \cup {Dirty} \/ raced
    PROVE  /\ suite' \in [Tester -> {Off} \cup [at : Place, code : Tree, version : Tree]]
           /\ ~raced' => \A q \in Tester : Passed(q)'
<1>1. suite[p] \in [at : Place, code : Tree, version : Tree]
  BY DEF HarnessInv
<1>2. CASE Leave(p)
  <2>1. suite' = [suite EXCEPT ![p] = Off]
    BY <1>2 DEF Leave
  <2> QED
    BY <2>1 DEF HarnessInv, Passed
<1>3. ASSUME NEW there \in Place, GoOn(p, there), there # "version",
             there = "edge" \/ suite[p].at \notin {"version", "edge"}
               \/ tree \in Detects \cup {Dirty} \/ raced,
             there \in {"edge", "noise"} \/ suite[p].at \in {"open", "write", "rename"}
               \/ tree \in Rejects \cup {Dirty} \/ raced
      PROVE  /\ suite' \in [Tester -> {Off} \cup [at : Place, code : Tree, version : Tree]]
             /\ ~raced' => \A q \in Tester : Passed(q)'
  <2>1. /\ suite' = [suite EXCEPT ![p] = [suite[p] EXCEPT !.at = there]]
        /\ [suite[p] EXCEPT !.at = there] \in [at : Place, code : Tree, version : Tree]
    BY <1>1, <1>3 DEF GoOn
  <2>2. suite' \in [Tester -> {Off} \cup [at : Place, code : Tree, version : Tree]]
    BY <2>1 DEF HarnessInv
  <2>3. /\ suite'[p].at = there
        /\ suite'[p].code = suite[p].code /\ suite'[p].version = suite[p].version
        /\ \A q \in Tester \ {p} : suite'[q] = suite[q]
    BY <1>1, <2>1 DEF HarnessInv
  <2>4. ASSUME ~raced', NEW q \in Tester PROVE Passed(q)'
    <3>1. Passed(q) /\ Passed(p)
      BY <2>4 DEF HarnessInv
    <3>2. CASE q = p
      BY <1>3, <2>3, <2>4, <3>1, <3>2 DEF Passed, Place
    <3>3. CASE q # p
      BY <2>3, <3>1, <3>3 DEF Passed
    <3> QED
      BY <3>2, <3>3
  <2> QED
    BY <2>2, <2>4
<1> QED
  BY <1>2, <1>3

\* A control that passes says so of the code that was imported.
LEMMA ControlTells ==
    ASSUME HarnessInv, NEW p \in Tester, NEW here \in Place, NEW there, NEW good,
           Control(p, here, there, good)
    PROVE  /\ suite[p] # Off /\ suite[p].at = here
           /\ NoWrite
           /\ Leave(p) \/ (GoOn(p, there) /\ (raced \/ tree \in good \cup {Dirty}))
<1>1. suite[p] # Off
  BY DEF Control, Running, Off, Place
<1>2. ~raced => suite[p].code = tree
  BY <1>1 DEF HarnessInv, Passed
<1> QED
  BY <1>1, <1>2 DEF Control, Running, HarnessInv

LEMMA HarnessInvStep == HarnessInv /\ [HarnessNext]_harnessVars => HarnessInv'
<1> SUFFICES ASSUME HarnessInv, [HarnessNext]_harnessVars PROVE HarnessInv'
  OBVIOUS
<1>1. ASSUME NEW p \in Tester, Import(p) PROVE HarnessInv'
  <2>1. /\ suite' = [suite EXCEPT ![p] = [at |-> "version", code |-> tree, version |-> tree]]
        /\ UNCHANGED <<tree, attested, draft, raced>>
    BY <1>1 DEF Import, NoWrite
  <2>2. suite' \in [Tester -> {Off} \cup [at : Place, code : Tree, version : Tree]]
    BY <2>1 DEF HarnessInv, Place
  <2>3. ASSUME ~raced', NEW q \in Tester PROVE Passed(q)'
    BY <2>1, <2>3 DEF HarnessInv, Passed
  <2>4. ~raced' => Earned(attested') /\ Earned(draft')
    BY <2>1 DEF HarnessInv
  <2> QED
    BY <2>1, <2>2, <2>3, <2>4 DEF HarnessInv, Earned
<1>2. ASSUME NEW p \in Tester, ReadVersion(p) PROVE HarnessInv'
  <2>1. suite[p].at = "version" /\ suite[p] # Off /\ UNCHANGED <<tree, attested, draft, raced>>
    BY <1>2 DEF ReadVersion, Running, NoWrite, Off
  <2>2. suite[p] \in [at : Place, code : Tree, version : Tree]
    BY <2>1 DEF HarnessInv
  <2>3. CASE Leave(p)
    BY <2>1, <2>3, SuiteMoves DEF HarnessInv, Earned
  <2>4. CASE suite' = [suite EXCEPT ![p].version = tree, ![p].at = "edge"]
    <3>1. /\ suite'[p].at = "edge" /\ suite'[p].version = tree
          /\ suite'[p].code = suite[p].code
          /\ suite'[p] \in [at : Place, code : Tree, version : Tree]
          /\ \A q \in Tester \ {p} : suite'[q] = suite[q]
      BY <2>2, <2>4 DEF HarnessInv, Place
    <3>2. suite' \in [Tester -> {Off} \cup [at : Place, code : Tree, version : Tree]]
      BY <2>2, <2>4, <3>1 DEF HarnessInv
    <3>3. ASSUME ~raced', NEW q \in Tester PROVE Passed(q)'
      <4>1. Passed(q) /\ Passed(p)
        BY <2>1, <3>3 DEF HarnessInv
      <4>2. CASE q = p
        BY <2>1, <3>1, <4>1, <4>2 DEF Passed
      <4>3. CASE q # p
        BY <2>1, <3>1, <4>1, <4>3 DEF Passed
      <4> QED
        BY <4>2, <4>3
    <3> QED
      BY <2>1, <3>2, <3>3 DEF HarnessInv, Earned
  <2> QED
    BY <1>2, <2>3, <2>4 DEF ReadVersion
<1>3. ASSUME NEW p \in Tester, EdgeControl(p) PROVE HarnessInv'
  <2>1. /\ suite[p] # Off /\ NoWrite
        /\ Leave(p) \/ (GoOn(p, "noise") /\ (raced \/ tree \in Detects \cup {Dirty}))
    BY <1>3, ControlTells DEF EdgeControl, Place
  <2> QED
    BY <2>1, SuiteMoves DEF HarnessInv, Earned, NoWrite, Place
<1>4. ASSUME NEW p \in Tester, NoiseControl(p) PROVE HarnessInv'
  <2>1. /\ suite[p] # Off /\ suite[p].at = "noise" /\ NoWrite
        /\ Leave(p) \/ (GoOn(p, "open") /\ (raced \/ tree \in Rejects \cup {Dirty}))
    BY <1>4, ControlTells DEF NoiseControl, Place
  <2> QED
    BY <2>1, SuiteMoves DEF HarnessInv, Earned, NoWrite, Place
<1>5. ASSUME NEW p \in Tester, OpenDraft(p) PROVE HarnessInv'
  <2>1. /\ suite[p].at = "open" /\ suite[p] # Off /\ GoOn(p, "write")
        /\ UNCHANGED <<tree, raced, attested>> /\ draft' = Unreadable
    BY <1>5 DEF OpenDraft, Running, Off, Json!TruncateTmp
  <2> QED
    BY <2>1, SuiteMoves, NothingEarned DEF HarnessInv, Earned, Place
<1>6. ASSUME NEW p \in Tester, WriteDraft(p) PROVE HarnessInv'
  <2>1. /\ suite[p].at = "write" /\ suite[p] # Off /\ GoOn(p, "rename")
        /\ UNCHANGED <<tree, raced>>
        /\ Json!WriteText(p, Attestation(suite[p].version))
    BY <1>6 DEF WriteDraft, Running, Off
  <2>2. ~raced => Earned(Attestation(suite[p].version))
    <3> SUFFICES ASSUME ~raced, NEW v \in Revision, Attestation(suite[p].version) = Attestation(v)
                 PROVE  v \in Detects \cap Rejects
      BY DEF Earned
    <3>1. suite[p].version = v
      BY DEF Attestation
    <3> QED
      BY <2>1, <3>1, HarnessAssumption DEF HarnessInv, Passed
  <2>3. ~raced' => Earned(attested') /\ Earned(draft')
    BY <2>1, <2>2, WriteMixes, NothingEarned DEF HarnessInv
  <2> QED
    BY <2>1, <2>3, SuiteMoves DEF HarnessInv, Earned, Place
<1>7. ASSUME NEW p \in Tester, RenameDraft(p) PROVE HarnessInv'
  <2>1. /\ suite[p] # Off /\ Leave(p)
        /\ UNCHANGED <<tree, raced>> /\ attested' = draft /\ draft' = NoFile
    BY <1>7 DEF RenameDraft, Running, Off, Json!RenameTmp
  <2> QED
    BY <2>1, SuiteMoves, NothingEarned DEF HarnessInv, Earned
<1>8. ASSUME NEW p \in Tester, Dies(p) PROVE HarnessInv'
  <2>1. suite[p] # Off /\ Leave(p) /\ UNCHANGED <<tree, raced>> /\ Json!CutOff(p)
    BY <1>8 DEF Dies
  <2>2. ~raced' => Earned(attested') /\ Earned(draft')
    BY <2>1, CutOffSpoils, NothingEarned DEF HarnessInv
  <2> QED
    BY <2>1, <2>2, SuiteMoves DEF HarnessInv, Earned
<1>9. CASE Edit
  <2>1. /\ tree' \in Tree
        /\ raced' = (raced \/ \E p \in Tester : suite[p] # Off)
        /\ UNCHANGED <<attested, draft, suite>>
    BY <1>9 DEF Edit
  <2>2. raced' \in BOOLEAN /\ (~raced' => ~raced /\ \A p \in Tester : suite[p] = Off)
    BY <2>1 DEF HarnessInv
  <2> QED
    BY <2>1, <2>2 DEF HarnessInv, Earned, Passed
<1>10. CASE UNCHANGED harnessVars
  BY <1>10 DEF HarnessInv, harnessVars, Earned, Passed
<1> QED
  BY <1>1, <1>2, <1>3, <1>4, <1>5, <1>6, <1>7, <1>8, <1>9, <1>10 DEF HarnessNext

\* For any number of processes that overlap and die anywhere, and any revisions: an
\* attestation that can be read was earned by the version it names, if the tree
\* was left alone while a suite ran.
THEOREM AttestationsEarned == HarnessSpec => []AttestationSound
<1>1. HarnessInv => AttestationSound
  BY DEF HarnessInv, AttestationSound, Earned
<1>2. HarnessSpec => []HarnessInv
  BY HarnessInvInit, HarnessInvStep, PTL DEF HarnessSpec
<1> QED
  BY <1>1, <1>2, PTL
===============================================================================
