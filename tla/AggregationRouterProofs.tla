------------------------ MODULE AggregationRouterProofs ------------------------
(***************************************************************************)
(* For any number of calls, providers and children: the breakers that all  *)
(* calls share stay consistent, and where no provider is waited for as     *)
(* long as a circuit stays open, a half-open circuit has at most one       *)
(* request out.  The children that a failed call leaves behind, cancelled  *)
(* calls and unwritable telemetry are included.                            *)
(***************************************************************************)
EXTENDS AggregationRouter, TLAPS

\* A state that a breaker can be in.
Sound(s) == s \in Breaker /\ Consistent(s)

\* With p's breaker in s, the children in ch and their waiting times in w: only
\* the one request that a half-open circuit has let through is out, and the
\* requests that are out to an open one are older than its opening.
AloneAt(s, p, ch, w) ==
    /\ s.state = "half_open" =>
         \A c, d \in Task : ch[c][p] = "asking" /\ ch[d][p] = "asking" => s.probe /\ c = d
    /\ s.state = "open" =>
         \A c \in Task : ch[c][p] = "asking" => w[c][p] >= s.age

ChildrenTypes ==
    /\ brk \in [Guarded -> Breaker]
    /\ child \in [Task -> [Provider -> Running \cup Ended]]
    /\ waiting \in [Task -> [Provider -> 0 .. Latency]]

ChildrenInv ==
    /\ ChildrenTypes
    /\ \A p \in Guarded : Sound(brk[p]) /\ AloneAt(brk[p], p, child, waiting)

-----------------------------------------------------------------------------
LEMMA BreakerKeepsSound ==
    ASSUME NEW s, Sound(s)
    PROVE  /\ Sound(Attempted(s))
           /\ s.state = "open" => Sound(AttemptRaised(s))
           /\ Sound(Succeeded(s))
           /\ Sound(Failed(s))
           /\ Sound(Aged(s))
<1> USE BreakerAssumption DEF Breaker, Consistent, Sound
<1>1. Sound(Attempted(s))
  BY DEF Attempted
<1>2. s.state = "open" => Sound(AttemptRaised(s))
  BY DEF AttemptRaised
<1>3. Sound(Succeeded(s))
  BY DEF Succeeded, NewBreaker
<1>4. Sound(Failed(s))
  <2> DEFINE n == IF s.failures < Threshold THEN s.failures + 1 ELSE Threshold
  <2>1. CASE s.state = "half_open" \/ n >= Threshold
    <3>1. n = Threshold
      BY <2>1
    <3> QED
      BY <2>1, <3>1 DEF Failed
  <2>2. CASE ~(s.state = "half_open" \/ n >= Threshold)
    BY <2>2 DEF Failed
  <2> QED
    BY <2>1, <2>2
<1>5. Sound(Aged(s))
  BY DEF Aged
<1> QED
  BY <1>1, <1>2, <1>3, <1>4, <1>5

\* A failure leaves no circuit half-open, and none that has been open for a while.
LEMMA FailedIsNew ==
    ASSUME NEW s, Sound(s)
    PROVE  Failed(s).state = "closed" \/ (Failed(s).state = "open" /\ Failed(s).age = 0)
<1> DEFINE n == IF s.failures < Threshold THEN s.failures + 1 ELSE Threshold
<1>1. CASE s.state = "half_open" \/ n >= Threshold
  BY <1>1 DEF Failed
<1>2. CASE ~(s.state = "half_open" \/ n >= Threshold)
  <2>1. s.state = "closed"
    BY <1>2, BreakerAssumption DEF Sound, Consistent, Breaker
  <2> QED
    BY <1>2, <2>1 DEF Failed
<1> QED
  BY <1>1, <1>2

\* Nobody waits for a provider whose circuit is not closed and admits a request.
LEMMA NobodyAsks ==
    ASSUME Latency < ResetTimeout, ChildrenInv, NEW p \in Guarded,
           Admits(brk[p]), brk[p].state # "closed"
    PROVE  \A c \in Task : child[c][p] # "asking"
<1>1. brk[p] \in Breaker /\ AloneAt(brk[p], p, child, waiting) /\ p \in Provider
  BY RouterAssumption DEF ChildrenInv, Sound
<1>2. CASE brk[p].state = "open"
  <2>1. brk[p].age >= ResetTimeout
    BY <1>2 DEF Admits
  <2>2. \A c \in Task : waiting[c][p] \in 0 .. Latency
    BY <1>1 DEF ChildrenInv, ChildrenTypes
  <2> QED
    BY <1>1, <1>2, <2>1, <2>2, BreakerAssumption, RouterAssumption DEF AloneAt, Breaker
<1>3. CASE brk[p].state = "half_open"
  BY <1>1, <1>3 DEF AloneAt, Admits
<1> QED
  BY <1>1, <1>2, <1>3 DEF Breaker

\* The child of c for p goes to x and its breaker, if there is one, to t: it is
\* enough to look at that provider.
LEMMA ChildStep ==
    ASSUME ChildrenInv, NEW c \in Task, NEW p \in Provider, NEW x \in Running \cup Ended,
           NEW t, Becomes(c, p, x), brk' = Booked(brk, p, t),
           p \in Guarded => Sound(t) /\ AloneAt(t, p, child', waiting')
    PROVE  ChildrenInv'
<1> USE RouterAssumption
<1>1. ChildrenTypes'
  <2>1. brk' \in [Guarded -> Breaker]
    BY DEF ChildrenInv, ChildrenTypes, Booked, Sound
  <2>2. child' \in [Task -> [Provider -> Running \cup Ended]]
    BY DEF ChildrenInv, ChildrenTypes, Becomes
  <2>3. waiting' \in [Task -> [Provider -> 0 .. Latency]]
    BY DEF ChildrenInv, ChildrenTypes, Becomes
  <2> QED
    BY <2>1, <2>2, <2>3 DEF ChildrenTypes
<1>2. ASSUME NEW q \in Guarded PROVE Sound(brk'[q]) /\ AloneAt(brk'[q], q, child', waiting')
  <2>1. CASE q = p
    BY <2>1 DEF Booked, ChildrenInv, ChildrenTypes, AloneAt
  <2>2. CASE q # p
    <3>1. brk'[q] = brk[q]
      BY <2>2 DEF Booked, ChildrenInv, ChildrenTypes
    <3>2. \A d \in Task : child'[d][q] = child[d][q] /\ waiting'[d][q] = waiting[d][q]
      BY <2>2 DEF Becomes, ChildrenInv, ChildrenTypes
    <3> QED
      BY <3>1, <3>2 DEF ChildrenInv, AloneAt
  <2> QED
    BY <2>1, <2>2
<1> QED
  BY <1>1, <1>2 DEF ChildrenInv, Sound, Breaker, Consistent

\* The `except` clause, wherever it is reached.
LEMMA FailureStep ==
    ASSUME ChildrenInv, NEW c \in Task, NEW p \in Provider,
           NEW b, p \in Guarded => Sound(b[p]), b = brk \/ b = Booked(brk, p, NewBreaker),
           Failure(c, p, b)
    PROVE  ChildrenInv'
<1>1. PICK x \in {"nothing", "raised"} : Becomes(c, p, x)
  BY DEF Failure
<1>2. brk' = Booked(brk, p, Failed(b[p]))
  BY DEF Failure, Booked, ChildrenInv, ChildrenTypes
<1>3. ASSUME p \in Guarded PROVE Sound(Failed(b[p])) /\ AloneAt(Failed(b[p]), p, child', waiting')
  <2>1. Sound(Failed(b[p]))
    BY <1>3, BreakerKeepsSound
  <2>2. \A d \in Task : waiting'[d][p] \in 0 .. Latency
    BY <1>1, RouterAssumption DEF Becomes, ChildrenInv, ChildrenTypes
  <2>3. Failed(b[p]).state = "closed" \/ (Failed(b[p]).state = "open" /\ Failed(b[p]).age = 0)
    BY <1>3, FailedIsNew
  <2>4. AloneAt(Failed(b[p]), p, child', waiting')
    BY <2>2, <2>3, RouterAssumption DEF AloneAt
  <2> QED
    BY <2>1, <2>4
<1> QED
  BY <1>1, <1>2, <1>3, ChildStep DEF Running, Ended

-----------------------------------------------------------------------------
LEMMA BeginKeeps ==
    ASSUME Latency < ResetTimeout, ChildrenInv, NEW c \in Task, NEW p \in Provider, Begin(c, p)
    PROVE  ChildrenInv'
<1>1. /\ child[c][p] = "ready"
      /\ \/ Open(brk, p) /\ Becomes(c, p, "asking") /\ brk' = Booked(brk, p, Attempted(brk[p]))
         \/ (Becomes(c, p, "nothing") \/ Becomes(c, p, "raised")) /\ UNCHANGED brk
         \/ /\ p \in Guarded
            /\ Open(brk, p) /\ brk[p].state = "open"
            /\ brk' = Booked(brk, p, AttemptRaised(brk[p]))
            /\ Becomes(c, p, "raised")
  BY DEF Begin
<1>2. ASSUME Open(brk, p), Becomes(c, p, "asking"), brk' = Booked(brk, p, Attempted(brk[p]))
      PROVE  ChildrenInv'
  <2>1. ASSUME p \in Guarded
        PROVE  Sound(Attempted(brk[p])) /\ AloneAt(Attempted(brk[p]), p, child', waiting')
    <3>1. Sound(brk[p]) /\ Admits(brk[p])
      BY <1>2, <2>1 DEF ChildrenInv, Open
    <3>2. Sound(Attempted(brk[p]))
      BY <3>1, BreakerKeepsSound
    <3>3. CASE brk[p].state = "closed"
      <4>1. Attempted(brk[p]) = brk[p]
        BY <3>3 DEF Attempted
      <4>2. Attempted(brk[p]).state = "closed"
        BY <3>3, <4>1
      <4> QED
        BY <3>2, <4>2 DEF AloneAt
    <3>4. CASE brk[p].state # "closed"
      <4>1. \A d \in Task : child[d][p] # "asking"
        BY <2>1, <3>1, <3>4, NobodyAsks
      <4>2. \A d \in Task \ {c} : child'[d][p] # "asking"
        BY <1>2, <4>1 DEF Becomes, ChildrenInv, ChildrenTypes
      <4>3. Attempted(brk[p]).state = "half_open" /\ Attempted(brk[p]).probe
        BY <3>4 DEF Attempted
      <4> QED
        BY <3>2, <4>2, <4>3 DEF AloneAt
    <3> QED
      BY <3>2, <3>3, <3>4
  <2> QED
    BY <1>2, <2>1, ChildStep DEF Running
<1>3. ASSUME NEW x \in {"nothing", "raised"}, Becomes(c, p, x), UNCHANGED brk
      PROVE  ChildrenInv'
  <2>1. p \in Guarded => Sound(brk[p]) /\ AloneAt(brk[p], p, child, waiting)
    BY DEF ChildrenInv
  <2>2. \A d \in Task : child'[d][p] = "asking" =>
                            child[d][p] = "asking" /\ waiting'[d][p] = waiting[d][p]
    BY <1>3 DEF Becomes, ChildrenInv, ChildrenTypes
  <2>3. p \in Guarded => AloneAt(brk[p], p, child', waiting')
    BY <2>1, <2>2 DEF AloneAt
  <2>4. brk' = Booked(brk, p, brk[p])
    BY <1>3 DEF Booked, ChildrenInv, ChildrenTypes
  <2> QED
    BY <1>3, <2>1, <2>3, <2>4, ChildStep DEF Ended
<1>4. ASSUME p \in Guarded, Open(brk, p), brk[p].state = "open",
             brk' = Booked(brk, p, AttemptRaised(brk[p])), Becomes(c, p, "raised")
      PROVE  ChildrenInv'
  <2>1. Sound(AttemptRaised(brk[p]))
    BY <1>4, BreakerKeepsSound DEF ChildrenInv
  <2>2. \A d \in Task : child[d][p] # "asking"
    BY <1>4, NobodyAsks DEF Open
  <2>3. \A d \in Task : child'[d][p] # "asking"
    BY <1>4, <2>2 DEF Becomes, ChildrenInv, ChildrenTypes
  <2>4. AloneAt(AttemptRaised(brk[p]), p, child', waiting')
    BY <2>3 DEF AloneAt
  <2> QED
    BY <1>4, <2>1, <2>4, ChildStep DEF Ended
<1> QED
  BY <1>1, <1>2, <1>3, <1>4

LEMMA DeliversKeeps ==
    ASSUME ChildrenInv, NEW c \in Task, NEW p \in Provider, Delivers(c, p)
    PROVE  ChildrenInv'
<1>1. PICK x \in {"points", "empty"} : Becomes(c, p, x)
  BY DEF Delivers
<1>2. p \in Guarded => Sound(Succeeded(brk[p]))
  BY BreakerKeepsSound DEF ChildrenInv
<1>3. AloneAt(Succeeded(brk[p]), p, child', waiting')
  BY DEF AloneAt, Succeeded, NewBreaker
<1>4. brk' = Booked(brk, p, Succeeded(brk[p]))
  BY DEF Delivers
<1> QED
  BY <1>1, <1>2, <1>3, <1>4, ChildStep DEF Ended

LEMMA FailsKeeps ==
    ASSUME ChildrenInv, NEW c \in Task, NEW p \in Provider, Fails(c, p)
    PROVE  ChildrenInv'
<1>1. CASE Failure(c, p, brk)
  BY <1>1, FailureStep DEF ChildrenInv
<1>2. CASE p \in Guarded /\ Failure(c, p, Booked(brk, p, Succeeded(brk[p])))
  <2> DEFINE b == Booked(brk, p, NewBreaker)
  <2>1. b[p] = NewBreaker
    BY <1>2 DEF Booked, ChildrenInv, ChildrenTypes
  <2>2. Sound(b[p])
    BY <1>2, <2>1, BreakerKeepsSound DEF ChildrenInv, Succeeded
  <2> QED
    BY <1>2, <2>2, FailureStep DEF Succeeded
<1> QED
  BY <1>1, <1>2 DEF Fails

\* Where the breakers stay and nobody begins to ask, nobody else becomes a probe.
LEMMA QuietKeeps ==
    ASSUME ChildrenInv, UNCHANGED brk, ChildrenTypes',
           \A c \in Task, p \in Provider : child'[c][p] = "asking" =>
               child[c][p] = "asking" /\ waiting'[c][p] = waiting[c][p]
    PROVE  ChildrenInv'
<1>1. ASSUME NEW p \in Guarded PROVE AloneAt(brk'[p], p, child', waiting')
  <2>1. p \in Provider /\ AloneAt(brk[p], p, child, waiting)
    BY RouterAssumption DEF ChildrenInv
  <2> QED
    BY <2>1 DEF AloneAt
<1> QED
  BY <1>1 DEF ChildrenInv, Sound, Breaker, Consistent

LEMMA TickKeeps ==
    ASSUME ChildrenInv, Tick
    PROVE  ChildrenInv'
<1> USE RouterAssumption, BreakerAssumption
<1>1. \A c \in Task, p \in Provider :
        /\ child'[c][p] = child[c][p]
        /\ waiting[c][p] \in 0 .. Latency
        /\ child[c][p] = "asking" =>
             waiting[c][p] < Latency /\ waiting'[c][p] = waiting[c][p] + 1
        /\ waiting'[c][p] \in 0 .. Latency
  BY DEF Tick, ChildrenInv, ChildrenTypes
<1>2. ASSUME NEW p \in Guarded
      PROVE  brk'[p] = Aged(brk[p]) /\ Sound(brk'[p]) /\ AloneAt(brk'[p], p, child', waiting')
  <2>1. brk'[p] = Aged(brk[p]) /\ p \in Provider
    BY DEF Tick
  <2>2. Sound(brk[p]) /\ AloneAt(brk[p], p, child, waiting) /\ Sound(Aged(brk[p]))
    BY BreakerKeepsSound DEF ChildrenInv
  <2>3. /\ brk'[p].state = brk[p].state /\ brk'[p].probe = brk[p].probe
        /\ brk[p].age \in Nat /\ brk'[p].age \in {brk[p].age, brk[p].age + 1}
    BY <2>1, <2>2 DEF Aged, Sound, Breaker
  <2>4. AloneAt(brk'[p], p, child', waiting')
    BY <1>1, <2>1, <2>2, <2>3 DEF AloneAt
  <2> QED
    BY <2>1, <2>2, <2>4
<1>3. ChildrenTypes'
  <2>1. brk' \in [Guarded -> Breaker]
    BY <1>2 DEF Tick, Sound
  <2>2. waiting' \in [Task -> [Provider -> 0 .. Latency]]
    BY <1>1 DEF Tick
  <2> QED
    BY <2>1, <2>2 DEF ChildrenTypes, ChildrenInv, Tick
<1> QED
  BY <1>2, <1>3 DEF ChildrenInv, Sound, Breaker, Consistent

\* The condition on time: every provider answers or fails before a circuit that
\* was open when it was asked can admit a probe.
THEOREM ChildrenProbeOnce ==
    ASSUME Latency < ResetTimeout PROVE AggSpec => []OneProbeAmongChildren
<1>1. AggInit => ChildrenInv
  <2> SUFFICES ASSUME AggInit PROVE ChildrenInv
    OBVIOUS
  <2>1. NewBreaker \in Breaker /\ Consistent(NewBreaker) /\ NewBreaker.state = "closed"
    BY BreakerAssumption DEF NewBreaker, Breaker, Consistent
  <2>2. ChildrenTypes
    BY <2>1, RouterAssumption DEF AggInit, ChildrenTypes, Ended
  <2> QED
    BY <2>1, <2>2 DEF AggInit, ChildrenInv, Sound, AloneAt
<1>2. ChildrenInv /\ [AggNext]_aggVars => ChildrenInv'
  <2> SUFFICES ASSUME ChildrenInv, [AggNext]_aggVars PROVE ChildrenInv'
    OBVIOUS
  <2>1. ASSUME NEW c \in Task, Gather(c) PROVE ChildrenInv'
    BY <2>1, QuietKeeps DEF Gather, ChildrenInv, ChildrenTypes, Running
  <2>2. ASSUME NEW c \in Task, Returns(c) PROVE ChildrenInv'
    BY <2>2, QuietKeeps DEF Returns, Raises, Finishes, Ends, ChildrenInv, ChildrenTypes
  <2>3. ASSUME NEW c \in Task, Cancelled(c) PROVE ChildrenInv'
    <3>1. \A d \in Task, p \in Provider :
            /\ child[d][p] \in Running \cup Ended
            /\ waiting[d][p] \in 0 .. Latency
            /\ \/ child'[d][p] = child[d][p] /\ waiting'[d][p] = waiting[d][p]
               \/ child'[d][p] = "cancelled" /\ waiting'[d][p] = 0
      BY <2>3 DEF Cancelled, ChildrenInv, ChildrenTypes
    <3>2. child' \in [Task -> [Provider -> Running \cup Ended]]
      BY <2>3, <3>1 DEF Cancelled, ChildrenInv, ChildrenTypes, Ended
    <3>3. waiting' \in [Task -> [Provider -> 0 .. Latency]]
      BY <2>3, <3>1, RouterAssumption DEF Cancelled, ChildrenInv, ChildrenTypes
    <3>4. UNCHANGED brk
      BY <2>3 DEF Cancelled
    <3> QED
      BY <3>1, <3>2, <3>3, <3>4, QuietKeeps DEF ChildrenInv, ChildrenTypes
  <2>4. ASSUME NEW c \in Task, NEW p \in Provider, Runs(c, p) PROVE ChildrenInv'
    BY <2>4, BeginKeeps, DeliversKeeps, FailsKeeps DEF Runs
  <2>5. CASE Tick
    BY <2>5, TickKeeps
  <2>6. CASE UNCHANGED aggVars
    BY <2>6, QuietKeeps DEF aggVars, ChildrenInv, ChildrenTypes
  <2> QED
    BY <2>1, <2>2, <2>3, <2>4, <2>5, <2>6 DEF AggNext
<1>3. ChildrenInv => OneProbeAmongChildren
  BY DEF ChildrenInv, Sound, AloneAt, OneProbeAmongChildren
<1> QED
  BY <1>1, <1>2, <1>3, PTL DEF AggSpec
=============================================================================
