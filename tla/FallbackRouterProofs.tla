------------------------- MODULE FallbackRouterProofs -------------------------
(***************************************************************************)
(* For any number of callers, providers and breakers: the breakers stay    *)
(* consistent, and where no provider is waited for as long as a circuit    *)
(* stays open, a half-open circuit has at most one request out.  Late      *)
(* answers, cancelled calls and unwritable telemetry are included.         *)
(***************************************************************************)
EXTENDS FallbackRouter, TLAPS

\* A state of the breakers that each stretch of code starts from and keeps.
Breakers(b) == b \in [Guarded -> Breaker] /\ \A p \in Guarded : Consistent(b[p])

LEMMA BreakerSteps ==
    ASSUME NEW s \in Breaker, Consistent(s)
    PROVE  /\ Attempted(s) \in Breaker /\ Consistent(Attempted(s))
           /\ AttemptRaised(s) \in Breaker
           /\ (s.state = "open" => Consistent(AttemptRaised(s)))
           /\ Succeeded(s) \in Breaker /\ Consistent(Succeeded(s))
           /\ Failed(s) \in Breaker /\ Consistent(Failed(s))
           /\ Aged(s) \in Breaker /\ Consistent(Aged(s))
<1> USE BreakerAssumption DEF Breaker, Consistent
<1>1. Attempted(s) \in Breaker /\ Consistent(Attempted(s))
  <2>1. CASE s.state = "closed"
    BY <2>1 DEF Attempted
  <2>2. CASE s.state # "closed"
    BY <2>2 DEF Attempted
  <2> QED
    BY <2>1, <2>2
<1>2. AttemptRaised(s) \in Breaker /\ (s.state = "open" => Consistent(AttemptRaised(s)))
  BY DEF AttemptRaised
<1>3. Succeeded(s) \in Breaker /\ Consistent(Succeeded(s))
  BY DEF Succeeded, NewBreaker
<1>4. Failed(s) \in Breaker /\ Consistent(Failed(s))
  <2> DEFINE n == IF s.failures < Threshold THEN s.failures + 1 ELSE Threshold
  <2>1. n \in 0 .. Threshold
    OBVIOUS
  <2>2. CASE s.state = "half_open" \/ n >= Threshold
    <3>1. n = Threshold
      BY <2>2
    <3> QED
      BY <2>1, <2>2, <3>1 DEF Failed
  <2>3. CASE ~(s.state = "half_open" \/ n >= Threshold)
    BY <2>1, <2>3 DEF Failed
  <2> QED
    BY <2>2, <2>3
<1>5. Aged(s) \in Breaker /\ Consistent(Aged(s))
  BY DEF Aged
<1> QED
  BY <1>1, <1>2, <1>3, <1>4, <1>5

LEMMA BookedKeeps ==
    ASSUME NEW b, Breakers(b), NEW p \in Provider
    PROVE  /\ Breakers(Booked(b, p, Succeeded(b[p])))
           /\ Breakers(Booked(b, p, Failed(b[p])))
           /\ Open(b, p) => Breakers(Booked(b, p, Attempted(b[p])))
           /\ p \in Guarded /\ b[p].state = "open" => Breakers(Booked(b, p, AttemptRaised(b[p])))
<1>1. CASE p \in Guarded
  <2>1. b[p] \in Breaker /\ Consistent(b[p])
    BY <1>1 DEF Breakers
  <2> QED
    BY <1>1, <2>1, BreakerSteps DEF Breakers, Booked, Open
<1>2. CASE p \notin Guarded
  BY <1>2 DEF Booked
<1> QED
  BY <1>1, <1>2

LEMMA AdvanceKeeps ==
    ASSUME NEW c, NEW b, Breakers(b), NEW i \in 0 .. N, NEW gone,
           Advance(c, i, b, gone) \/ AdvanceRaises(c, i, b, gone)
    PROVE  Breakers(brk')
<1> USE RouterAssumption
<1>1. CASE \E p \in Candidates(b, i) : brk' = Booked(b, p, Attempted(b[p]))
  BY <1>1, BookedKeeps DEF Candidates, Provider
<1>2. CASE brk' = b
  BY <1>2
<1>3. CASE \E p \in Guarded \cap Candidates(b, i) :
             b[p].state = "open" /\ brk' = Booked(b, p, AttemptRaised(b[p]))
  BY <1>3, BookedKeeps DEF Candidates, Provider
<1> QED
  BY <1>1, <1>2, <1>3 DEF Advance, AdvanceRaises

BreakerInv == Breakers(brk) /\ asking \in [Task -> 0 .. N]

\* The loop stops at one of the providers, or ends.
LEMMA AskingKeeps ==
    ASSUME NEW c \in Task, NEW b, NEW i \in 0 .. N, NEW gone, asking \in [Task -> 0 .. N],
           Advance(c, i, b, gone) \/ AdvanceRaises(c, i, b, gone)
    PROVE  asking' \in [Task -> 0 .. N]
<1>1. \/ \E p \in Candidates(b, i) : asking' = [asking EXCEPT ![c] = p]
      \/ asking' = [asking EXCEPT ![c] = 0]
  BY DEF Advance, AdvanceRaises, Ask, End
<1>2. Candidates(b, i) \subseteq 0 .. N /\ 0 \in 0 .. N
  BY RouterAssumption DEF Candidates
<1> QED
  BY <1>1, <1>2

LEMMA FailureKeeps ==
    ASSUME BreakerInv, NEW c \in Task, asking[c] # 0, NEW b, Breakers(b), Failure(c, b)
    PROVE  BreakerInv'
<1> DEFINE p == asking[c]
           b1 == Booked(b, p, Failed(b[p]))
<1>1. p \in Provider /\ p \in 0 .. N
  BY RouterAssumption DEF BreakerInv, Provider
<1>2. Breakers(b1)
  BY <1>1, BookedKeeps
<1>3. \/ \E gone : Advance(c, p, b1, gone) \/ AdvanceRaises(c, p, b1, gone)
      \/ brk' = b1 /\ End(c, "aborted")
  BY DEF Failure
<1> HIDE DEF b1, p
<1>4. CASE \E gone : Advance(c, p, b1, gone) \/ AdvanceRaises(c, p, b1, gone)
  <2>1. PICK gone : Advance(c, p, b1, gone) \/ AdvanceRaises(c, p, b1, gone)
    BY <1>4
  <2>2. Breakers(brk')
    BY <1>1, <1>2, <2>1, AdvanceKeeps
  <2>3. asking' \in [Task -> 0 .. N]
    BY <1>1, <2>1, AskingKeeps DEF BreakerInv
  <2> QED
    BY <2>2, <2>3 DEF BreakerInv, Breakers
<1>5. CASE brk' = b1 /\ End(c, "aborted")
  BY <1>2, <1>5, RouterAssumption DEF BreakerInv, Breakers, End
<1> QED
  BY <1>3, <1>4, <1>5

LEMMA RouterKeepsBreakerInv == Spec => []BreakerInv
<1>1. Init => BreakerInv
  BY BreakerAssumption, RouterAssumption DEF Init, BreakerInv, Breakers, NewBreaker, Breaker,
     Consistent
<1>2. BreakerInv /\ [Next]_vars => BreakerInv'
  <2> SUFFICES ASSUME BreakerInv, [Next]_vars PROVE BreakerInv'
    OBVIOUS
  <2>1. ASSUME NEW c \in Task, Fetch(c) PROVE BreakerInv'
    <3>1. Breakers(brk')
      BY <2>1, AdvanceKeeps, RouterAssumption DEF Fetch, BreakerInv
    <3>2. asking' \in [Task -> 0 .. N]
      BY <2>1, AskingKeeps, RouterAssumption DEF Fetch, BreakerInv
    <3> QED
      BY <3>1, <3>2 DEF BreakerInv, Breakers
  <2>2. ASSUME NEW c \in Task, Delivers(c) PROVE BreakerInv'
    <3>1. asking[c] \in Provider
      BY <2>2, RouterAssumption DEF Delivers, BreakerInv, Provider
    <3> QED
      BY <2>2, <3>1, BookedKeeps, RouterAssumption DEF Delivers, End, BreakerInv, Breakers
  <2>3. ASSUME NEW c \in Task, Fails(c) PROVE BreakerInv'
    BY <2>3, FailureKeeps DEF Fails, BreakerInv
  <2>4. ASSUME NEW c \in Task, DeliversUnrecorded(c) PROVE BreakerInv'
    <3>1. asking[c] \in Provider
      BY <2>4, RouterAssumption DEF DeliversUnrecorded, BreakerInv, Provider
    <3>2. Breakers(Booked(brk, asking[c], Succeeded(brk[asking[c]])))
      BY <3>1, BookedKeeps DEF BreakerInv
    <3> QED
      BY <2>4, <3>2, FailureKeeps DEF DeliversUnrecorded
  <2>5. ASSUME NEW c \in Task, Cancelled(c) PROVE BreakerInv'
    BY <2>5, RouterAssumption DEF Cancelled, End, BreakerInv, Breakers
  <2>6. CASE Tick
    BY <2>6, BreakerSteps DEF Tick, BreakerInv, Breakers
  <2>7. CASE UNCHANGED vars
    BY <2>7 DEF vars, BreakerInv, Breakers
  <2> QED
    BY <2>1, <2>2, <2>3, <2>4, <2>5, <2>6, <2>7 DEF Next, Answer
<1> QED
  BY <1>1, <1>2, PTL DEF Spec

\* The counter, the state and the probe flag of every breaker agree, for every
\* number of callers, threshold and timeout, with cancellations and telemetry
\* that fails.
THEOREM RouterKeepsBreakers == Spec => []BreakersConsistent
<1>1. BreakerInv => BreakersConsistent
  BY DEF BreakerInv, Breakers, BreakersConsistent
<1> QED
  BY <1>1, RouterKeepsBreakerInv, PTL

-----------------------------------------------------------------------------
\* Among the callers of K: a half-open circuit has at most one request out, and
\* the requests that are out to an open one are older than its opening.
Alone(b, K) ==
    \A p \in Guarded :
        /\ b[p].state = "half_open" =>
               \A c, d \in K : asking[c] = p /\ asking[d] = p => b[p].probe /\ c = d
        /\ b[p].state = "open" => \A c \in K : asking[c] = p => waiting[c] >= b[p].age

ProbeInv ==
    /\ BreakerInv
    /\ waiting \in [Task -> 0 .. Latency]
    /\ Alone(brk, Task)

\* Nobody else is waiting for a provider whose breaker is not closed and admits.
LEMMA NobodyWaits ==
    ASSUME Latency < ResetTimeout, NEW b, Breakers(b), waiting \in [Task -> 0 .. Latency],
           NEW K \in SUBSET Task, Alone(b, K),
           NEW p \in Guarded, Open(b, p), b[p].state # "closed"
    PROVE  \A d \in K : asking[d] # p
<1>1. b[p] \in Breaker
  BY DEF Breakers
<1>2. CASE b[p].state = "open"
  <2>1. b[p].age >= ResetTimeout
    BY <1>2 DEF Open, Admits
  <2> QED
    BY <1>1, <1>2, <2>1, BreakerAssumption, RouterAssumption DEF Alone, Breaker
<1>3. CASE b[p].state = "half_open"
  <2>1. ~b[p].probe
    BY <1>3 DEF Open, Admits
  <2> QED
    BY <1>3, <2>1 DEF Alone
<1> QED
  BY <1>1, <1>2, <1>3 DEF Breaker

\* What the loop does after the i-th provider lets at most one request out.
LEMMA AdvanceAlone ==
    ASSUME Latency < ResetTimeout, NEW c \in Task, NEW b, Breakers(b), NEW i \in 0 .. N, NEW gone,
           asking \in [Task -> 0 .. N], waiting \in [Task -> 0 .. Latency],
           Alone(b, Task \ {c}),
           Advance(c, i, b, gone) \/ AdvanceRaises(c, i, b, gone)
    PROVE  Alone(brk, Task)' /\ waiting' \in [Task -> 0 .. Latency]
<1> USE RouterAssumption DEF Provider
<1>1. ASSUME NEW p \in Candidates(b, i), brk' = Booked(b, p, Attempted(b[p])),
             asking' = [asking EXCEPT ![c] = p], waiting' = [waiting EXCEPT ![c] = 0]
      PROVE  Alone(brk, Task)'
  <2> SUFFICES ASSUME NEW q \in Guarded
               PROVE  /\ brk'[q].state = "half_open" =>
                            \A d, e \in Task : asking'[d] = q /\ asking'[e] = q
                                               => brk'[q].probe /\ d = e
                      /\ brk'[q].state = "open" =>
                            \A d \in Task : asking'[d] = q => waiting'[d] >= brk'[q].age
    BY DEF Alone
  <2>1. p \in Provider /\ Open(b, p)
    BY DEF Candidates
  <2>2. CASE q # p
    <3>1. brk'[q] = b[q]
      BY <1>1, <2>2 DEF Booked, Breakers
    <3> QED
      BY <1>1, <2>2, <3>1 DEF Alone
  <2>3. CASE q = p /\ b[p].state = "closed"
    <3>1. brk'[q] = b[q]
      BY <1>1, <2>3 DEF Booked, Attempted, Breakers
    <3> QED
      BY <2>3, <3>1
  <2>4. CASE q = p /\ b[p].state # "closed"
    <3>1. brk'[q].state = "half_open" /\ brk'[q].probe
      BY <1>1, <2>4 DEF Booked, Attempted, Breakers
    <3>2. \A d \in Task \ {c} : asking[d] # p
      BY <2>1, <2>4, NobodyWaits
    <3> QED
      BY <1>1, <2>4, <3>1, <3>2
  <2> QED
    BY <2>2, <2>3, <2>4
<1>2. CASE brk' = b /\ asking' = [asking EXCEPT ![c] = 0] /\ waiting' = [waiting EXCEPT ![c] = 0]
  BY <1>2 DEF Alone
<1>3. ASSUME NEW p \in Guarded \cap Candidates(b, i), b[p].state = "open",
             brk' = Booked(b, p, AttemptRaised(b[p])),
             asking' = [asking EXCEPT ![c] = 0], waiting' = [waiting EXCEPT ![c] = 0]
      PROVE  Alone(brk, Task)'
  <2>1. \A d \in Task \ {c} : asking[d] # p
    <3>1. Open(b, p)
      BY DEF Candidates
    <3> QED
      BY <1>3, <3>1, NobodyWaits
  <2>2. \A q \in Guarded \ {p} : brk'[q] = b[q]
    BY <1>3 DEF Booked, Breakers
  <2>3. \A d \in Task : asking'[d] # p
    BY <1>3, <2>1
  <2> QED
    BY <1>3, <2>2, <2>3 DEF Alone
<1>4. /\ waiting' = [waiting EXCEPT ![c] = 0]
      /\ \/ \E p \in Candidates(b, i) : /\ brk' = Booked(b, p, Attempted(b[p]))
                                       /\ asking' = [asking EXCEPT ![c] = p]
         \/ brk' = b /\ asking' = [asking EXCEPT ![c] = 0]
         \/ \E p \in Guarded \cap Candidates(b, i) :
                /\ b[p].state = "open"
                /\ brk' = Booked(b, p, AttemptRaised(b[p]))
                /\ asking' = [asking EXCEPT ![c] = 0]
  BY DEF Advance, AdvanceRaises, Ask, End
<1> QED
  BY <1>1, <1>2, <1>3, <1>4

\* Recording an outcome leaves no half-open circuit, and no opening older than now.
LEMMA RecordedAlone ==
    ASSUME NEW b, Breakers(b), NEW K \in SUBSET Task, Alone(b, K), NEW p \in Provider,
           waiting \in [Task -> 0 .. Latency]
    PROVE  Alone(Booked(b, p, Succeeded(b[p])), K) /\ Alone(Booked(b, p, Failed(b[p])), K)
<1>1. CASE p \notin Guarded
  BY <1>1 DEF Booked
<1>2. CASE p \in Guarded
  <2> DEFINE s == Booked(b, p, Succeeded(b[p]))
             f == Booked(b, p, Failed(b[p]))
  <2>1. \A q \in Guarded \ {p} : s[q] = b[q] /\ f[q] = b[q]
    BY <1>2 DEF Booked, Breakers
  <2>2. s[p].state = "closed"
    BY <1>2 DEF Booked, Breakers, Succeeded, NewBreaker
  <2>3. f[p] = Failed(b[p])
    BY <1>2 DEF Booked, Breakers
  <2> HIDE DEF s, f
  <2>4. f[p].state # "half_open" /\ (f[p].state = "open" => f[p].age \in {0, b[p].age})
        /\ (f[p].state = "open" /\ f[p].age # 0 => b[p].state = "open")
    <3> DEFINE n == IF b[p].failures < Threshold THEN b[p].failures + 1 ELSE Threshold
    <3>2. CASE b[p].state = "half_open" \/ n >= Threshold
      <4>1. f[p] = [state |-> "open", failures |-> n, age |-> 0, probe |-> FALSE]
        BY <2>3, <3>2 DEF Failed
      <4> QED
        BY <4>1
    <3>3. CASE ~(b[p].state = "half_open" \/ n >= Threshold)
      <4>1. f[p] = [state |-> b[p].state, failures |-> n, age |-> b[p].age, probe |-> FALSE]
        BY <2>3, <3>3 DEF Failed
      <4> QED
        BY <3>3, <4>1
    <3> QED
      BY <3>2, <3>3
  <2>5. Alone(s, K)
    BY <2>1, <2>2 DEF Alone
  <2>6. Alone(f, K)
    <3>1. f[p].state = "open" => \A c \in K : asking[c] = p => waiting[c] >= f[p].age
      BY <1>2, <2>4, RouterAssumption DEF Alone
    <3> QED
      BY <2>1, <2>4, <3>1 DEF Alone
  <2> QED
    BY <2>5, <2>6 DEF s, f
<1> QED
  BY <1>1, <1>2

LEMMA FailureAlone ==
    ASSUME Latency < ResetTimeout, ProbeInv, NEW c \in Task, asking[c] # 0,
           NEW b, Breakers(b), Alone(b, Task), Failure(c, b)
    PROVE  Alone(brk, Task)' /\ waiting' \in [Task -> 0 .. Latency]
<1> DEFINE p == asking[c]
           b1 == Booked(b, p, Failed(b[p]))
<1>1. p \in Provider /\ p \in 0 .. N
  BY RouterAssumption DEF ProbeInv, BreakerInv, Provider
<1>2. Breakers(b1) /\ Alone(b1, Task)
  BY <1>1, BookedKeeps, RecordedAlone DEF ProbeInv
<1>3. \/ \E gone : Advance(c, p, b1, gone) \/ AdvanceRaises(c, p, b1, gone)
      \/ brk' = b1 /\ End(c, "aborted")
  BY DEF Failure
<1> HIDE DEF b1, p
<1>4. Alone(b1, Task \ {c})
  BY <1>2 DEF Alone
<1>5. CASE \E gone : Advance(c, p, b1, gone) \/ AdvanceRaises(c, p, b1, gone)
  <2>1. PICK gone : Advance(c, p, b1, gone) \/ AdvanceRaises(c, p, b1, gone)
    BY <1>5
  <2> QED
    BY <1>1, <1>2, <1>4, <2>1, AdvanceAlone DEF ProbeInv, BreakerInv
<1>6. CASE brk' = b1 /\ End(c, "aborted")
  BY <1>2, <1>6, RouterAssumption DEF ProbeInv, BreakerInv, Alone, End, Provider
<1> QED
  BY <1>3, <1>5, <1>6

\* Where a provider answers, or its client gives up, sooner than a circuit stays
\* open, a half-open circuit never has two requests out, for every number of
\* callers and every order of their answers, cancellations and failures.
THEOREM RouterProbesOnce ==
    ASSUME Latency < ResetTimeout PROVE Spec => []OneRequestInHalfOpen
<1>1. Init /\ BreakerInv => ProbeInv
  BY RouterAssumption DEF Init, Alone, NewBreaker, Provider, ProbeInv
<1>2. ProbeInv /\ [Next]_vars => Alone(brk, Task)' /\ waiting' \in [Task -> 0 .. Latency]
  <2> SUFFICES ASSUME ProbeInv, [Next]_vars
               PROVE  Alone(brk, Task)' /\ waiting' \in [Task -> 0 .. Latency]
    OBVIOUS
  <2> USE RouterAssumption DEF ProbeInv, BreakerInv
  <2>1. ASSUME NEW c \in Task, Fetch(c)
        PROVE  Alone(brk, Task)' /\ waiting' \in [Task -> 0 .. Latency]
    <3>1. Alone(brk, Task \ {c})
      BY DEF Alone
    <3> QED
      BY <2>1, <3>1, AdvanceAlone DEF Fetch
  <2>2. ASSUME NEW c \in Task, Delivers(c)
        PROVE  Alone(brk, Task)' /\ waiting' \in [Task -> 0 .. Latency]
    <3>1. asking[c] \in Provider
      BY <2>2 DEF Delivers, Provider
    <3>2. Alone(Booked(brk, asking[c], Succeeded(brk[asking[c]])), Task)
      BY <3>1, RecordedAlone
    <3> QED
      BY <2>2, <3>2 DEF Delivers, End, Alone, Provider
  <2>3. ASSUME NEW c \in Task, Fails(c)
        PROVE  Alone(brk, Task)' /\ waiting' \in [Task -> 0 .. Latency]
    BY <2>3, FailureAlone DEF Fails
  <2>4. ASSUME NEW c \in Task, DeliversUnrecorded(c)
        PROVE  Alone(brk, Task)' /\ waiting' \in [Task -> 0 .. Latency]
    <3>1. asking[c] \in Provider
      BY <2>4 DEF DeliversUnrecorded, Provider
    <3>2. Alone(Booked(brk, asking[c], Succeeded(brk[asking[c]])), Task) /\ Breakers(Booked(brk, asking[c], Succeeded(brk[asking[c]])))
      BY <3>1, RecordedAlone, BookedKeeps
    <3> QED
      BY <2>4, <3>2, FailureAlone DEF DeliversUnrecorded
  <2>5. ASSUME NEW c \in Task, Cancelled(c)
        PROVE  Alone(brk, Task)' /\ waiting' \in [Task -> 0 .. Latency]
    BY <2>5 DEF Cancelled, End, Alone, Provider
  <2>6. CASE Tick
    <3>1. \A c \in Task : asking[c] # 0 => waiting'[c] = waiting[c] + 1
      BY <2>6 DEF Tick
    <3>2. \A p \in Guarded : /\ brk'[p].state = brk[p].state
                             /\ brk'[p].probe = brk[p].probe
                             /\ brk[p].state = "open" => brk'[p].age <= brk[p].age + 1
      <4> SUFFICES ASSUME NEW p \in Guarded
                   PROVE  /\ brk'[p].state = brk[p].state
                          /\ brk'[p].probe = brk[p].probe
                          /\ brk[p].state = "open" => brk'[p].age <= brk[p].age + 1
        OBVIOUS
      <4>1. brk[p] \in Breaker /\ brk'[p] = Aged(brk[p])
        BY <2>6 DEF Tick, Breakers
      <4> QED
        BY <4>1, BreakerAssumption DEF Aged, Breaker
    <3>3. \A p \in Guarded : brk[p].age \in Nat /\ brk'[p].age \in Nat
      <4> SUFFICES ASSUME NEW p \in Guarded
                   PROVE  brk[p].age \in Nat /\ brk'[p].age \in Nat
        OBVIOUS
      <4>1. brk[p] \in Breaker /\ Consistent(brk[p]) /\ brk'[p] = Aged(brk[p])
        BY <2>6 DEF Tick, Breakers
      <4>2. Aged(brk[p]) \in Breaker
        BY <4>1, BreakerSteps
      <4> QED
        BY <4>1, <4>2, BreakerAssumption DEF Breaker
    <3>4. asking' = asking /\ waiting' \in [Task -> 0 .. Latency]
      BY <2>6 DEF Tick
    <3>5. ASSUME NEW p \in Guarded, NEW c \in Task, brk'[p].state = "open", asking'[c] = p
          PROVE  waiting'[c] >= brk'[p].age
      <4>1. asking[c] # 0
        BY <3>4, <3>5 DEF Provider
      <4>2. waiting[c] >= brk[p].age /\ waiting[c] \in Nat
        BY <3>2, <3>4, <3>5 DEF Alone
      <4> QED
        BY <3>1, <3>2, <3>3, <3>5, <4>1, <4>2
    <3> QED
      BY <3>2, <3>4, <3>5 DEF Alone
  <2>7. CASE UNCHANGED vars
    BY <2>7 DEF vars, Alone
  <2> QED
    BY <2>1, <2>2, <2>3, <2>4, <2>5, <2>6, <2>7 DEF Next, Answer
<1>3. ProbeInv => OneRequestInHalfOpen
  BY DEF ProbeInv, Alone, OneRequestInHalfOpen, InFlight
<1>4. ProbeInv /\ [Next]_vars /\ BreakerInv' => ProbeInv'
  BY <1>2 DEF ProbeInv
<1> QED
  BY <1>1, <1>3, <1>4, RouterKeepsBreakerInv, PTL DEF Spec

-----------------------------------------------------------------------------
\* While a call waits for its p-th provider, the ones before it are behind.
TriedInv ==
    /\ asking \in [Task -> 0 .. N]
    /\ outcome \in [Task -> {"none", "data", "unavailable", "aborted", "cancelled"}]
    /\ passed \in [Task -> SUBSET Provider]
    /\ \A c \in Task : asking[c] # 0 => 1 .. asking[c] - 1 \subseteq passed[c]
    /\ AllProvidersTried

\* A step of one call, after which its fields are a, h and g.
LEMMA TriedUpdate ==
    ASSUME TriedInv, NEW c \in Task, NEW a \in 0 .. N, NEW g \in SUBSET Provider,
           NEW h \in {"none", "data", "unavailable", "aborted", "cancelled"},
           asking' = [asking EXCEPT ![c] = a], outcome' = [outcome EXCEPT ![c] = h],
           passed' = [passed EXCEPT ![c] = g],
           a # 0 => 1 .. a - 1 \subseteq g, h = "unavailable" => g = Provider
    PROVE  TriedInv'
<1>1. /\ asking' \in [Task -> 0 .. N]
      /\ outcome' \in [Task -> {"none", "data", "unavailable", "aborted", "cancelled"}]
      /\ passed' \in [Task -> SUBSET Provider]
  BY DEF TriedInv
<1>2. \A d \in Task : asking'[d] # 0 => 1 .. asking'[d] - 1 \subseteq passed'[d]
  <2> SUFFICES ASSUME NEW d \in Task, asking'[d] # 0
               PROVE  1 .. asking'[d] - 1 \subseteq passed'[d]
    OBVIOUS
  <2>1. CASE d = c
    <3>1. asking'[d] = a /\ passed'[d] = g
      BY <2>1 DEF TriedInv
    <3> QED
      BY <3>1
  <2>2. CASE d # c
    <3>1. asking'[d] = asking[d] /\ passed'[d] = passed[d]
      BY <2>2 DEF TriedInv
    <3> QED
      BY <3>1 DEF TriedInv
  <2> QED
    BY <2>1, <2>2
<1>3. AllProvidersTried'
  BY DEF TriedInv, AllProvidersTried
<1> QED
  BY <1>1, <1>2, <1>3 DEF TriedInv

\* A step that ends one call.
LEMMA EndTried ==
    ASSUME TriedInv, NEW c \in Task, NEW g \in SUBSET Provider,
           NEW h \in {"none", "data", "unavailable", "aborted", "cancelled"},
           End(c, h), Pass(c, g), h = "unavailable" => g = Provider
    PROVE  TriedInv'
<1>1. 0 \in 0 .. N /\ (0 # 0 => 1 .. 0 - 1 \subseteq g)
  BY RouterAssumption
<1>2. /\ asking' = [asking EXCEPT ![c] = 0]
      /\ outcome' = [outcome EXCEPT ![c] = h]
      /\ passed' = [passed EXCEPT ![c] = g]
  BY DEF End, Pass
<1> QED
  BY <1>1, <1>2, TriedUpdate

\* The rest of the loop, when all up to the i-th are behind.
LEMMA AdvanceTried ==
    ASSUME TriedInv, NEW c \in Task, NEW b, NEW i \in 0 .. N, NEW gone \in SUBSET Provider,
           1 .. i \subseteq gone,
           Advance(c, i, b, gone) \/ AdvanceRaises(c, i, b, gone)
    PROVE  TriedInv'
<1> USE RouterAssumption DEF Provider
<1>1. \A j \in 0 .. N : Skipped(b, i, j) \subseteq Provider
  BY DEF Skipped
<1>2. ASSUME NEW p \in Candidates(b, i), IsFirst(p, Candidates(b, i)), Ask(c, p),
             Pass(c, gone \cup Skipped(b, i, p - 1))
      PROVE  TriedInv'
  <2>1. p \in i + 1 .. N /\ p - 1 \in 0 .. N
    BY <1>2 DEF Candidates
  <2>2. 1 .. p - 1 \subseteq gone \cup Skipped(b, i, p - 1)
    <3> SUFFICES ASSUME NEW q \in 1 .. p - 1, q \notin gone PROVE q \in Skipped(b, i, p - 1)
      OBVIOUS
    <3>1. q \in i + 1 .. p - 1
      BY <2>1
    <3>2. q \notin Candidates(b, i)
      BY <1>2, <2>1, <3>1 DEF IsFirst
    <3> QED
      BY <2>1, <3>1, <3>2 DEF Candidates, Skipped
  <2>3. gone \cup Skipped(b, i, p - 1) \in SUBSET Provider
    BY <1>1, <2>1
  <2>4. p \in 0 .. N
    BY <2>1
  <2> QED
    BY <1>2, <2>2, <2>3, <2>4, TriedUpdate DEF Ask, Pass
<1>3. ASSUME Candidates(b, i) = {}, NEW how \in {"unavailable", "aborted"}, End(c, how),
             Pass(c, gone \cup Skipped(b, i, N))
      PROVE  TriedInv'
  <2>1. gone \cup Skipped(b, i, N) = Provider
    <3>1. \A q \in Provider : q \in 1 .. i \/ q \in i + 1 .. N
      OBVIOUS
    <3>2. \A q \in i + 1 .. N : q \in Skipped(b, i, N)
      BY <1>3 DEF Candidates, Skipped
    <3>3. Skipped(b, i, N) \subseteq Provider
      BY <1>1
    <3> QED
      BY <3>1, <3>2, <3>3
  <2>2. gone \cup Skipped(b, i, N) \in SUBSET Provider
    BY <2>1
  <2> QED
    BY <1>3, <2>1, <2>2, EndTried
<1>4. ASSUME NEW j \in 0 .. N, End(c, "aborted"), Pass(c, gone \cup Skipped(b, i, j))
      PROVE  TriedInv'
  <2>1. gone \cup Skipped(b, i, j) \in SUBSET Provider
    BY <1>1
  <2> QED
    BY <1>4, <2>1, EndTried
<1>5. \A p \in i + 1 .. N : p \in 0 .. N /\ p - 1 \in 0 .. N
  OBVIOUS
<1>6. Candidates(b, i) \subseteq i + 1 .. N
  BY DEF Candidates
<1>7. CASE Advance(c, i, b, gone)
  BY <1>2, <1>3, <1>7 DEF Advance
<1>8. CASE AdvanceRaises(c, i, b, gone)
  BY <1>3, <1>4, <1>5, <1>6, <1>8 DEF AdvanceRaises
<1> QED
  BY <1>7, <1>8

LEMMA FailureTried ==
    ASSUME TriedInv, NEW c \in Task, asking[c] # 0, NEW b, Failure(c, b)
    PROVE  TriedInv'
<1> USE RouterAssumption
<1> DEFINE p == asking[c]
           gone == passed[c] \cup {p}
<1>1. p \in 1 .. N /\ p \in 0 .. N
  BY DEF TriedInv
<1>2. gone \in SUBSET Provider
  BY <1>1 DEF TriedInv, Provider
<1>3. 1 .. p \subseteq gone
  <2>1. 1 .. p - 1 \subseteq passed[c]
    BY DEF TriedInv
  <2>2. \A q \in 1 .. p : q = p \/ q \in 1 .. p - 1
    BY <1>1
  <2> QED
    BY <2>1, <2>2
<1>4. \/ \E b1 : Advance(c, p, b1, gone) \/ AdvanceRaises(c, p, b1, gone)
      \/ End(c, "aborted") /\ Pass(c, gone)
  BY DEF Failure
<1> HIDE DEF p, gone
<1>5. CASE \E b1 : Advance(c, p, b1, gone) \/ AdvanceRaises(c, p, b1, gone)
  BY <1>1, <1>2, <1>3, <1>5, AdvanceTried
<1>6. CASE End(c, "aborted") /\ Pass(c, gone)
  BY <1>2, <1>6, EndTried
<1> QED
  BY <1>4, <1>5, <1>6

LEMMA RouterKeepsTriedInv == Spec => []TriedInv
<1>1. Init => TriedInv
  BY RouterAssumption DEF Init, TriedInv, AllProvidersTried
<1>2. TriedInv /\ [Next]_vars => TriedInv'
  <2> SUFFICES ASSUME TriedInv, [Next]_vars PROVE TriedInv'
    OBVIOUS
  <2>1. ASSUME NEW c \in Task, Fetch(c) PROVE TriedInv'
    <3>1. 0 \in 0 .. N /\ {} \in SUBSET Provider /\ 1 .. 0 \subseteq {}
      BY RouterAssumption
    <3> QED
      BY <2>1, <3>1, AdvanceTried DEF Fetch
  <2>2. ASSUME NEW c \in Task, NEW how \in {"data", "cancelled"}, End(c, how), UNCHANGED passed
        PROVE  TriedInv'
    <3>1. passed[c] \in SUBSET Provider /\ passed' = [passed EXCEPT ![c] = passed[c]]
      BY <2>2 DEF TriedInv
    <3>2. 0 \in 0 .. N
      BY RouterAssumption
    <3> QED
      BY <2>2, <3>1, <3>2, TriedUpdate DEF End
  <2>3. ASSUME NEW c \in Task, Delivers(c) \/ Cancelled(c) PROVE TriedInv'
    BY <2>2, <2>3 DEF Delivers, Cancelled
  <2>4. ASSUME NEW c \in Task, Fails(c) \/ DeliversUnrecorded(c) PROVE TriedInv'
    BY <2>4, FailureTried DEF Fails, DeliversUnrecorded
  <2>5. CASE UNCHANGED <<asking, outcome, passed>>
    BY <2>5 DEF TriedInv, AllProvidersTried
  <2> QED
    BY <2>1, <2>3, <2>4, <2>5 DEF Next, Answer, Tick, vars
<1> QED
  BY <1>1, <1>2, PTL DEF Spec

\* DataUnavailableError is raised only when every provider has failed in this
\* call or was skipped for an open circuit, for any number of providers and
\* calls, whatever is cancelled and whichever events cannot be written.
THEOREM RouterTriesAll == Spec => []AllProvidersTried
<1>1. TriedInv => AllProvidersTried
  BY DEF TriedInv
<1> QED
  BY <1>1, RouterKeepsTriedInv, PTL

-----------------------------------------------------------------------------
\* What the two invariants say nothing of: how long a call has waited.
Calls == waiting \in [Task -> 0 .. Latency]

LEMMA StopKeepsCalls ==
    ASSUME Calls, NEW c \in Task, (\E p : Ask(c, p)) \/ (\E how : End(c, how))
    PROVE  Calls'
  BY RouterAssumption DEF Ask, End, Calls

LEMMA LoopKeepsCalls ==
    ASSUME Calls, NEW c \in Task, NEW i, NEW b, NEW gone,
           Advance(c, i, b, gone) \/ AdvanceRaises(c, i, b, gone)
    PROVE  Calls'
  BY StopKeepsCalls DEF Advance, AdvanceRaises

LEMMA RouterKeepsCalls == Spec => []Calls
<1>1. Init => Calls
  BY RouterAssumption DEF Init, Calls
<1>2. Calls /\ [Next]_vars => Calls'
  <2> SUFFICES ASSUME Calls, [Next]_vars PROVE Calls'
    OBVIOUS
  <2>1. ASSUME NEW c \in Task, Fetch(c) PROVE Calls'
    BY <2>1, LoopKeepsCalls DEF Fetch
  <2>2. ASSUME NEW c \in Task, Delivers(c) \/ Cancelled(c) PROVE Calls'
    BY <2>2, StopKeepsCalls DEF Delivers, Cancelled
  <2>3. ASSUME NEW c \in Task, Fails(c) \/ DeliversUnrecorded(c) PROVE Calls'
    BY <2>3, LoopKeepsCalls, StopKeepsCalls DEF Fails, DeliversUnrecorded, Failure
  <2>4. CASE Tick
    BY <2>4, RouterAssumption DEF Tick, Calls
  <2>5. CASE UNCHANGED vars
    BY <2>5 DEF vars, Calls
  <2> QED
    BY <2>1, <2>2, <2>3, <2>4, <2>5 DEF Next, Answer
<1> QED
  BY <1>1, <1>2, PTL DEF Spec

\* The variables of the router stay within their types, for every number of calls
\* and providers.
THEOREM RouterTypeCorrect == Spec => []TypeOK
<1>1. BreakerInv /\ TriedInv /\ Calls => TypeOK
  BY DEF BreakerInv, Breakers, TriedInv, Calls, TypeOK
<1> QED
  BY <1>1, RouterKeepsBreakerInv, RouterKeepsTriedInv, RouterKeepsCalls, PTL
=============================================================================
