---------------------------- MODULE CircuitBreaker ----------------------------
(***************************************************************************)
(* The state machine of one data source's circuit breaker                  *)
(* (data/circuit_breaker.py), as operators on its state: a record of       *)
(* _state, _failures (counted up to the threshold), the time since         *)
(* _opened_at while open (up to the reset timeout), and _probe_released.   *)
(***************************************************************************)
EXTENDS Naturals

CONSTANTS
    Threshold,    \* failure_threshold
    ResetTimeout  \* reset_timeout, in ticks

ASSUME BreakerAssumption == Threshold \in Nat \ {0} /\ ResetTimeout \in Nat

Breaker == [state : {"closed", "open", "half_open"}, failures : 0 .. Threshold,
            age : 0 .. ResetTimeout, probe : BOOLEAN]

NewBreaker == [state |-> "closed", failures |-> 0, age |-> 0, probe |-> FALSE]

\* Bug: half-open lets every caller through.
AdmitsAnyProbe(b) == b.state = "open" => b.age >= ResetTimeout

\* What can_attempt answers.
Admits(b) ==
    CASE b.state = "closed"    -> TRUE
      [] b.state = "open"      -> b.age >= ResetTimeout
      [] b.state = "half_open" -> ~b.probe

\* What can_attempt leaves behind when it answers True.
Attempted(b) ==
    IF b.state = "closed" THEN b
    ELSE [state |-> "half_open", failures |-> b.failures, age |-> 0, probe |-> TRUE]

\* Bug: the probe is marked before the transition.
AttemptRaisedMarked(b) ==
    [state |-> "half_open", failures |-> b.failures, age |-> 0, probe |-> TRUE]

\* The transition to half-open is made and its event cannot be written: the
\* exception leaves can_attempt before the probe is marked.
AttemptRaised(b) ==
    [state |-> "half_open", failures |-> b.failures, age |-> 0, probe |-> b.probe]

\* record_success
Succeeded(b) == NewBreaker

\* Bug: the threshold is passed before the circuit opens.
FailedOneTooLate(b) ==
    LET n == IF b.failures < Threshold THEN b.failures + 1 ELSE Threshold
    IN  IF b.state = "half_open" \/ b.failures >= Threshold
          THEN [state |-> "open", failures |-> n, age |-> 0, probe |-> FALSE]
          ELSE [b EXCEPT !.failures = n, !.probe = FALSE]

\* record_failure
Failed(b) ==
    LET n == IF b.failures < Threshold THEN b.failures + 1 ELSE Threshold
    IN  IF b.state = "half_open" \/ n >= Threshold
          THEN [state |-> "open", failures |-> n, age |-> 0, probe |-> FALSE]
          ELSE [state |-> b.state, failures |-> n, age |-> b.age, probe |-> FALSE]

\* A tick of the clock.
Aged(b) ==
    IF b.state = "open" /\ b.age < ResetTimeout THEN [b EXCEPT !.age = @ + 1] ELSE b

\* A closed breaker is below its threshold; the others have reached it, so that
\* one more failure opens them; and only a half-open one has a probe out.
Consistent(b) ==
    /\ b.state = "closed" <=> b.failures < Threshold
    /\ b.probe => b.state = "half_open"
=============================================================================
