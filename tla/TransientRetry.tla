--------------------------- MODULE TransientRetry ---------------------------
(***************************************************************************)
(* with_retry and is_transient (kernel/net.py): a coroutine that is called *)
(* again after a transient error, with exponential backoff.                *)
(***************************************************************************)
EXTENDS Naturals, Sequences

CONSTANTS
    Attempts,   \* the argument `attempts`
    BaseDelay,  \* base_delay, in seconds
    MaxDelay    \* max_delay, in seconds

ASSUME RetryAssumption == Attempts \in Nat /\ BaseDelay \in Nat /\ MaxDelay \in Nat

VARIABLES
    phase,   \* of the wrapper: "idle", "calling" or "sleeping"
    delay,   \* its local variable
    errors,  \* history: the exceptions of this call so far
    waits,   \* history: how long it slept after each
    result   \* how the last call ended

retryVars == <<phase, delay, errors, waits, result>>

RetryInit ==
    /\ phase = "idle" /\ delay = 0
    /\ errors = <<>> /\ waits = <<>>
    /\ result = "none"

-----------------------------------------------------------------------------
\* What is_transient looks at: the markers of a daily quota, the status code, and
\* the class of the exception or the other markers in its text.
Error == [quota : BOOLEAN, status : BOOLEAN, looks : BOOLEAN]

\* Bug: the status is looked at first.
IsTransientByStatus(e) == e.status \/ (e.looks /\ ~e.quota)

IsTransient(e) == ~e.quota /\ (e.status \/ e.looks)

Smaller(x, y) == IF x < y THEN x ELSE y

\* With no attempts the loop body never runs, and the wrapper returns None.
CallWrapper ==
    /\ phase = "idle" /\ Attempts > 0
    /\ phase' = "calling" /\ delay' = BaseDelay
    /\ errors' = <<>> /\ waits' = <<>> /\ result' = "none"

Ends(how) == phase' = "idle" /\ result' = how /\ UNCHANGED <<delay, waits>>

Returns == phase = "calling" /\ Ends("value") /\ UNCHANGED errors

LastAttempt(attempt, e) == attempt = Attempts \/ ~IsTransient(e)

\* The exception leaves the wrapper, or it sleeps before the next attempt.
Raises ==
    /\ phase = "calling"
    /\ \E e \in Error :
         /\ errors' = Append(errors, e)
         /\ \/ LastAttempt(Len(errors'), e) /\ Ends("raised")
            \/ /\ ~LastAttempt(Len(errors'), e)
               /\ \E jitter \in 0 .. 1 :
                    waits' = Append(waits, Smaller(delay, MaxDelay) + jitter)
               /\ delay' = delay * 2
               /\ phase' = "sleeping"
               /\ UNCHANGED result

Wake == phase = "sleeping" /\ phase' = "calling" /\ UNCHANGED <<delay, errors, waits, result>>

\* CancelledError is no Exception: it leaves at once, from either await.
Cancel == phase # "idle" /\ Ends("cancelled") /\ UNCHANGED errors

RetryNext == CallWrapper \/ Returns \/ Raises \/ Wake \/ Cancel

RetrySpec == RetryInit /\ [][RetryNext]_retryVars

-----------------------------------------------------------------------------
(* Property *)

\* The function runs at most `attempts` times; it runs again only after an error
\* that is no daily quota and looks transient, and after the wait that the
\* position of that error calls for; and an error is raised only when it is not
\* worth a retry or there are none left.
RetryBudget ==
    LET retried(i) == ~errors[i].quota /\ (errors[i].status \/ errors[i].looks)
    IN  /\ Len(errors) <= Attempts
        /\ \A i \in DOMAIN waits :
             /\ retried(i)
             /\ waits[i] - Smaller(BaseDelay * 2^(i - 1), MaxDelay) \in 0 .. 1
        /\ Len(waits) < Len(errors) =>
             result = "raised" /\ (Len(errors) = Attempts \/ ~retried(Len(errors)))
=============================================================================
