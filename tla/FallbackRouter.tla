---------------------------- MODULE FallbackRouter ----------------------------
(***************************************************************************)
(* FallbackRouter.fetch_ohlcv (data/router.py): concurrent asyncio calls   *)
(* that ask the providers in order, each guarded by an optional circuit    *)
(* breaker shared by all the calls.                                        *)
(*                                                                         *)
(* asyncio runs a call without interruption between two awaits, so one     *)
(* action is one such stretch: from the answer of a provider to the next   *)
(* await, or to the end of the call.  What can come between are the other  *)
(* calls, the clock, and the cancellation of the call at its await.        *)
(***************************************************************************)
EXTENDS GuardedProviders

VARIABLES
    brk,      \* the breaker of each guarded provider
    asking,   \* the provider each call is waiting for, 0 when it is not
    waiting,  \* for how long
    outcome,  \* how the last call of each task ended
    passed    \* history: the providers that failed or were skipped in that call

vars == <<brk, asking, waiting, outcome, passed>>

TypeOK ==
    /\ brk \in [Guarded -> Breaker]
    /\ asking \in [Task -> 0 .. N]
    /\ waiting \in [Task -> 0 .. Latency]
    /\ outcome \in [Task -> {"none", "data", "unavailable", "aborted", "cancelled"}]
    /\ passed \in [Task -> SUBSET Provider]

Init ==
    /\ brk = [p \in Guarded |-> NewBreaker]
    /\ asking = [c \in Task |-> 0]
    /\ waiting = [c \in Task |-> 0]
    /\ outcome = [c \in Task |-> "none"]
    /\ passed = [c \in Task |-> {}]

-----------------------------------------------------------------------------
Ask(c, p) ==
    /\ asking' = [asking EXCEPT ![c] = p]
    /\ waiting' = [waiting EXCEPT ![c] = 0]
    /\ outcome' = [outcome EXCEPT ![c] = "none"]

End(c, how) ==
    /\ asking' = [asking EXCEPT ![c] = 0]
    /\ waiting' = [waiting EXCEPT ![c] = 0]
    /\ outcome' = [outcome EXCEPT ![c] = how]

Pass(c, gone) == passed' = [passed EXCEPT ![c] = gone]

\* Bug: the last provider is not reached.
CandidatesButLast(b, i) == { p \in i + 1 .. N - 1 : Open(b, p) }

\* The providers after the i-th that would be asked, and the first of them.
Candidates(b, i) == { p \in i + 1 .. N : Open(b, p) }

IsFirst(p, S) == \A q \in S : p <= q

\* Those after the i-th and up to the j-th whose circuit is open.
Skipped(b, i, j) == { q \in i + 1 .. j : ~Open(b, q) }

\* The rest of the `for` loop after the i-th provider, with the breakers as in
\* b and the providers of `gone` behind: skip those whose circuit is open, ask
\* the first of the others, or raise DataUnavailableError.
Advance(c, i, b, gone) ==
    \/ \E p \in Candidates(b, i) :
         /\ IsFirst(p, Candidates(b, i))
         /\ brk' = Booked(b, p, Attempted(b[p]))
         /\ Ask(c, p)
         /\ Pass(c, gone \cup Skipped(b, i, p - 1))
    \/ /\ Candidates(b, i) = {}
       /\ brk' = b
       /\ End(c, "unavailable")
       /\ Pass(c, gone \cup Skipped(b, i, N))

\* The same, when an event cannot be written.  The exception leaves fetch_ohlcv
\* from circuit.skipped, from the transition made by allow(), or from
\* data.unavailable: none of them is inside the `try`.
AdvanceRaises(c, i, b, gone) ==
    /\ TelemetryFails
    /\ End(c, "aborted")
    /\ \/ \E p \in i + 1 .. N :
            /\ \A q \in i + 1 .. p : ~Open(b, q)
            /\ brk' = b
            /\ Pass(c, gone \cup Skipped(b, i, p))
       \/ \E p \in Guarded \cap Candidates(b, i) :
            /\ IsFirst(p, Candidates(b, i))
            /\ b[p].state = "open"
            /\ brk' = Booked(b, p, AttemptRaised(b[p]))
            /\ Pass(c, gone \cup Skipped(b, i, p - 1))
       \/ /\ Candidates(b, i) = {}
          /\ brk' = b
          /\ Pass(c, gone \cup Skipped(b, i, N))

\* fetch_ohlcv is called.
Fetch(c) ==
    /\ asking[c] = 0
    /\ Advance(c, 0, brk, {}) \/ AdvanceRaises(c, 0, brk, {})

\* The provider answers: record_success, and the points are returned.
Delivers(c) ==
    /\ asking[c] # 0
    /\ brk' = Booked(brk, asking[c], Succeeded(brk[asking[c]]))
    /\ End(c, "data")
    /\ UNCHANGED passed

\* The `except` clause: record_failure, then the next provider; or an event of
\* the clause cannot be written, and the exception leaves fetch_ohlcv.
Failure(c, b) ==
    LET p    == asking[c]
        b1   == Booked(b, p, Failed(b[p]))
        gone == passed[c] \cup {p}
    IN  \/ Advance(c, p, b1, gone)
        \/ AdvanceRaises(c, p, b1, gone)
        \/ TelemetryFails /\ brk' = b1 /\ End(c, "aborted") /\ Pass(c, gone)

\* The provider raises.
Fails(c) == asking[c] # 0 /\ Failure(c, brk)

\* The provider answers, but the event of the breaker that closes or of the
\* fallback cannot be written: inside the `try`, so it counts as a failure.
DeliversUnrecorded(c) ==
    /\ TelemetryFails
    /\ asking[c] # 0
    /\ \/ asking[c] > 1
       \/ asking[c] \in Guarded /\ brk[asking[c]].state # "closed"
    /\ Failure(c, Booked(brk, asking[c], Succeeded(brk[asking[c]])))

\* CancelledError at the await: it is no Exception, so nothing is recorded.
Cancelled(c) ==
    /\ CanCancel
    /\ asking[c] # 0
    /\ End(c, "cancelled")
    /\ UNCHANGED <<brk, passed>>

\* Time passes; no provider is waited for beyond Latency.
Tick ==
    /\ \A c \in Task : asking[c] # 0 => waiting[c] < Latency
    /\ waiting' = [c \in Task |-> IF asking[c] # 0 THEN waiting[c] + 1 ELSE waiting[c]]
    /\ brk' = [p \in Guarded |-> Aged(brk[p])]
    /\ UNCHANGED <<asking, outcome, passed>>

Answer(c) == Delivers(c) \/ Fails(c) \/ DeliversUnrecorded(c)

Next ==
    \/ \E c \in Task : Fetch(c) \/ Answer(c) \/ Cancelled(c)
    \/ Tick

Spec == Init /\ [][Next]_vars

\* Every provider answers or fails in the end, and time goes on.
FairSpec ==
    /\ Spec
    /\ \A c \in Task : WF_vars(Answer(c))
    /\ SF_vars(Tick)

-----------------------------------------------------------------------------
(* Properties *)

InFlight(p) == { c \in Task : asking[c] = p }

\* While a breaker is half-open, at most one request is out to its convalescent
\* provider, and none before the probe is released.  It needs providers that are
\* not waited for as long as a circuit stays open.
OneRequestInHalfOpen ==
    \A p \in Guarded : brk[p].state = "half_open" =>
        \A c, d \in InFlight(p) : brk[p].probe /\ c = d

\* Whatever the order in which late answers, probes and failed emissions come,
\* the counter, the state and the probe flag of a breaker agree.
BreakersConsistent == \A p \in Guarded : Consistent(brk[p])

\* "Any failure triggers the next one": DataUnavailableError is raised only when
\* every provider has failed in this call or been skipped for an open circuit.
AllProvidersTried ==
    \A c \in Task : outcome[c] = "unavailable" => passed[c] = Provider

\* A provider is never shut out for good: again and again its breaker would let
\* a request through, whatever its failures.
NeverShutOut == \A p \in Guarded : []<>Admits(brk[p])
=============================================================================
