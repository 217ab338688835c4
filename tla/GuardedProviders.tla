--------------------------- MODULE GuardedProviders ---------------------------
(***************************************************************************)
(* What the two routers of data/router.py have in common: an ordered list  *)
(* of providers, some of them guarded by a circuit breaker that all calls  *)
(* share, and the things around them that may go wrong.                    *)
(***************************************************************************)
EXTENDS CircuitBreaker

CONSTANTS
    Task,           \* the concurrent callers; each may call again and again
    N,              \* number of providers, in the order 1 .. N
    Guarded,        \* the providers that have a breaker
    Latency,        \* a provider answers, or its client times out, within this
    CanCancel,      \* may a waiting call be cancelled?
    TelemetryFails  \* may emit_event raise (events.jsonl cannot be written)?

Provider == 1 .. N

ASSUME RouterAssumption ==
    /\ N \in Nat \ {0}
    /\ Guarded \subseteq Provider
    /\ Latency \in Nat
    /\ CanCancel \in BOOLEAN
    /\ TelemetryFails \in BOOLEAN

\* breaker is None or breaker.allow(), with the breakers as in b.
Open(b, p) == p \in Guarded => Admits(b[p])

\* The breakers of b after that of p, if it has one, has gone to state s.
Booked(b, p, s) == IF p \in Guarded THEN [b EXCEPT ![p] = s] ELSE b
=============================================================================
