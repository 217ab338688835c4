--------------------------- MODULE AggregationRouter ---------------------------
(***************************************************************************)
(* AggregationRouter.fetch_ohlcv (data/router.py): a call asks all its     *)
(* providers at once, each in an asyncio task of its own (_try), and       *)
(* gathers their answers.  An exception of one child ends the gathering at *)
(* once and leaves the other children running; the cancellation of the     *)
(* call cancels them.  An action is a stretch between two awaits.          *)
(***************************************************************************)
EXTENDS GuardedProviders

VARIABLES
    brk,      \* the breaker of each guarded provider
    call,     \* the call of each task: gathering, or how the last one ended
    child,    \* the child of each call for each provider
    waiting,  \* how long that child has waited for the provider
    dropped   \* history: the providers from which a request was withdrawn

aggVars == <<brk, call, child, waiting, dropped>>

\* A child has not begun, waits for its provider, or has ended with points, with
\* an empty list, with None, with an exception, or by its call's cancellation.
Running == {"ready", "asking"}
Ended   == {"points", "empty", "nothing", "raised", "cancelled"}

AggInit ==
    /\ brk = [p \in Guarded |-> NewBreaker]
    /\ call = [c \in Task |-> "none"]
    /\ child = [c \in Task |-> [p \in Provider |-> "nothing"]]
    /\ waiting = [c \in Task |-> [p \in Provider |-> 0]]
    /\ dropped = {}

-----------------------------------------------------------------------------
Becomes(c, p, s) ==
    /\ child' = [child EXCEPT ![c][p] = s]
    /\ waiting' = [waiting EXCEPT ![c][p] = 0]
    /\ UNCHANGED <<call, dropped>>

\* gather creates a child for each provider.  A task calls again when nothing of
\* its last call is left, so that a call and its children go by one name.
Gather(c) ==
    /\ call[c] # "gathering"
    /\ \A p \in Provider : child[c][p] \in Ended
    /\ call' = [call EXCEPT ![c] = "gathering"]
    /\ child' = [child EXCEPT ![c] = [p \in Provider |-> "ready"]]
    /\ UNCHANGED <<brk, waiting, dropped>>

\* A child begins, in the order of creation: it asks its provider, unless the
\* circuit is open; or the event of the transition or of the skip is not written.
Begin(c, p) ==
    /\ child[c][p] = "ready"
    /\ \A q \in Provider : q < p => child[c][q] # "ready"
    /\ \/ Open(brk, p) /\ Becomes(c, p, "asking") /\ brk' = Booked(brk, p, Attempted(brk[p]))
       \/ ~Open(brk, p) /\ Becomes(c, p, "nothing") /\ UNCHANGED brk
       \/ /\ TelemetryFails
          /\ p \in Guarded
          /\ \/ ~Open(brk, p) /\ UNCHANGED brk
             \/ /\ Open(brk, p) /\ brk[p].state = "open"
                /\ brk' = Booked(brk, p, AttemptRaised(brk[p]))
          /\ Becomes(c, p, "raised")

\* The provider answers, with points or without.
Delivers(c, p) ==
    /\ child[c][p] = "asking"
    /\ brk' = Booked(brk, p, Succeeded(brk[p]))
    /\ \E s \in {"points", "empty"} : Becomes(c, p, s)

\* Bug: a provider that failed is asked again.
FailureRetried(c, p, b) ==
    /\ brk' = Booked(b, p, Failed(b[p]))
    /\ Becomes(c, p, "ready")

\* The `except` clause, with the breakers as in b.
Failure(c, p, b) ==
    /\ brk' = Booked(b, p, Failed(b[p]))
    /\ \/ Becomes(c, p, "nothing")
       \/ TelemetryFails /\ Becomes(c, p, "raised")

\* The provider raises; or it answers, and the event of the breaker that closes
\* is not written, inside the `try`.
Fails(c, p) ==
    /\ child[c][p] = "asking"
    /\ \/ Failure(c, p, brk)
       \/ /\ TelemetryFails
          /\ p \in Guarded
          /\ brk[p].state # "closed"
          /\ Failure(c, p, Booked(brk, p, Succeeded(brk[p])))

Ends(c, how) ==
    /\ call' = [call EXCEPT ![c] = how]
    /\ UNCHANGED <<brk, child, waiting, dropped>>

Raised(c) == \E p \in Provider : child[c][p] = "raised"

\* Bug: the siblings of a child that raises are cancelled, as by a TaskGroup.
RaisesAll(c) ==
    /\ call[c] = "gathering"
    /\ Raised(c)
    /\ call' = [call EXCEPT ![c] = "aborted"]
    /\ child' = [child EXCEPT ![c] = [p \in Provider |->
                    IF @[p] \in Running THEN "cancelled" ELSE @[p]]]
    /\ UNCHANGED <<brk, waiting, dropped>>

\* gather passes the first exception on, whatever the other children do.
Raises(c) ==
    /\ call[c] = "gathering"
    /\ Raised(c)
    /\ Ends(c, "aborted")

\* Every child has ended without an exception: the points are fused, or there are
\* none and DataUnavailableError is raised, or the event of either is not written.
Finishes(c) ==
    /\ call[c] = "gathering"
    /\ \A p \in Provider : child[c][p] \in {"points", "empty", "nothing"}
    /\ \/ Ends(c, IF \E p \in Provider : child[c][p] = "points" THEN "data" ELSE "unavailable")
       \/ TelemetryFails /\ Ends(c, "aborted")

\* The children that a cancellation of the call cancels: those that still run,
\* unless gather has already ended by the exception of one.
Withdrawn(c) == { p \in Provider : child[c][p] \in Running /\ ~Raised(c) }

\* The call is cancelled at its await, and with it these children: they raise
\* CancelledError, which `except Exception` lets pass, and record nothing.
Cancelled(c) ==
    /\ CanCancel
    /\ call[c] = "gathering"
    /\ call' = [call EXCEPT ![c] = "cancelled"]
    /\ child' = [child EXCEPT ![c] = [p \in Provider |->
                    IF p \in Withdrawn(c) THEN "cancelled" ELSE @[p]]]
    /\ waiting' = [waiting EXCEPT ![c] = [p \in Provider |->
                    IF p \in Withdrawn(c) THEN 0 ELSE @[p]]]
    /\ dropped' = dropped \cup { p \in Withdrawn(c) : child[c][p] = "asking" }
    /\ UNCHANGED brk

\* Time passes; no provider is waited for beyond Latency.
Tick ==
    /\ \A c \in Task, p \in Provider : child[c][p] = "asking" => waiting[c][p] < Latency
    /\ waiting' = [c \in Task |-> [p \in Provider |->
                    IF child[c][p] = "asking" THEN waiting[c][p] + 1 ELSE 0]]
    /\ brk' = [p \in Guarded |-> Aged(brk[p])]
    /\ UNCHANGED <<call, child, dropped>>

\* What the event loop does of itself for a child, and for a call.
Runs(c, p) == Begin(c, p) \/ Delivers(c, p) \/ Fails(c, p)
Returns(c) == Raises(c) \/ Finishes(c)

AggNext ==
    \/ \E c \in Task : Gather(c) \/ Returns(c) \/ Cancelled(c)
    \/ \E c \in Task, p \in Provider : Runs(c, p)
    \/ Tick

\* Every child that can go on does, every provider answers or fails in the end,
\* every call is resumed, and time goes on.
AggSpec ==
    /\ AggInit
    /\ [][AggNext]_aggVars
    /\ \A c \in Task : WF_aggVars(Returns(c)) /\ \A p \in Provider : WF_aggVars(Runs(c, p))
    /\ SF_aggVars(Tick)

-----------------------------------------------------------------------------
(* Properties *)

\* A half-open breaker has at most one request out to its provider, counting the
\* children that a call which has already failed left behind; and in whatever
\* order the children of several calls book their results, its counter, its
\* state and its probe flag agree.
OneProbeAmongChildren ==
    \A p \in Guarded :
        /\ Consistent(brk[p])
        /\ brk[p].state = "half_open" =>
             \A c, d \in Task :
                 child[c][p] = "asking" /\ child[d][p] = "asking" => brk[p].probe /\ c = d

\* The exception of one child does not lose the others' requests: unless a call
\* is cancelled, each breaker lets a request through again and again.
SurvivesSiblings ==
    \A p \in Guarded : []<>(Admits(brk[p]) \/ p \in dropped)

\* Every call comes to an end: with data, or with an exception.
EveryGatherEnds == \A c \in Task : call[c] = "gathering" ~> call[c] # "gathering"
===============================================================================
