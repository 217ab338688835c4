--------------------------- MODULE CollectionArchive ---------------------------
(***************************************************************************)
(* The COLLECTION_ONLY archive of data/collection.py: observation          *)
(* envelopes that advance through a lifecycle, and the append-only history *)
(* of their states kept in a JsonlStore.                                   *)
(*                                                                         *)
(* A caller holds, for each event, the envelope it is working on, makes    *)
(* the next one with `transition`, and submits it with `append`, which     *)
(* reads the whole history before it writes.  The store leaves serialising *)
(* the writers to its user, so one call of append runs at a time; the      *)
(* write may be cut short at any point, and the caller may then retry or   *)
(* restart from what the archive holds.                                    *)
(*                                                                         *)
(* Time is in ticks, Second of them in a second: iso_z writes seconds.     *)
(* observed_at is created_at (its default), and the fields that no rule    *)
(* but equality looks at are one `fact`.                                   *)
(***************************************************************************)
EXTENDS JsonlStore, FiniteSetsExt

CONSTANTS
    Event,         \* a (collection_run_id, canonical_event_id)
    Fact,          \* participants, competition, source, hashes...
    Result,        \* official results
    Reason,        \* rejection reasons
    None,
    Second,        \* ticks in a second
    MaxTime,       \* bound: the last tick
    First,         \* bound: the states a caller makes envelopes in
    Target,        \* bound: the states a caller moves them to
    GivesPrevious  \* whether append is called with `previous`: subset of BOOLEAN

ASSUME ArchiveAssumption ==
    /\ None \notin Event \cup Fact \cup Result \cup Reason
    /\ Second \in Nat \ {0}
    /\ MaxTime \in Nat
    /\ GivesPrevious \subseteq BOOLEAN

VARIABLES
    now,     \* the clock
    held,    \* per event: the envelope its caller works on
    before,  \* per event: the envelope that one was made from by transition
    reply    \* history, per event: the last call of append since the caller took up
             \* another envelope, and how it ended; or None

archiveVars == <<file, acked, now, held, before, reply>>

-----------------------------------------------------------------------------
(* Envelopes *)

Ordered == << "DISCOVERED", "VALIDATED", "SNAPSHOT_RECORDED", "EVENT_STARTED",
              "OFFICIAL_RESULT_FOUND", "COMPLETE" >>

Rejections == {"REJECTED", "SOURCE_UNAVAILABLE", "IDENTITY_AMBIGUOUS", "STALE", "CLOSED"}

State == {Ordered[i] : i \in DOMAIN Ordered} \cup Rejections

Terminal == Rejections \cup {"COMPLETE"}

ASSUME StatesAssumption == First \subseteq State /\ Target \subseteq State

Envelope == [ event : Event, fact : Fact, state : State,
              result : Result \cup {None}, reason : Reason \cup {None},
              created : 0 .. MaxTime, updated : 0 .. MaxTime ]

\* What __post_init__ demands of the fields modelled here.
Valid(e) ==
    /\ e.created <= e.updated
    /\ e.state \in {"OFFICIAL_RESULT_FOUND", "COMPLETE"} => e.result # None
    /\ e.state \in Rejections => e.reason # None

\* t is the next step of the funnel after s, or ends it.
Follows(s, t) ==
    \/ t \in Rejections
    \/ \E i \in 2 .. Len(Ordered) : s = Ordered[i - 1] /\ t = Ordered[i]

OrElse(x, y) == IF x = None THEN y ELSE x

\* transition, where it changes the state: the new envelope ...
Moved(e, s, at, result, reason) ==
    [e EXCEPT !.state = s, !.updated = at,
              !.result = OrElse(result, @), !.reason = OrElse(reason, @)]

\* ... and when it raises instead.
Movable(e, s, at, result, reason) ==
    /\ e.state \notin Terminal
    /\ Follows(e.state, s)
    /\ e.updated <= at
    /\ Valid(Moved(e, s, at, result, reason))

\* iso_z drops the fraction of the second.
Whole(t) == t - (t % Second)

\* An envelope that went through to_dict and from_dict: whole seconds.
Stored(e) == [e EXCEPT !.created = Whole(@), !.updated = Whole(@)]

-----------------------------------------------------------------------------
(* The archive *)

Rows == [envelope : Envelope, previous_state : State \cup {None}]

ASSUME RowsAssumption == Rows \subseteq Record /\ None \notin Envelope

\* The history of v: the places of its rows in rows.
Places(rows, v) == { i \in DOMAIN rows : rows[i].envelope.event = v }

\* history(v)[-1], or None.
Current(v) ==
    LET places == Places(Records(file), v)
    IN  IF places = {} THEN None ELSE Records(file)[Max(places)].envelope

Row(e, current) ==
    [envelope |-> e, previous_state |-> IF current = None THEN None ELSE current.state]

\* Bug: nothing is compared with the history but the state.
RefusesSameState(e, current, previous) ==
    current # None /\ current # e /\ e.state = current.state

\* Bug: the same envelope again is an update without a transition.
RefusesRetry(e, current, previous) ==
    \/ previous # None /\ current # previous
    \/ /\ current # None
       /\ \/ e.created # current.created
          \/ e.state = current.state
          \/ ~Movable(current, e.state, e.updated, e.result, e.reason)

\* append raises CollectionTransitionError.  Only the first condition looks at
\* `previous`, and it comes before the one for a retry, e = current.
Refuses(e, current, previous) ==
    \/ previous # None /\ current # previous
    \/ /\ current # None
       /\ current # e
       /\ \/ e.created # current.created
          \/ e.state = current.state
          \/ ~Movable(current, e.state, e.updated, e.result, e.reason)
          \/ e # Moved(current, e.state, e.updated, e.result, e.reason)

\* A row is written as soon as its JSON is: the envelope is Stored in the file.
Appended(e) == Row(Stored(e), Current(e.event))

Replied(e, previous, how) ==
    reply' = [reply EXCEPT ![e.event] = [envelope |-> e, previous |-> previous, how |-> how]]

\* append(e, previous=previous).
AppendEnvelope(e, previous) ==
    /\ UNCHANGED <<now, held, before>>
    /\ \/ /\ Raises(file)                        \* history raises ValueError
          /\ Replied(e, previous, "unreadable")
          /\ UNCHANGED storeVars
       \/ /\ ~Raises(file)
          /\ Refuses(e, Current(e.event), previous)
          /\ Replied(e, previous, "refused")
          /\ UNCHANGED storeVars
       \/ /\ ~Raises(file)
          /\ ~Refuses(e, Current(e.event), previous)
          /\ Current(e.event) = e
          /\ Replied(e, previous, "returned")
          /\ UNCHANGED storeVars
       \/ /\ ~Raises(file)
          /\ ~Refuses(e, Current(e.event), previous)
          /\ Current(e.event) # e
          /\ \/ AppendRecord(Appended(e)) /\ Replied(e, previous, "returned")
             \/ AppendCutShort(Appended(e)) /\ Replied(e, previous, "raised")

-----------------------------------------------------------------------------
(* The caller *)

NewEnvelope(v, fact, s, result) ==
    [ event |-> v, fact |-> fact, state |-> s, result |-> result,
      reason |-> None, created |-> now, updated |-> now ]

\* A collector finds the event, for the first time or again.
Discover(v) ==
    /\ \E fact \in Fact, s \in First, result \in Result \cup {None} :
          /\ Valid(NewEnvelope(v, fact, s, result))
          /\ held' = [held EXCEPT ![v] = NewEnvelope(v, fact, s, result)]
    /\ before' = [before EXCEPT ![v] = None]
    /\ reply' = [reply EXCEPT ![v] = None]
    /\ UNCHANGED <<file, acked, now>>

\* held[v].transition(s, official_result=result, rejection_reason=reason), now.
Transition(v) ==
    \E s \in Target, result \in Result \cup {None}, reason \in Reason \cup {None} :
        /\ held[v] # None
        /\ Movable(held[v], s, now, result, reason)
        /\ held' = [held EXCEPT ![v] = Moved(held[v], s, now, result, reason)]
        /\ before' = [before EXCEPT ![v] = held[v]]
        /\ reply' = [reply EXCEPT ![v] = None]
        /\ UNCHANGED <<file, acked, now>>

\* For the first time, or again because the answer was not seen.
Submit(v) ==
    \E given \in GivesPrevious :
        /\ held[v] # None
        /\ AppendEnvelope(held[v], IF given THEN before[v] ELSE None)

\* The caller takes up the event from the archive, after a restart for instance.
Reload(v) ==
    /\ ~Raises(file)
    /\ held' = [held EXCEPT ![v] = Current(v)]
    /\ before' = [before EXCEPT ![v] = None]
    /\ UNCHANGED <<file, acked, now, reply>>

Tick ==
    /\ now < MaxTime
    /\ now' = now + 1
    /\ UNCHANGED <<file, acked, held, before, reply>>

ArchiveInit ==
    /\ StoreInit
    /\ now = 0
    /\ held = [v \in Event |-> None]
    /\ before = [v \in Event |-> None]
    /\ reply = [v \in Event |-> None]

ArchiveNext ==
    \/ \E v \in Event : Discover(v) \/ Transition(v) \/ Submit(v) \/ Reload(v)
    \/ Tick

ArchiveSpec == ArchiveInit /\ [][ArchiveNext]_archiveVars

-----------------------------------------------------------------------------
(* aggregate_funnel *)

\* Bug: "<" for "<=": the first of them.
LatestEarliest(rows, v) ==
    CHOOSE i \in Places(rows, v) : \A j \in Places(rows, v) :
        \/ rows[j].envelope.updated < rows[i].envelope.updated
        \/ rows[j].envelope.updated = rows[i].envelope.updated /\ i <= j

\* The place of the row that the funnel counts for v: it replaces what it has by
\* every later row whose updated_at is not smaller, which leaves the last of those
\* with the greatest.
Latest(rows, v) ==
    CHOOSE i \in Places(rows, v) : \A j \in Places(rows, v) :
        \/ rows[j].envelope.updated < rows[i].envelope.updated
        \/ rows[j].envelope.updated = rows[i].envelope.updated /\ j <= i

-----------------------------------------------------------------------------
(* Properties *)

\* new is a lawful row after old, of the same event.
Succeeds(old, new) ==
    /\ new.previous_state = old.envelope.state
    /\ old.envelope.state \notin Terminal
    /\ Follows(old.envelope.state, new.envelope.state)
    /\ new.envelope.created = old.envelope.created
    /\ new.envelope.fact = old.envelope.fact
    /\ old.envelope.updated <= new.envelope.updated

\* The history of an event is a path of the lifecycle: every row follows the one
\* before it (nothing follows a terminal one), names it as its previous_state, is
\* about the same collection and fact and does not go back in time, whatever
\* callers retried, rediscovered or took up again, and whichever writes failed.
LegalLifecycle ==
    ~Raises(file) =>
        \A v \in Event : \A i, j \in Places(Records(file), v) :
            i < j /\ ~(\E k \in Places(Records(file), v) : i < k /\ k < j)
                => Succeeds(Records(file)[i], Records(file)[j])

\* The funnel, which orders by updated_at in whole seconds, counts an event in the
\* state the archive holds last.
FunnelAgrees ==
    ~Raises(file) =>
        \A v \in Event : Places(Records(file), v) # {} =>
            Records(file)[Latest(Records(file), v)].envelope = Current(v)

\* A call of append about v that is accepted may be repeated, also after a restart of
\* the caller and wherever the first write was cut short: it is not refused, and after
\* one that returned it leaves the file alone; unless a call names a predecessor or
\* the envelope is not in whole seconds.
Repeatable(call) ==
    /\ call # None
    /\ call.previous = None
    /\ call.envelope = Stored(call.envelope)

RetriesNeverRefused ==
    [][\A v \in Event :
         /\ Repeatable(reply[v]) /\ reply[v].how \in {"returned", "raised"}
         /\ Repeatable(reply'[v]) /\ reply'[v].envelope = reply[v].envelope
         /\ Submit(v)
         => /\ reply'[v].how # "refused"
            /\ reply[v].how = "returned" => file' = file]_archiveVars

\* "Identical retries are idempotent": append never refuses what the archive already
\* holds last, without that proviso.
RetriesAreIdempotent ==
    \A v \in Event :
        (reply[v] # None /\ reply[v].how = "refused") =>
            Current(v) # Stored(reply[v].envelope)
=============================================================================
