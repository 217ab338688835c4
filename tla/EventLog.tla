------------------------------ MODULE EventLog ------------------------------
(***************************************************************************)
(* emit_event and read_events (kernel/obs.py): processes that append       *)
(* events to one JSONL file, without a lock and without syncing.  The file *)
(* is a sequence of writes; one event takes one write, or two when it is   *)
(* longer than the buffer of the stream.                                   *)
(***************************************************************************)
EXTENDS Naturals, Sequences

CONSTANTS
    Emitter,   \* the processes
    Event,     \* what they emit, each event once
    Long,      \* the events that take two writes
    Invalid,   \* those whose fields emit_event refuses
    Separated  \* those with a line separator (U+2028, U+0085) in a text

VARIABLES
    text,     \* the file: the writes, in order
    writing,  \* the event each process has written the first half of, or Idle
    tried,    \* history: the events handed to emit_event
    emitted   \* history: those for which it returned

eventVars == <<text, writing, tried, emitted>>

Idle == "idle"

EventLogInit ==
    /\ text = <<>>
    /\ writing = [p \in Emitter |-> Idle]
    /\ tried = {} /\ emitted = {}

-----------------------------------------------------------------------------
\* A write: all of a line, its first half, its second half, a part of it that
\* parses to nothing, or all of it but the newline.
Piece(e, what) == [event |-> e, what |-> what]

Write(e, what) == text' = Append(text, Piece(e, what))

New(p, e) == writing[p] = Idle /\ e \notin tried /\ tried' = tried \cup {e}

\* An invalid field raises before the file is opened.
Refuse(p, e) == New(p, e) /\ e \in Invalid /\ UNCHANGED <<text, writing, emitted>>

\* emit_event in one write.
Emit(p, e) ==
    /\ New(p, e) /\ e \notin Invalid \cup Long
    /\ Write(e, "line")
    /\ emitted' = emitted \cup {e}
    /\ UNCHANGED writing

EmitHead(p, e) ==
    /\ New(p, e) /\ e \in Long \ Invalid
    /\ Write(e, "head")
    /\ writing' = [writing EXCEPT ![p] = e]
    /\ UNCHANGED emitted

EmitRest(p) ==
    /\ writing[p] # Idle
    /\ Write(writing[p], "rest")
    /\ emitted' = emitted \cup {writing[p]}
    /\ writing' = [writing EXCEPT ![p] = Idle]
    /\ UNCHANGED tried

\* The disk is full or the process dies: a part of the write reaches the file,
\* or nothing does.
EmitCutShort(p, e) ==
    /\ New(p, e) /\ e \notin Invalid
    /\ UNCHANGED text \/ Write(e, "part") \/ (e \notin Long /\ Write(e, "record"))
    /\ UNCHANGED <<writing, emitted>>

RestCutShort(p) ==
    /\ writing[p] # Idle
    /\ UNCHANGED text \/ Write(writing[p], "part") \/ Write(writing[p], "unended")
    /\ writing' = [writing EXCEPT ![p] = Idle]
    /\ UNCHANGED <<tried, emitted>>

EventLogNext ==
    \E p \in Emitter :
        \/ \E e \in Event : Refuse(p, e) \/ Emit(p, e) \/ EmitHead(p, e) \/ EmitCutShort(p, e)
        \/ EmitRest(p) \/ RestCutShort(p)

EventLogSpec == EventLogInit /\ [][EventLogNext]_eventVars

-----------------------------------------------------------------------------
(* read_events *)

StartsLine(i) == i = 1 \/ text[i - 1].what \in {"line", "rest"}

\* The writes from i to j make one record: a whole line, or the two halves of
\* one, which may lack the newline at the end of the file.
MakeRecord(i, j) ==
    /\ StartsLine(i)
    /\ text[i].event = text[j].event
    /\ text[i].event \notin Separated
    /\ LET whole == <<text[i].what, text[j].what>>
       IN  \/ i = j /\ whole[1] = "line"
           \/ i + 1 = j /\ whole = <<"head", "rest">>
           \/ j = Len(text) /\ i = j /\ whole[1] = "record"
           \/ j = Len(text) /\ i + 1 = j /\ whole = <<"head", "unended">>

\* Bug: lines that do not parse are passed over.
ReadableInPart == TRUE

\* splitlines() and json.loads succeed for every line.
Readable == \A k \in DOMAIN text : \E i, j \in {k - 1, k, k + 1} \cap DOMAIN text :
                i <= k /\ k <= j /\ MakeRecord(i, j)

\* What read_events returns, when it does not raise.
EventsRead == { text[i].event : i \in { k \in DOMAIN text :
                    \E j \in {k, k + 1} \cap DOMAIN text : MakeRecord(k, j) } }

-----------------------------------------------------------------------------
(* Property *)

\* However the writes of the processes mix and are cut short: if read_events does
\* not raise, it returns every event whose emit_event returned, and none that
\* was refused.
EventsCompleteOrLoud ==
    Readable => emitted \subseteq EventsRead /\ EventsRead \subseteq tried \ Invalid
=============================================================================
