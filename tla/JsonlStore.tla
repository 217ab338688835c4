------------------------------ MODULE JsonlStore ------------------------------
(***************************************************************************)
(* The append-only JSONL file of kernel/jsonl_store.py, with one writer:   *)
(* append writes a line, flushes and syncs it; iteration yields the        *)
(* records in order and raises at the first line that does not parse.      *)
(*                                                                         *)
(* A line is the record it parses to, or Garbage.  What follows the last   *)
(* newline is `tail`: usually nothing, but a write that was cut short      *)
(* leaves part of a record there, or a whole record without its newline,   *)
(* and the next append continues that very line.                           *)
(***************************************************************************)
EXTENDS Sequences, Naturals

CONSTANTS
    Record,   \* what is appended
    Garbage,  \* a line that does not parse
    Nothing,  \* no text after the last newline
    Partial,  \* text after the last newline that does not parse
    MaxLines  \* bound: lines of the file

ASSUME StoreAssumption ==
    /\ {Garbage, Nothing, Partial} \cap Record = {}
    /\ MaxLines \in Nat

VARIABLES
    file,  \* [lines, tail]
    acked  \* history: the record of each append that returned, and its place

storeVars == <<file, acked>>

EmptyFile == [lines |-> <<>>, tail |-> Nothing]

StoreInit == file = EmptyFile /\ acked = {}

-----------------------------------------------------------------------------
Has(s, x) == \E i \in DOMAIN s : s[i] = x

\* Iterating over the file ends in ValueError.
Raises(f) == Has(f.lines, Garbage) \/ f.tail = Partial

\* What iterating over the file yields.
Records(f) == IF f.tail \in {Nothing, Partial} THEN f.lines ELSE Append(f.lines, f.tail)

\* Bug: the file is opened with "w".
Rewritten(f, r) == [lines |-> <<r>>, tail |-> Nothing]

\* The file after `line + "\n"` has been written at its end.
Written(f, r) ==
    [lines |-> Append(f.lines, IF f.tail = Nothing THEN r ELSE Garbage),
     tail  |-> Nothing]

\* Bug: the whole file is written again.
CutShortRewriting(f, r) == { EmptyFile, Written(f, r) }

\* The file after only a part of it has: nothing, some of the text, the whole
\* record but not the newline, or everything.
CutShort(f, r) ==
    { f,
      [lines |-> f.lines, tail |-> Partial],
      [lines |-> f.lines, tail |-> IF f.tail = Nothing THEN r ELSE Partial],
      Written(f, r) }

\* append returns.
AppendRecord(r) ==
    /\ Len(file.lines) < MaxLines
    /\ file' = Written(file, r)
    /\ acked' = acked \cup {[rec |-> r, at |-> Len(file'.lines)]}

\* append raises, or the process dies in it: the disk is full, the machine stops.
AppendCutShort(r) ==
    /\ Len(file.lines) < MaxLines
    /\ file' \in CutShort(file, r)
    /\ UNCHANGED acked

StoreNext == \E r \in Record : AppendRecord(r) \/ AppendCutShort(r)

StoreSpec == StoreInit /\ [][StoreNext]_storeVars

-----------------------------------------------------------------------------
(* Properties *)

StoreTypeOK ==
    /\ file \in [lines : Seq(Record \cup {Garbage}), tail : Record \cup {Nothing, Partial}]
    /\ acked \subseteq [rec : Record, at : 1 .. MaxLines]

\* "Silent corruption is worse than explicit failure": an iteration that does not
\* raise yields the record of every append that returned, in the place it had
\* then, whatever writes were cut short before and after.
CompleteOrLoud ==
    ~Raises(file) =>
        \A a \in acked : a.at \in DOMAIN Records(file) /\ Records(file)[a.at] = a.rec

\* Append-only: what an iteration has yielded, every later one that does not raise
\* yields again, in the same order.
PrefixStable ==
    [][~Raises(file) /\ ~Raises(file')
         => /\ Len(Records(file)) <= Len(Records(file'))
            /\ \A i \in DOMAIN Records(file) : Records(file')[i] = Records(file)[i]]_storeVars
=============================================================================
