-------------------------------- MODULE Rows --------------------------------
(***************************************************************************)
(* The data of the log_entries table, reduced to the columns that the      *)
(* properties tell apart: the raw line (its blake3 hash is the UNIQUE key; *)
(* distinct raw lines have distinct hashes), the timestamp and the tag.    *)
(***************************************************************************)
EXTENDS Integers

CONSTANTS Raw,     \* raw source lines
          Time,    \* timestamps, ordered as the TEXT column orders them
          NoTime,  \* Option::None of LogEntry::timestamp
          Tag,     \* tag strings
          NoTag    \* Option::None of LogEntry::tag, SQL NULL

ASSUME RowsAssumption ==
    /\ Time \subseteq Int
    /\ NoTime \notin Time
    /\ NoTag \notin Tag

\* What a parser hands over for one line.
Entry == [raw : Raw, ts : Time \cup {NoTime}, tag : Tag \cup {NoTag}]

\* What the table stores: timestamp is NOT NULL.
Row == [raw : Raw, ts : Time, tag : Tag \cup {NoTag}]

Raws(S) == {r.raw : r \in S}

UniqueRaws(S) == \A r, s \in S : r.raw = s.raw => r = s

\* The rows that DELETE ... WHERE timestamp < cutoff leaves in S.
NotOlder(S, cutoff) == {r \in S : ~(r.ts < cutoff)}
=============================================================================
