------------------------------ MODULE LogIndex ------------------------------
(***************************************************************************)
(* What the index promises to its callers: a set of rows with at most one  *)
(* row per raw line, changed only by calls that take effect at one instant *)
(* or not at all.  A caller asks for a chunk of entries to be stored, or   *)
(* for the rows older than a cutoff to be deleted; the call stays pending  *)
(* until it is applied or abandoned (a busy database, a crash).            *)
(***************************************************************************)
EXTENDS Rows

CONSTANT Proc

VARIABLES rows,   \* the set of rows of the index
          call    \* call[p]: what process p has asked for

vars == <<rows, call>>

Idle == [op |-> "idle"]
InsertCall == [op : {"insert"}, chunk : SUBSET Row]
PruneCall == [op : {"prune"}, cutoff : Time]

Init ==
    /\ rows \in SUBSET Row
    /\ UniqueRaws(rows)
    /\ call = [p \in Proc |-> Idle]

Ask(p) ==
    /\ call[p] = Idle
    /\ call'[p] \in InsertCall \cup PruneCall
    /\ call' = [call EXCEPT ![p] = call'[p]]
    /\ UNCHANGED rows

\* The whole chunk becomes visible: every raw line of it has a row, rows that
\* were there keep their contents (the first ingestion of a line wins), and
\* nothing that was not asked for appears.
ApplyInsert(p) ==
    /\ call[p] \in InsertCall
    /\ rows \subseteq rows'
    /\ rows' \ rows \subseteq call[p].chunk
    /\ Raws(rows') = Raws(rows) \cup Raws(call[p].chunk)
    /\ UniqueRaws(rows')
    /\ call' = [call EXCEPT ![p] = Idle]

ApplyPrune(p) ==
    /\ call[p] \in PruneCall
    /\ rows' = NotOlder(rows, call[p].cutoff)
    /\ call' = [call EXCEPT ![p] = Idle]

Abandon(p) ==
    /\ call[p] # Idle
    /\ call' = [call EXCEPT ![p] = Idle]
    /\ UNCHANGED rows

Next == \E p \in Proc : Ask(p) \/ ApplyInsert(p) \/ ApplyPrune(p) \/ Abandon(p)

Spec == Init /\ [][Next]_vars
=============================================================================
