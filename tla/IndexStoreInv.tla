--------------------------- MODULE IndexStoreInv ----------------------------
(***************************************************************************)
(* The inductive invariant of IndexStore, in named parts.                  *)
(***************************************************************************)
EXTENDS IndexStoreProps

Writer(p) == lock[p] \in Writing

\* Cardinality is a number only for finite sets.
FiniteInv ==
    /\ IsFiniteSet(table)
    /\ IsFiniteSet(saved)
    /\ \A p \in Proc : IsFiniteSet(image[p])

\* At most one writer; the owner of EXCLUSIVE is alone; a journal next to a
\* living lock holder is that of the owner, who has written its image back.
LockInv ==
    /\ \A p, q \in Proc : Writer(p) /\ Writer(q) => p = q
    /\ \A p, q \in Proc : lock[p] = "exclusive" /\ q # p => lock[q] = "none"
    /\ journal = "present" =>
         \A p \in Proc : lock[p] # "none" => lock[p] = "exclusive" /\ table = image[p]

\* Who holds which lock where.
PlaceOK(p) ==
    /\ lock[p] = "shared" => pc[p] \in Reading
    /\ Writer(p) => \/ p \in Ingesters /\ pc[p] = "insert"
                    \/ p \in Pruners /\ pc[p] \in {"delete", "commit", "vacuum", "compact"}
    /\ pc[p] \in {"commit", "compact"} => Writer(p)
    /\ pc[p] \in {"delete", "vacuum"} => lock[p] \in {"none", "reserved"}
    /\ p \in Ingesters /\ lock[p] \in {"pending", "exclusive"} => cur[p] = ChunkEnd(p)

\* The counters that walk through a batch.
BatchOK(i) ==
    /\ stored[i] <= cur[i]
    /\ cur[i] <= Len(batch[i])
    /\ pc[i] = "insert" => cur[i] <= ChunkEnd(i)
    /\ pc[i] \in {"open", "collect", "batch"} => cur[i] = stored[i]
    /\ pc[i] \in {"open", "collect"} => stored[i] = 0

\* img is what INSERT OR IGNORE makes of base with the rows of a chunk: base is
\* kept, each raw line of the chunk has a row, the chunk's unless it was taken.
Extends(img, base, rows) ==
    /\ base \subseteq img
    /\ img \ base \subseteq rows
    /\ Raws(img) = Raws(base) \cup Raws(rows)
    /\ UniqueRaws(img)

\* The image of an ingester accounts for the entries handled so far.
IngestImage(i) ==
    /\ Writer(i) => Extends(image[i], Committed, ChunkRows(i, cur[i]))
    /\ pc[i] = "insert" /\ lock[i] = "none" => ChunkRows(i, cur[i]) = {}

\* The image of a pruner: the committed rows, after the DELETE without the old ones.
PruneImage(q) ==
    Writer(q) =>
        image[q] = IF pc[q] = "commit" THEN NotOlder(Committed, Cutoff[q]) ELSE Committed

ProcOK(p) ==
    /\ PlaceOK(p)
    /\ p \in Ingesters => BatchOK(p) /\ IngestImage(p)
    /\ p \in Pruners => PruneImage(p)

StoreInv ==
    /\ LockInv
    /\ UniqueRaws(Committed)
    /\ \A p \in Proc : ProcOK(p)

IInv == TypeOK /\ FiniteInv /\ StoreInv
-----------------------------------------------------------------------------
(* What ingest has done with the lines it has read.                        *)

\* Raw lines of the entries that are still on the way to a committed chunk.
Waiting(i) ==
    {batch[i][k].raw : k \in {n \in stored[i] + 1 .. Len(batch[i]) : batch[i][n].ts # NoTime}}

LinesKept(i) ==
    /\ pos[i] <= Len(Source[i])
    /\ \A k \in Timestamped(i) : k <= pos[i] => Source[i][k].raw \in acked[i] \cup Waiting(i)
    /\ pc[i] = "done" => pos[i] = Len(Source[i]) /\ batch[i] = <<>>

Counted(tally) == tally.inserted + tally.deduplicated + tally.skipped

NonBlank(i, last) == {k \in 1 .. last : Source[i][k] # Blank}

\* The places of an ingest at which no chunk is in progress.
Resting == {"open", "collect", "batch", "done"}

\* Every line read is in a finished chunk's counters, in those of the chunk in
\* progress, malformed, or an entry of the batch that is not handled yet.
LinesCounted(i) ==
    /\ Counted(total[i]) + Counted(stats[i]) + malformed[i] + (Len(batch[i]) - cur[i])
          = Cardinality(NonBlank(i, pos[i]))
    /\ pc[i] \in Resting => stats[i] = Zero

\* The open transaction has as many new rows as the chunk's counter says.
RowsCounted(i) ==
    /\ total[i].inserted = credited[i]
    /\ Writer(i) => stats[i].inserted = Cardinality(image[i]) - Cardinality(Committed)
    /\ pc[i] = "insert" /\ lock[i] = "none" => stats[i].inserted = 0

Accounts == \A i \in Ingesters : LinesKept(i) /\ LinesCounted(i) /\ RowsCounted(i)

\* A statistics answer, statement by statement, while nothing has been pruned.
AnswerOK(r) ==
    /\ pc[r] \in {"range", "tags", "done"} => answer[r].entries <= Cardinality(Committed)
    /\ pc[r] \in {"tags", "done"} /\ answer[r].entries > 0 => answer[r].min # NoTime
    /\ pc[r] = "done" => /\ answer[r].tags \subseteq Tags(Committed)
                         /\ answer[r].entries > 0 => answer[r].tags # {}

Answers == gone = {} => \A r \in Readers : AnswerOK(r)
=============================================================================
