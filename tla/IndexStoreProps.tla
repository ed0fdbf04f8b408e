-------------------------- MODULE IndexStoreProps ---------------------------
(***************************************************************************)
(* What must hold of the processes of IndexStore.                          *)
(***************************************************************************)
EXTENDS IndexStore

Tally == [inserted : Nat, deduplicated : Nat, skipped : Nat]
Answer == [entries : Nat, min : Time \cup {NoTime}, max : Time \cup {NoTime},
           tags : SUBSET (Tag \cup {NoTag})]

IngestLabels == {"open", "collect", "batch", "insert", "done", "failed", "killed"}
PruneLabels == {"open", "count", "confirm", "delete", "commit", "vacuum", "compact",
                "done", "failed", "killed"}
ReadLabels == {"idle", "open", "count", "range", "tags", "done", "failed"}

FileTypeOK ==
    /\ table \in SUBSET Row
    /\ journal \in {"absent", "present"}
    /\ saved \in SUBSET Row
    /\ lock \in [Proc -> Lock]
    /\ image \in [Proc -> SUBSET Row]

PcTypeOK ==
    /\ pc \in [Proc -> IngestLabels \cup PruneLabels \cup ReadLabels]
    /\ \A i \in Ingesters : pc[i] \in IngestLabels
    /\ \A q \in Pruners : pc[q] \in PruneLabels
    /\ \A r \in Readers : pc[r] \in ReadLabels

IngestTypeOK ==
    /\ pos \in [Ingesters -> Nat]
    /\ batch \in [Ingesters -> Seq(Entry)]
    /\ stored \in [Ingesters -> Nat]
    /\ cur \in [Ingesters -> Nat]
    /\ stats \in [Ingesters -> Tally]
    /\ total \in [Ingesters -> Tally]
    /\ malformed \in [Ingesters -> Nat]

ReportTypeOK ==
    /\ count \in [Pruners -> Nat]
    /\ deleted \in [Pruners -> Nat]
    /\ answer \in [Readers -> Answer]
    /\ runs \in [Proc -> Nat]

HistoryTypeOK ==
    /\ acked \in [Ingesters -> SUBSET Raw]
    /\ credited \in [Ingesters -> Int]
    /\ gone \in SUBSET Raw

\* Every variable stays in its type, pc of each kind of process in its own labels,
\* and only rows with a timestamp get into the table or a transaction.
TypeOK == FileTypeOK /\ PcTypeOK /\ IngestTypeOK /\ ReportTypeOK /\ HistoryTypeOK

-----------------------------------------------------------------------------
(* Safety                                                                  *)

\* UNIQUE on raw_hash with INSERT OR IGNORE: however ingesters, prunes, kills
\* and reruns interleave, the index never holds two rows for one raw line, and
\* neither does the page content that a crash may leave to be recovered.
UniqueRaw == UniqueRaws(Committed) /\ UniqueRaws(table)

\* A chunk that insert_one_chunk has committed stays: every raw line of it is in
\* the index, or a prune has deleted its row since, whatever is killed later.
CommittedChunksStay ==
    \A i \in Ingesters : acked[i] \subseteq Raws(Committed) \cup gone

Timestamped(i) ==
    {k \in 1 .. Len(Source[i]) :
        Source[i][k] \notin {Malformed, Blank} /\ Prepare(i, Source[i][k]).ts # NoTime}

\* When `logdive ingest` ends well, no line of its source was dropped between
\* ingest_reader's batches and insert_batch's chunks: each line that parses and
\* has a timestamp went through a committed chunk.
CompleteIngest ==
    \A i \in Ingesters :
        pc[i] = "done" => {Source[i][k].raw : k \in Timestamped(i)} \subseteq acked[i]

\* The summary line of ingest is exact although chunk counters are summed up
\* through three levels: `inserted` is the number of rows this run has added to
\* the committed index, and at the end every line is in one counter (or blank).
SummaryIsExact ==
    \A i \in Ingesters :
        /\ total[i].inserted = credited[i]
        /\ pc[i] = "done" =>
             total[i].inserted + total[i].deduplicated + total[i].skipped + malformed[i]
                = Cardinality({k \in 1 .. Len(Source[i]) : Source[i][k] # Blank})

Tags(S) == {row.tag : row \in S}

\* An answer of stats is put together from three statements between which
\* others commit.  As long as nothing is pruned it is never ahead of the index,
\* and a later statement never behind an earlier one: entries that were counted
\* have timestamps and tags in the same answer.
AnswerIsBehind ==
    gone = {} =>
        \A r \in Readers : pc[r] = "done" =>
            /\ answer[r].entries <= Cardinality(Committed)
            /\ answer[r].tags \subseteq Tags(Committed)
            /\ answer[r].entries > 0 => answer[r].min # NoTime /\ answer[r].tags # {}

-----------------------------------------------------------------------------
(* Refinement                                                              *)

\* The call that a process has in progress: the chunk of a transaction from its
\* BEGIN to its COMMIT, the DELETE of a confirmed prune.
PendingCall(p) ==
    IF p \in Ingesters /\ pc[p] = "insert"
      THEN [op |-> "insert", chunk |-> ChunkRows(p, ChunkEnd(p))]
    ELSE IF p \in Pruners /\ pc[p] \in {"delete", "commit"}
      THEN [op |-> "prune", cutoff |-> Cutoff[p]]
    ELSE [op |-> "idle"]

LI == INSTANCE LogIndex WITH rows <- Committed, call <- [p \in Proc |-> PendingCall(p)]

\* The processes implement the atomic index: each chunk is stored as a whole or
\* not at all, the first row of a raw line is never overwritten, a prune removes
\* exactly the rows older than the cutoff its user confirmed.
ImplementsLogIndex == LI!Spec

-----------------------------------------------------------------------------
(* Liveness                                                                *)

Ended(p) == pc[p] \in {"done", "failed", "killed"}

\* With no busy timeout expiring, every ingest that is running comes to its end:
\* deferred transactions and the statements of prune and stats never wait for
\* each other in a circle ("one process waits while the other commits").
IngestsEnd == \A i \in Ingesters : pc[i] # "done" ~> Ended(i)

\* Readers that keep coming do not keep a writer from its commit.
WritersCommit == \A p \in Proc : lock[p] = "pending" ~> lock[p] # "pending"
=============================================================================
