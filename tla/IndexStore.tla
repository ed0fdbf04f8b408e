----------------------------- MODULE IndexStore -----------------------------
(***************************************************************************)
(* The logdive processes that share one index file:                        *)
(*   - ingesters: `logdive ingest`, which collects parsed lines into       *)
(*     batches and stores each batch in chunks, one transaction per chunk; *)
(*   - pruners: `logdive prune`, which counts, asks, deletes and vacuums;  *)
(*   - readers: `logdive stats` and GET /stats, three statements each.     *)
(* The index file exists and has its schema.  Any ingester or pruner may   *)
(* be killed at any step and its command may be run again.                 *)
(***************************************************************************)
EXTENDS Rows, SqliteFile, Sequences, FiniteSets

CONSTANTS
    Ingesters, Pruners, Readers,
    Malformed,     \* a line that parse_line rejects
    Blank,         \* a line of white space only
    Source,        \* Source[i]: the lines that i reads, as its parser sees them
    TagOption,     \* TagOption[i]: --tag, or NoTag
    StampNow,      \* StampNow[i]: is --timestamp-now given?
    Now,           \* the time --timestamp-now puts in
    BatchLines,    \* BatchLines[i]: BATCH of ingest_reader
    BatchSize,     \* BATCH_SIZE of the indexer
    Cutoff,        \* Cutoff[q]: the cutoff that q's flags resolve to
    InitialRows,   \* the content of the index to start from
    MayDie,        \* the processes that may be killed
    Timeouts,      \* may the 5 s busy timeout expire?
    MaxRuns        \* bound: how often one command is run

ASSUME StoreAssumption ==
    /\ Proc = Ingesters \cup Pruners \cup Readers
    /\ Ingesters \cap Pruners = {}
    /\ Ingesters \cap Readers = {}
    /\ Pruners \cap Readers = {}
    /\ ReadOnly \subseteq Readers
    /\ MayDie \subseteq Ingesters \cup Pruners
    /\ Malformed \notin Entry /\ Blank \notin Entry /\ Malformed # Blank
    /\ Source \in [Ingesters -> Seq(Entry \cup {Malformed, Blank})]
    /\ TagOption \in [Ingesters -> Tag \cup {NoTag}]
    /\ StampNow \in [Ingesters -> BOOLEAN]
    /\ Now \in Time
    /\ BatchLines \in [Ingesters -> Nat \ {0}]
    /\ BatchSize \in Nat \ {0}
    /\ Cutoff \in [Pruners -> Time]
    /\ InitialRows \subseteq Row /\ UniqueRaws(InitialRows)
    /\ IsFiniteSet(InitialRows)
    /\ Timeouts \in BOOLEAN
    /\ MaxRuns \in Nat \ {0}

VARIABLES
    pc,         \* pc[p]: where process p is
    pos,        \* pos[i]: lines read from the source
    batch,      \* batch[i]: entries handed to the insert_batch call
    stored,     \* stored[i]: entries of the batch in committed chunks
    cur,        \* cur[i]: entries of the batch handled so far
    stats,      \* stats[i]: counters of the chunk in progress
    total,      \* total[i]: counters of the finished chunks of this run
    malformed,  \* malformed[i]: rejected lines of this run
    count,      \* count[q]: the number shown in the confirmation prompt
    deleted,    \* deleted[q]: changes reported by the DELETE
    answer,     \* answer[r]: the statistics being put together
    runs,       \* runs[p]: times the command has been started
    acked,      \* history: raw lines in chunks that i has committed
    credited,   \* history: rows that i's run has added to the committed index
    gone        \* history: raw lines of rows that a prune has deleted

ingestVars == <<pos, batch, stored, cur, stats, total, malformed>>
historyVars == <<acked, credited, gone>>
vars == <<fileVars, pc, ingestVars, count, deleted, answer, runs, historyVars>>

Zero == [inserted |-> 0, deduplicated |-> 0, skipped |-> 0]
NoAnswer == [entries |-> 0, min |-> NoTime, max |-> NoTime, tags |-> {}]

Goto(p, where) == pc' = [pc EXCEPT ![p] = where]

Init ==
    /\ table = InitialRows
    /\ journal = "absent"
    /\ saved = {}
    /\ lock = [p \in Proc |-> "none"]
    /\ image = [p \in Proc |-> {}]
    /\ pc = [p \in Proc |-> IF p \in Readers THEN "idle" ELSE "open"]
    /\ pos = [i \in Ingesters |-> 0]
    /\ batch = [i \in Ingesters |-> <<>>]
    /\ stored = [i \in Ingesters |-> 0]
    /\ cur = [i \in Ingesters |-> 0]
    /\ stats = [i \in Ingesters |-> Zero]
    /\ total = [i \in Ingesters |-> Zero]
    /\ malformed = [i \in Ingesters |-> 0]
    /\ count = [q \in Pruners |-> 0]
    /\ deleted = [q \in Pruners |-> 0]
    /\ answer = [r \in Readers |-> NoAnswer]
    /\ runs = [p \in Proc |-> 1]
    /\ acked = [i \in Ingesters |-> {}]
    /\ credited = [i \in Ingesters |-> 0]
    /\ gone = {}

-----------------------------------------------------------------------------
(***************************************************************************)
(* Read statements: the schema check of Indexer::open, the count that      *)
(* prune shows and the three statements of stats.  Each one holds SHARED   *)
(* from its start to its end and nothing is held in between.               *)
(***************************************************************************)
Reading == {"open", "count", "range", "tags"}

BeginRead(p) ==
    /\ pc[p] \in Reading
    /\ AcquireShared(p)
    /\ UNCHANGED <<pc, ingestVars, count, deleted, answer, runs, historyVars>>

EndRead(p, stmt, next) ==
    /\ pc[p] = stmt
    /\ ReleaseShared(p)
    /\ Goto(p, next)
    /\ UNCHANGED <<ingestVars, runs, historyVars>>

EndOpen(p) ==
    /\ \/ p \in Ingesters /\ EndRead(p, "open", "collect")
       \/ p \notin Ingesters /\ EndRead(p, "open", "count")
    /\ UNCHANGED <<count, deleted, answer>>

-----------------------------------------------------------------------------
(* ingest                                                                  *)

Prepare(i, e) ==
    [raw |-> e.raw,
     ts |-> IF e.ts = NoTime /\ StampNow[i] THEN Now ELSE e.ts,
     tag |-> IF TagOption[i] # NoTag THEN TagOption[i] ELSE e.tag]

\* One turn of the loop over the lines of the source.
ReadLine(i) ==
    /\ pc[i] = "collect"
    /\ pos[i] < Len(Source[i])
    /\ Len(batch[i]) < BatchLines[i]
    /\ LET line == Source[i][pos[i] + 1]
       IN /\ batch' = IF line \in {Malformed, Blank}
                        THEN batch
                        ELSE [batch EXCEPT ![i] = Append(@, Prepare(i, line))]
          /\ malformed' = [malformed EXCEPT ![i] = IF line = Malformed THEN @ + 1 ELSE @]
    /\ pos' = [pos EXCEPT ![i] = @ + 1]
    /\ UNCHANGED <<fileVars, pc, stored, cur, stats, total, count, deleted, answer,
                   runs, historyVars>>

\* The batch is full, or the source is exhausted and something is left over.
HandOver(i) ==
    /\ pc[i] = "collect"
    /\ \/ Len(batch[i]) = BatchLines[i]
       \/ pos[i] = Len(Source[i]) /\ batch[i] # <<>>
    /\ Goto(i, "batch")
    /\ UNCHANGED <<fileVars, ingestVars, count, deleted, answer, runs, historyVars>>

\* Fault: the final partial batch is not flushed.
FinishWithoutFlush(i) ==
    /\ pc[i] = "collect"
    /\ pos[i] = Len(Source[i])
    /\ Goto(i, "done")
    /\ UNCHANGED <<fileVars, ingestVars, count, deleted, answer, runs, historyVars>>

Finish(i) ==
    /\ pc[i] = "collect"
    /\ pos[i] = Len(Source[i])
    /\ batch[i] = <<>>
    /\ Goto(i, "done")
    /\ UNCHANGED <<fileVars, ingestVars, count, deleted, answer, runs, historyVars>>

\* insert_batch: the next chunk (BEGIN DEFERRED takes no lock) ...
StartChunk(i) ==
    /\ pc[i] = "batch"
    /\ stored[i] < Len(batch[i])
    /\ Goto(i, "insert")
    /\ UNCHANGED <<fileVars, ingestVars, count, deleted, answer, runs, historyVars>>

\* ... or no chunk is left: the caller clears the batch and reads on.
FinishBatch(i) ==
    /\ pc[i] = "batch"
    /\ stored[i] = Len(batch[i])
    /\ Goto(i, "collect")
    /\ batch' = [batch EXCEPT ![i] = <<>>]
    /\ stored' = [stored EXCEPT ![i] = 0]
    /\ cur' = [cur EXCEPT ![i] = 0]
    /\ UNCHANGED <<fileVars, pos, stats, total, malformed, count, deleted, answer, runs,
                   historyVars>>

ChunkEnd(i) ==
    IF stored[i] + BatchSize <= Len(batch[i]) THEN stored[i] + BatchSize ELSE Len(batch[i])

\* The rows that the entries of the chunk up to position last stand for.
ChunkRows(i, last) ==
    {batch[i][k] : k \in {n \in stored[i] + 1 .. last : batch[i][n].ts # NoTime}}

Current(i) == batch[i][cur[i] + 1]

InChunk(i) == pc[i] = "insert" /\ cur[i] < ChunkEnd(i)

SkipEntry(i) ==
    /\ InChunk(i)
    /\ Current(i).ts = NoTime
    /\ stats' = [stats EXCEPT ![i].skipped = @ + 1]
    /\ cur' = [cur EXCEPT ![i] = @ + 1]
    /\ UNCHANGED <<fileVars, pc, pos, batch, stored, total, malformed, count, deleted,
                   answer, runs, historyVars>>

\* The first entry with a timestamp makes the transaction a writer.
BecomeWriter(i) ==
    /\ InChunk(i)
    /\ Current(i).ts # NoTime
    /\ AcquireReserved(i)
    /\ UNCHANGED <<pc, ingestVars, count, deleted, answer, runs, historyVars>>

\* Fault: an entry without a timestamp is inserted like any other.
InsertUntimed(i) ==
    /\ InChunk(i)
    /\ Modify(i, image[i] \cup {Current(i)})
    /\ stats' = [stats EXCEPT ![i].inserted = @ + 1]
    /\ cur' = [cur EXCEPT ![i] = @ + 1]
    /\ UNCHANGED <<pc, pos, batch, stored, total, malformed, count, deleted, answer, runs,
                   historyVars>>

\* Fault: a plain INSERT into a table without the UNIQUE constraint.
InsertAlways(i) ==
    /\ InChunk(i)
    /\ Current(i).ts # NoTime
    /\ Modify(i, image[i] \cup {Current(i)})
    /\ stats' = [stats EXCEPT ![i].inserted = @ + 1]
    /\ cur' = [cur EXCEPT ![i] = @ + 1]
    /\ UNCHANGED <<pc, pos, batch, stored, total, malformed, count, deleted, answer, runs,
                   historyVars>>

\* INSERT OR IGNORE: changes = 0 when the raw line has a row already.
InsertOrIgnore(i) ==
    /\ InChunk(i)
    /\ Current(i).ts # NoTime
    /\ \/ /\ Current(i).raw \notin Raws(image[i])
          /\ Modify(i, image[i] \cup {Current(i)})
          /\ stats' = [stats EXCEPT ![i].inserted = @ + 1]
       \/ /\ Current(i).raw \in Raws(image[i])
          /\ Modify(i, image[i])
          /\ stats' = [stats EXCEPT ![i].deduplicated = @ + 1]
    /\ cur' = [cur EXCEPT ![i] = @ + 1]
    /\ UNCHANGED <<pc, pos, batch, stored, total, malformed, count, deleted, answer, runs,
                   historyVars>>

Sum3(a, b) == [inserted |-> a.inserted + b.inserted,
               deduplicated |-> a.deduplicated + b.deduplicated,
               skipped |-> a.skipped + b.skipped]

\* Fault: the counters are not started anew for each chunk.
ReturnChunkTwice(i) ==
    /\ Goto(i, "batch")
    /\ stored' = [stored EXCEPT ![i] = cur[i]]
    /\ total' = [total EXCEPT ![i] = Sum3(@, stats[i])]
    /\ UNCHANGED stats
    /\ acked' = [acked EXCEPT ![i] = @ \cup Raws(ChunkRows(i, cur[i]))]

\* insert_one_chunk returns its counters and the callers add them up.  A later
\* error discards the sums of the run, which nobody sees then.
ReturnChunk(i) ==
    /\ Goto(i, "batch")
    /\ stored' = [stored EXCEPT ![i] = cur[i]]
    /\ total' = [total EXCEPT ![i] = Sum3(@, stats[i])]
    /\ stats' = [stats EXCEPT ![i] = Zero]
    /\ acked' = [acked EXCEPT ![i] = @ \cup Raws(ChunkRows(i, cur[i]))]

\* Fault: the transaction goes out of scope without a commit.
CommitForgotten(i) ==
    /\ pc[i] = "insert"
    /\ cur[i] = ChunkEnd(i)
    /\ lock[i] = "reserved"
    /\ Drop(i)
    /\ ReturnChunk(i)
    /\ UNCHANGED <<pos, batch, cur, malformed, count, deleted, answer, runs, credited, gone>>

CommitChunk(i) ==
    /\ pc[i] = "insert"
    /\ cur[i] = ChunkEnd(i)
    /\ DeleteJournal(i)
    /\ ReturnChunk(i)
    /\ credited' = [credited EXCEPT ![i] = @ + Cardinality(table) - Cardinality(saved)]
    /\ UNCHANGED <<pos, batch, cur, malformed, count, deleted, answer, runs, gone>>

\* No entry of the chunk had a timestamp: COMMIT has nothing to write.
CommitNothing(i) ==
    /\ pc[i] = "insert"
    /\ cur[i] = ChunkEnd(i)
    /\ lock[i] = "none"
    /\ ReturnChunk(i)
    /\ UNCHANGED <<fileVars, pos, batch, cur, malformed, count, deleted, answer, runs,
                   credited, gone>>

-----------------------------------------------------------------------------
(* prune                                                                   *)

Doomed(q, S) == {r \in S : r.ts < Cutoff[q]}

\* Fault: the statement that counted is not finalised before the prompt.
EndPruneCountOpen(q) ==
    /\ q \in Pruners
    /\ pc[q] = "count"
    /\ lock[q] = "shared"
    /\ count' = [count EXCEPT ![q] = Cardinality(Doomed(q, table))]
    /\ Goto(q, IF Doomed(q, table) = {} THEN "done" ELSE "confirm")
    /\ UNCHANGED <<fileVars, ingestVars, runs, historyVars, deleted, answer>>

EndPruneCount(q) ==
    /\ q \in Pruners
    /\ count' = [count EXCEPT ![q] = Cardinality(Doomed(q, table))]
    /\ EndRead(q, "count", IF Doomed(q, table) = {} THEN "done" ELSE "confirm")
    /\ UNCHANGED <<deleted, answer>>

\* --yes, or the user's answer to the prompt.
Confirm(q) ==
    /\ pc[q] = "confirm"
    /\ Goto(q, "delete") \/ Goto(q, "done")
    /\ UNCHANGED <<fileVars, ingestVars, count, deleted, answer, runs, historyVars>>

\* DELETE and VACUUM are two transactions of their own.
BeginStatement(q) ==
    /\ pc[q] \in {"delete", "vacuum"}
    /\ AcquireReserved(q)
    /\ UNCHANGED <<pc, ingestVars, count, deleted, answer, runs, historyVars>>

\* Fault: rows as old as the cutoff are deleted too.
DeleteCutoffToo(q) ==
    /\ pc[q] = "delete"
    /\ Modify(q, {r \in image[q] : r.ts > Cutoff[q]})
    /\ deleted' = [deleted EXCEPT ![q] = Cardinality(image[q]) - Cardinality(image'[q])]
    /\ Goto(q, "commit")
    /\ UNCHANGED <<ingestVars, count, answer, runs, historyVars>>

Delete(q) ==
    /\ pc[q] = "delete"
    /\ Modify(q, NotOlder(image[q], Cutoff[q]))
    /\ deleted' = [deleted EXCEPT ![q] = Cardinality(Doomed(q, image[q]))]
    /\ Goto(q, "commit")
    /\ UNCHANGED <<ingestVars, count, answer, runs, historyVars>>

\* VACUUM rebuilds the file with the same rows.
Vacuum(q) ==
    /\ pc[q] = "vacuum"
    /\ Modify(q, image[q])
    /\ Goto(q, "compact")
    /\ UNCHANGED <<ingestVars, count, deleted, answer, runs, historyVars>>

CommitDelete(q) ==
    /\ pc[q] = "commit"
    /\ DeleteJournal(q)
    /\ Goto(q, "vacuum")
    /\ gone' = gone \cup (Raws(saved) \ Raws(table))
    /\ UNCHANGED <<ingestVars, count, deleted, answer, runs, acked, credited>>

CommitVacuum(q) ==
    /\ pc[q] = "compact"
    /\ DeleteJournal(q)
    /\ Goto(q, "done")
    /\ UNCHANGED <<ingestVars, count, deleted, answer, runs, historyVars>>

-----------------------------------------------------------------------------
(* COMMIT of a transaction that has written                                *)

ReadyToCommit(p) ==
    \/ p \in Ingesters /\ pc[p] = "insert" /\ cur[p] = ChunkEnd(p)
    \/ pc[p] \in {"commit", "compact"}

CommitStep(p) ==
    /\ ReadyToCommit(p)
    /\ AcquirePending(p) \/ AcquireExclusive(p) \/ WriteBack(p)
    /\ UNCHANGED <<pc, ingestVars, count, deleted, answer, runs, historyVars>>

-----------------------------------------------------------------------------
(* stats: the row count, then MIN and MAX, then the distinct tags               *)

\* A CLI command opens the index read-write and checks the schema; a request
\* to the API opens it read-only and does not.
Request(r) ==
    /\ pc[r] \in {"idle", "done", "failed"}
    /\ Goto(r, IF r \in ReadOnly THEN "count" ELSE "open")
    /\ answer' = [answer EXCEPT ![r] = NoAnswer]
    /\ UNCHANGED <<fileVars, ingestVars, count, deleted, runs, historyVars>>

EndCount(r) ==
    /\ r \in Readers
    /\ EndRead(r, "count", "range")
    /\ answer' = [answer EXCEPT ![r].entries = Cardinality(table)]
    /\ UNCHANGED <<count, deleted>>

\* MIN and MAX are NULL over no rows.
EndRange(r) ==
    /\ EndRead(r, "range", "tags")
    /\ \/ table = {} /\ UNCHANGED answer
       \/ \E lo, hi \in {row.ts : row \in table} :
            /\ \A row \in table : lo <= row.ts /\ row.ts <= hi
            /\ answer' = [answer EXCEPT ![r].min = lo, ![r].max = hi]
    /\ UNCHANGED <<count, deleted>>

EndTags(r) ==
    /\ EndRead(r, "tags", "done")
    /\ answer' = [answer EXCEPT ![r].tags = {row.tag : row \in table}]
    /\ UNCHANGED <<count, deleted>>

-----------------------------------------------------------------------------
(* errors, crashes and reruns                                              *)

\* What p waits for is held by somebody else.
Blocked(p) ==
    \/ pc[p] \in Reading /\ lock[p] = "none" /\ ~CanShare
    \/ /\ p \in Ingesters /\ InChunk(p) /\ Current(p).ts # NoTime
       /\ lock[p] = "none" /\ ~CanReserve
    \/ pc[p] \in {"delete", "vacuum"} /\ lock[p] = "none" /\ ~CanReserve
    \/ lock[p] = "pending" /\ ~CanOwn(p)

\* An error ends the command (or the request): the transaction is dropped, which
\* rolls it back, and the process exits.
Fail(p) ==
    /\ Drop(p)
    /\ Goto(p, "failed")
    /\ UNCHANGED <<ingestVars, count, deleted, answer, runs, historyVars>>

BusyTimeout(p) ==
    /\ Timeouts
    /\ Blocked(p)
    /\ Fail(p)

\* SQLITE_READONLY_ROLLBACK
CannotRecover(p) ==
    /\ pc[p] \in Reading
    /\ lock[p] = "none"
    /\ CanShare
    /\ ~MayRead(p)
    /\ Fail(p)

Die(p) ==
    /\ p \in MayDie
    /\ pc[p] \notin {"done", "failed", "killed"}
    /\ Drop(p)
    /\ Goto(p, "killed")
    /\ UNCHANGED <<ingestVars, count, deleted, answer, runs, historyVars>>

\* The user runs the same command again.
Rerun(p) ==
    /\ p \in Ingesters \cup Pruners
    /\ pc[p] \in {"done", "failed", "killed"}
    /\ runs[p] < MaxRuns
    /\ runs' = [runs EXCEPT ![p] = @ + 1]
    /\ Goto(p, "open")
    /\ IF p \in Ingesters
         THEN /\ pos' = [pos EXCEPT ![p] = 0]
              /\ batch' = [batch EXCEPT ![p] = <<>>]
              /\ stored' = [stored EXCEPT ![p] = 0]
              /\ cur' = [cur EXCEPT ![p] = 0]
              /\ stats' = [stats EXCEPT ![p] = Zero]
              /\ total' = [total EXCEPT ![p] = Zero]
              /\ malformed' = [malformed EXCEPT ![p] = 0]
              /\ credited' = [credited EXCEPT ![p] = 0]
              /\ UNCHANGED <<count, deleted>>
         ELSE /\ count' = [count EXCEPT ![p] = 0]
              /\ deleted' = [deleted EXCEPT ![p] = 0]
              /\ UNCHANGED <<ingestVars, credited>>
    /\ UNCHANGED <<fileVars, answer, acked, gone>>

-----------------------------------------------------------------------------
IngestStep(i) ==
    \/ ReadLine(i) \/ HandOver(i) \/ Finish(i)
    \/ StartChunk(i) \/ FinishBatch(i)
    \/ SkipEntry(i) \/ BecomeWriter(i) \/ InsertOrIgnore(i)
    \/ CommitChunk(i) \/ CommitNothing(i)

PruneStep(q) ==
    \/ EndPruneCount(q) \/ BeginStatement(q)
    \/ Delete(q) \/ Vacuum(q)
    \/ CommitDelete(q) \/ CommitVacuum(q)

StatsStep(r) == EndCount(r) \/ EndRange(r) \/ EndTags(r) \/ CannotRecover(r)

\* The steps a process takes on its own.
Step(p) ==
    \/ BeginRead(p) \/ EndOpen(p) \/ CommitStep(p)
    \/ p \in Ingesters /\ IngestStep(p)
    \/ p \in Pruners /\ PruneStep(p)
    \/ p \in Readers /\ StatsStep(p)

Next ==
    \E p \in Proc :
        \/ Step(p)
        \/ p \in Readers /\ Request(p)
        \/ p \in Pruners /\ Confirm(p)
        \/ BusyTimeout(p) \/ Die(p) \/ Rerun(p)

Spec == Init /\ [][Next]_vars

\* The operating system runs every process that can run.  The user (who may never
\* answer the prompt), kills and the expiry of the busy timeout are under no
\* fairness.
FairSpec == Spec /\ \A p \in Proc : WF_vars(Step(p))
=============================================================================
