# Verification of logdive in TLA+

logdive (v0.3.1) ingests log lines into one SQLite file and answers queries
over it, from a CLI and from a read-only HTTP server.  This directory holds
TLA+ models of its parts, the TLC configurations that check them on small
instances and proofs, checked by TLAPS, of theorems for every value of the
constants.  Paths below are relative to `src/`.

Contents: [inventory](#inventory) · [plan](#plan) · [modules](#modules-and-code) ·
[runs](#runs) · [fairness](#fairness) · [proofs](#proofs) ·
[disagreements](#where-documentation-and-code-disagree) ·
[limits](#what-is-not-modelled)

## Inventory

| Part | Code | State it keeps | Operations | Status |
|---|---|---|---|---|
| Index | `crates/core/src/indexer.rs` | the table `log_entries` in one SQLite file shared by all processes; `raw_hash` is UNIQUE | `open` with directory, file and schema, `open_read_only`, `insert_batch` (one transaction per chunk of `BATCH_SIZE`), `prune` (DELETE, VACUUM), `stats` (three SELECTs) | modelled |
| One-shot ingest | `crates/cli/src/main.rs` 180-293 | batch of at most 1000 entries, totals, malformed count | read a line, parse, stamp, tag, hand a batch over, summary | modelled, except a line that is not UTF-8 |
| Prune | `crates/cli/src/prune_cmd.rs` | cutoff, count shown to the user | resolve cutoff, count, confirm, delete | modelled, except malformed texts of a cutoff |
| Stats | `crates/cli/src/stats_cmd.rs`, `crates/api/src/handlers.rs` 166-184 | the answer being put together | three reads | modelled |
| File tailer | `crates/core/src/follow.rs` | open handle with its inode, offset, partial line | `open`, `read_new_lines`, `handle_rotation` | modelled |
| Follow loop | `crates/cli/src/main.rs` 306-407 | event channel, stop flag, totals, event count | wait for event or timeout, drain, store, stop | modelled |
| Query language | `crates/core/src/query.rs` | cursor over bytes, then over tokens | tokenize, recursive descent | modelled |
| Executor | `crates/core/src/executor.rs` | none (builds one SELECT) | translate to WHERE, JSON paths, LIKE patterns, cutoffs, LIMIT/OFFSET, run | modelled |
| Line parsers | `crates/core/src/parsers/` | scanner position | JSON, logfmt, plain | modelled; JSON from the value that serde_json reads |
| HTTP API | `crates/api/src/` | path of the index; a fresh read-only connection per request on the blocking pool | `/query`, `/stats`, `/version`, status of every error, panics | modelled |
| API start and shutdown | `crates/api/src/main.rs` | listener, CORS layer, connections | origins, `ensure_index_exists`, router, address, bind, signals, drain, health check | modelled |
| Commands | `crates/cli/src/main.rs` | arguments, output, exit code | from the arguments to the exit code | modelled |
| Rendering | `crates/cli/src/render.rs`, `stats_cmd.rs` | rows written so far | a line per row, a row as JSON, separators of a count | partly: no colours |
| Landing page, docs, examples, container files | `landing/`, ... | — | — | not modelled: no program logic |

**How the parts meet.**  Everything meets in the index file.  A CLI command and
each HTTP request open it on their own; there is no server process in between
and no locking beyond SQLite's (rollback journal, since `journal_mode` is never
set, and rusqlite's default busy timeout of 5 s).  The follow loop calls the
tailer and hands its lines to the same `insert_batch` as one-shot ingest; the
tailer shares the log with the program that writes it and with logrotate, and
the loop shares a channel and a flag with the watcher's thread and the signal
handler.  A server creates an index that is missing, while commands
may be creating the same file.

**What is hard.**

- *Concurrency on the file.*  Transactions start deferred, so another process
  can commit between a chunk's BEGIN and its first INSERT; a COMMIT has to wait
  for readers; stats is three statements without a transaction; prune waits for
  its user between counting and deleting; the statements that make the schema
  are transactions of their own.
- *Failure.*  A process can be killed at every step, also while its commit
  writes pages back or in the middle of the schema; the next one rolls back,
  unless it is read-only and cannot.  A busy timeout ends a command after some
  of its chunks are stored, and the user runs it again.  A closure of a request
  panics; a reader closes the output, or a client stops reading an answer.  A file or
  its directory may not be written, or not be opened at all.
- *Ordering.*  A line reaches the tailer in pieces; rotations and truncations
  happen between any two of its system calls; events are missing, spurious, or
  about the old inode.  A signal comes at any moment of the start, of a request
  and of the shutdown.
- *Boundaries.*  Two nested batch sizes and a partial last batch; three levels
  of counters; cutoffs compared as text; saturating durations; limits and
  offsets of pages; the last character of an input.
- *Texts.*  The same line goes through a scanner, a hash, a JSON column, a path
  in a query, a LIKE pattern and an output that may be ingested again.

**What makes each part correct.**  Index: one row per raw line, chunks stored as
a whole or not at all and kept until pruned, nobody waits for ever; whoever opens
it has its whole schema.  Ingest: no line
lost between batches, an exact summary.  Prune: exactly the rows older than the
cutoff go.  Tailer: whole lines, in order, once, none skipped in what it reads.
Follow loop: whatever the tailer hands over is stored or the command ends, with
no gap; lines arrive without events; Ctrl-C ends it.  Query: the SELECT returns
what the grammar says the query means.  Parsers: a record becomes the same
entry in every format, and its fields are found by the queries that name them.
Server: what it has read it answers, with the right side to blame; it starts in
an order in which a healthy server can answer.  Commands: exit 0 means the whole
result is out.  `PROJECT.json` lists the hazards line by line with the
properties that would catch them.

## Plan

| Step | Modules | State |
|---|---|---|
| A. Processes over one index file | `Rows`, `SqliteFile`, `IndexStore`, abstract `LogIndex`, refinement, proofs | done |
| B. Following a file | `LogFile`, `FileTailer`, `WatchLoop`, `FollowProofs` | done: all its safety properties are theorems |
| C. Paging | `Paging`, `PagingProofs` | done: all its properties are theorems |
| D. Meaning of a query | `QueryLexer`, `QueryParser`, `QuerySql` against `QueryLexing`, `QueryTyping`, `QueryMeaning`, `QueryProofs` | done; `ParsedAsMeant` and `RefusedAtFault` are theorems |
| E. Times | `TimeBounds`, `TimeBoundsProofs` | done: all its properties but the refuted one are theorems |
| F. Texts | `Characters`, `TextTyping`, `Logfmt`, `LogLine`, `FieldLookup`, `LikePattern`, `Rendering`, `LineTyping`, `TextProofs`, `LineProofs` | done: all its properties are theorems |
| G. Life of the index and of the API | `IndexCreation`, `IndexCommands`, `ApiServer`, their proofs | done |
| H. What ingest and stats report | `IndexStoreProofs` | done: `CompleteIngest`, `SummaryIsExact` and `AnswerIsBehind` are theorems |

The modules are written to be proved about: sets and recursive functions instead
of RECURSIVE operators (which only `QuerySql` and `QueryMeaning` have), one
action per operation, assumptions on constants named where the constants are
declared, invariants as conjunctions of named parts.

## Modules and code

| Module | Models | Correspondence |
|---|---|---|
| `Rows` | entry and row | raw line, timestamp (NOT NULL in rows), tag; distinct raw lines have distinct hashes |
| `SqliteFile` | SQLite, external | pages, rollback journal, the four file locks, one private image per transaction; actions are the steps of a read, of a write and of a COMMIT, `Drop` is rollback or death |
| `IndexStore` | `logdive ingest`, `logdive prune`, `logdive stats`, `GET /stats` as processes | `pc[p]` is the statement a process is at; one action per turn of a loop, statement and commit step |
| `IndexStoreProps` | — | the properties, and the mapping to `LogIndex` |
| `LogIndex` | what callers may rely on | a set of rows changed by calls that take effect at once or never |
| `IndexStoreInv` | — | the inductive invariant |
| `IndexStoreProofs` | — | the theorems: types, safety, refinement, what is reported |
| `LogFile` | the log, its writer, logrotate, external | numbered bytes, inodes, a path that names one of them or none |
| `FileTailer`, `FileTailerProps` | `FileTailer` | one action per system call: open, seek, stat, reopen, read, last read with the split |
| `WatchLoop`, `WatchLoopProps` | `run_watch_loop`, `ingest_lines` | extends `FileTailer`; `loop` is the place in the function, `batch` the entries that `insert_batch` has not stored yet; the watcher's thread, the signal handler and the logger are actions of their own |
| `FollowProofs` | — | the theorems about the tailer, alone and in the loop: order and splits, whole lines and their completeness, and what is stored and counted |
| `QueryLexer` | `tokenize` | from a sequence of characters, by class, to the spans of tokens; the loop is a recursive function over the position |
| `Characters` | the classes of characters that the scanners tell apart | constants; numbers as digits |
| `TextTyping` | — | a user types a text character by character, or a record field by field, in one of several sessions |
| `QueryLexing` | — | what is true of the tokens of every input and of its continuations |
| `QueryParser` | `parse` and the methods of `Parser` | from tokens to a tree, or to the token at which the error is; one recursive function over the cursor and the level of the grammar |
| `QueryTyping` | — | a user types tokens by the documented grammar and knows what they mean; independent of `QueryParser` but for the constructors of clauses and the classes of tokens |
| `QueryProofs` | — | the theorems about the parser |
| `QuerySql` | `build_sql` and the `translate_*` functions; SQLite's evaluation of a condition, external | the condition is a sequence of symbols, the bound values another; `Selects` evaluates them on a row |
| `QueryMeaning` | — | the rows a typed query selects against the rows it means |
| `Paging` | LIMIT/OFFSET of `build_sql`, `handle_query`, `query_handler`, with inserts, prunes and moving cutoffs | the query is an OR of alternatives, each with a cutoff; `Request` is one SELECT; the other actions are other processes and the clock |
| `PagingProofs` | — | the theorems about `Paging` |
| `Logfmt` | `parsers/logfmt.rs`, `plain.rs` | the scanner as a recursive function over the position; a pair is a key and a value |
| `LogLine` | `parsers/mod.rs`, `json.rs`, `entry.rs` | a record is a sequence of pairs; an entry is its columns and its fields; promotion of known keys and coercion of scalars |
| `FieldLookup` | `validate_field_name`, `json_path` and the binding of a value in `executor.rs`; `json_extract`, external | a field name becomes a path, an entry's fields a tree |
| `LikePattern` | the escapes of CONTAINS; LIKE, external | a search text becomes a pattern |
| `Rendering` | `format_fields`, the JSON of a row in `render.rs`, the separators of `stats_cmd.rs` | a row becomes characters |
| `LineTyping` | — | what one side writes the other reads back |
| `TextProofs` | — | the theorems about the two scanners, `Tokenize` and `ParsePairs` |
| `LineProofs` | — | the theorems about what is written, stored, found and printed |
| `IndexCreation` | `Indexer::open`: directory, file, schema | each process is at a statement; what is there is directory, file, number of statements done, a dead writer's journal and the lock of others |
| `IndexCommands` | the four commands from their arguments to their exit code | `outcome[p]`; what they do to the rows is `IndexStore` |
| `ApiServer`, `ApiProps` | `crates/api` from `main` to `AppError` | `server` and `step` are the place in `main`, `client[c]` that of a connection up to the last byte of its answer; a signal, a client, a command, other users of the database are actions of their own |
| `ApiProofs` | — | the theorems about it, and about `IndexCreation` |
| `TimeBounds` | `compute_last_cutoff`, `parse_datetime`, `resolve_older_than`, `resolve_before`, text comparison | a timestamp is its local second and its ending; machine numbers keep their widths as `I64Max` and `DeltaMax` |
| `TimeBoundsProofs` | — | the theorems about it |
| `MCIndexStore`, `MCWatchLoop`, `MCQueryMeaning`, `MCPages`, `MCTimeBounds`, `MCTexts`, `MCApi` | — | small instances |

Points of the abstraction that matter:

- `IndexStore` starts from an existing index with its schema, in which
  `Indexer::open` only reads (`CREATE ... IF NOT EXISTS` takes SHARED).  How an
  index comes to have its schema is `IndexCreation`, where a statement is one
  step because `IndexStore` shows that a transaction is.
- A statement is a step that takes SHARED, and one that gives it back with the
  result.  The first INSERT of a chunk takes SHARED and RESERVED; SQLite gives
  SHARED back before it waits, so the two are one step.
- `WriteBack` stands for all partial page writes: while the journal exists and
  its owner lives, nobody can read; when the owner is dead, the first who may
  write restores the saved content before reading.
- In `FileTailer` the bytes of the log are numbers, so a delivered line shows
  where each of its bytes came from.  Carriage returns and the lossy UTF-8
  conversion touch neither order nor completeness and are left out.
- In `WatchLoop` the index is the set of texts stored by this command; that a
  chunk is stored at once or not at all is what `LogIndex` promises and
  `IndexStore` is shown to implement.  The channel is a counter: the loop
  looks at nothing in an event.
- The user of `QueryTyping` is a pushdown automaton with the grammar of
  query.rs, lines 14-35, in its guards.  Each state is one token sequence, so the
  runs cover every sequence up to their bound: complete, unfinished, or wrong from
  some token on.
- In `QuerySql` parentheses, AND, OR and placeholders are kept as symbols because
  precedence and the order of the bound values are what can go wrong; names of
  columns and JSON paths are not taken apart.
- In `Paging` the query is an OR of alternatives.  Clauses other than `last` select
  the same rows in every request, so of a row only its timestamp and the
  alternatives it `fits` are kept, and of an alternative its cutoff, which moves on
  if it has a `last` and stays otherwise.  `kept`, `left` and `repeats` are
  auxiliary: they record what the client should get, and why it may not.
- In the modules about texts a character is a member of its class.  The tokenizer
  and the logfmt scanner see characters; JSON is taken as the pairs that serde_json
  reads, in their order, with any text as a key and with repeated keys, since
  `serde_json` is not this program.
- In `IndexCreation` the directory says what is allowed: it is missing, cannot be
  made, can be used (`ready`), can only be read, or its file cannot even be opened
  (`closed`).  `contended` says that other processes hold their lock for longer than
  the busy timeout, `journal` that a killed writer has left one: a writer rolls it
  back, a read-only connection fails on it, as in `IndexStore`.
- In `ApiServer` a request is its route, method and what is wrong with its text,
  and a query's result is a number of rows.  An answer is first there (`Answer`),
  then written (`Write`); a large one waits for its client if that stops reading
  (`Stall`, `ReadOn`).  What a `cast` fixes at the start of
  a behaviour (which commands run, what the clients may ask, how the index is
  found, whether others use it) is only a way to keep every run small; the theorems
  hold for any set of casts.
- Operators whose comment starts with "Fault:" are not used by the
  specifications.  Each is the bug in a definition that the property named for
  it in `PROJECT.json` (`mutants`) has to notice.

## Runs

`tlc -config X.cfg M`, each under five minutes on two cores.

| Run | Question | Checks |
|---|---|---|
| `StoreIngest` | Two ingests of overlapping sources with a reader, kills, busy timeouts, a rerun each | `TypeOK`, `UniqueRaw`, `CompleteIngest`, `SummaryIsExact`, `AnswerIsBehind` |
| `StorePrune` | Ingest, prune and stats with kills, timeouts and reruns, under fairness | `CommittedChunksStay`, `ImplementsLogIndex`, `IngestsEnd`, `WritersCommit` |
| `TailRotate` | Two rotations at any moment, a buffer smaller than a line | `IntactLines`, `OneSplit`, `CurrentFileDelivered` |
| `FollowStore` | The loop with rotation, truncation, failing calls, kills, `--max-events 2` | `FollowLosesNothing`, `NoGap`, `InOrderOnce` |
| `FollowLive` | The loop with a rotation, failures, Ctrl-C and no promise about events | `LinesArrive`, `StopEnds` |
| `Queries` | Queries typed token by token, in four sessions (below), from tokens through the parser and the executor to rows | `ParsedAsMeant`, `RefusedAtFault`, `SelectsAsMeant` |
| `Pages` | Pages of one or two rows, or all at once, for a query of one range or an OR of two, with inserts, prunes and the clock between them | `NothingSkipped`, `NothingMissed`, `MissesAreDepartures`, `RepeatsAreInserts` |
| `TimeWindows` | `last`, `since`, `prune` over timestamps of seven shapes | `WindowsAreOrdered`, `AgedOutStaysOut`, `PruneKeepsTheWindow` |
| `Texts` | Every short text, in six sessions (below) | `TokensAreWhole`, `EarlierTokensStay`, `PairsAreLocal`, `LinesReadBack`, `FieldsAreFound`, `OutputReadsBack` |
| `Api` | The server starts, creates its index, answers and stops beside two commands, with kills, signals, half-sent requests, half-read answers, broken output, missing permissions, locks and journals of others | `IndexIsMade`, `StartInOrder`, `CommandsEndWell`, `AcceptedIsAnswered`, `BlameIsRight`, `SignalEnds`, `SentIsAnswered` |
| `QueryTimeRange`, `TimeLast` | see [below](#where-documentation-and-code-disagree) | one property each, violated |

What the properties say:

- **Index.**  Rows are unique by raw line whoever commits between a BEGIN and an
  INSERT (`UniqueRaw`); an ingest that reports success has stored every line it
  could (`CompleteIngest`), its counters equal what it put into the shared file
  (`SummaryIsExact`); a committed chunk stays until pruned, whatever dies later
  (`CommittedChunksStay`); altogether the processes behave like the atomic
  `LogIndex`.  A stats answer can be behind the index and torn, never ahead of it
  (`AnswerIsBehind`).  Waiting for locks ends.
- **Following.**  A delivered line is one whole line of the logger (`IntactLines`),
  the delivered lines are exactly those of one split of what was read
  (`OneSplit`), in order and once (`InOrderOnce`), and none of the file at the path
  is left out (`CurrentFileDelivered`); the loop stores and counts them without a
  gap, without needing an event.
- **Queries.**  The tree is what the grammar means, an error is reported at the
  first wrong token, and the condition with its bound values selects the rows that
  the query means.
- **Paging.**  A client that pages on while rows come and go gets every row that is
  there and matches all the time (`NothingSkipped`, `NothingMissed`).  That is so for
  a query with one time range, or none, because rows leave from the old end.
  With OR they need not: under `level=error OR last 2h` a newer row of the second
  alternative leaves while an older error stays, ranks fall, and the error may slip
  under the offset of the next page.  The two properties therefore except a row of
  an OR that has had a departure ahead of it, and `MissesAreDepartures` bounds what
  is lost: the client misses no more rows than have left while it was paging.
  Repeats are no more than inserts.
- **Times.**  A longer window shows more, a cutoff is wrong by less than a second,
  a row that has left a window does not come back, prune keeps what a query of the
  same cutoff shows.
- **Texts.**  Tokens cover the input and no more is read into them when more is
  typed; a malformed logfmt token costs only itself; a record becomes the same
  entry from JSON and from logfmt, and a quoted value reads back; a field is found
  under its name and by its value, CONTAINS is literal.  A level is compared as
  `lower(level)` with the lowered text: a number never finds it, and since `lower()`
  knows only ASCII while Rust lowers every letter, a level with another upper-case
  letter is not even found as it was logged (`LevelsAreTexts`; CONTAINS on a level
  lowers its text too).  What a row prints can be split again unless a key has the
  `=` sign, or an object or an array shows commas of its own; it fits a line exactly
  if no key has a line break (`OneLinePerRow`): `render.rs` prints keys as they are,
  and JSON may have any.  As JSON it is ingested again as the same row.
- **Server and commands.**  Whoever opens an index has the whole schema, whoever
  else is making it; stats and prune make none.  The server looks at its origins
  before it touches the index and has the index before it listens.  Whatever it has
  read it answers, signals, panics and shutdown notwithstanding, to a client that
  stays and reads.  400 means the request was at fault (`BlameIsRight`).  500 has one of
  these causes: a query that panics, has a path, a LIMIT or an OFFSET that SQLite
  refuses, or is too deep for it; a database that is foreign, may not be opened, is
  kept locked by others, or has a journal which the read-only connection may not roll
  back; or a table that is not there, its maker having stopped or being at it.  In
  the same way each failing `Indexer::open` has its cause, and another process that
  makes the same index is none.  SIGTERM ends the server unless a client keeps a
  request half sent or a large answer half read: nothing bounds that wait
  (`SignalEnds`).

**Bounds and why they suffice.**  The ingest sources have five and three lines:
a line repeated within and across sources, a blank, a malformed one, lines
without a timestamp both amid a chunk and alone in one.  With batches of three
lines and chunks of two, every kind of border occurs: full batch, partial batch,
full chunk, short chunk, chunk that writes nothing.  Two writers suffice for
every pairwise conflict of locks and one reader on each side of the read-only
flag for the rest; `MaxRuns = 2` gives every command a rerun after a failure at
every step.  Two timestamps and one cutoff separate old from kept, with a row
exactly at the cutoff.  In `TailRotate` lines are three bytes and the buffer two,
so lines are cut by reads, calls and rotations; eight bytes give two whole lines
and a part, three files two rotations.  The loop's runs use three lines of two
bytes, one event in the channel (the loop only asks whether there is one) and
chunks of two.  `FollowStore` has a good line, one without a timestamp and a good
one, so that a chunk holds entries of both kinds; `FollowLive` two different good
lines around a malformed one, so that the second one arrives with the first in the
index, behind a line that is skipped and behind the start of a file rotated
to.  Bounds are the constants `MaxRuns`, `MaxBytes`, `MaxFiles`,
`MaxTruncations`, `MaxQueue`.

The sessions of `Queries` differ in what is typed and how much.  `Kinds` has every
kind of token: five of them hold every clause with a token behind it and every
wrong token at every place, and behind the first wrong one any one more, to see
that it changes nothing.  `Shapes` leaves only the shortest clauses (`since x`), so
that eleven tokens hold three of them with parentheses around and in between.
`Groups` has the same tokens, without errors, and rows of an index that tell the
clauses apart; `Values` has single comparisons on a column, on level and on a JSON
field, and rows with texts, numbers and missing fields.  The session is chosen in
the initial state.

The sessions of `Texts` have one character per class that the scanner in question
tells apart.  Six characters of a query hold two numbers with a dot and what
follows them; six of a logfmt line hold a quoted value with an escape and what is
behind it, and two pairs; records have up to three of four keys, two of them known
and one with a dot, and nine values, so keys repeat and a known key holds a
number, null or an object, and beside them four keys that only JSON can have (a line
break, a comma and a blank, these with `=`, and none at all) and levels in upper case,
of ASCII and not; five characters of a field name hold two dots with
something on each side; six of a search text any two of the three characters that
LIKE treats specially around others; eight digits two separators.

`Pages` has up to three rows at two times, hence equal timestamps, and two
inserts, more rows than pages are long; two alternatives, which may be swapped,
suffice for an OR of which one moves and the other stays, and each row fits either
or both.  In `TimeWindows` every property is about
one row and one or two cutoffs, so one row at a time suffices; the numbers are
chosen so that some durations are before the first date, some above `DeltaMax`
and some above `I64Max`.

In `Api` two statements are the table and everything behind it, two commands a
creator and a looker, two clients one whose request is half sent and one other;
two starts and two signals hold a restart and a second Ctrl-C.  The casts combine
every state in which an index can be found (no directory, one that cannot be made,
read-only or closed, a database in each stage with and without a journal, a foreign
file) with creators and lookers, every kind of request and every kind of arguments
of each command, alone and with other users of the database; and every fault of
the server's.

Bounds: `maxTokens`, `maxDepth` and `maxLost` of a session of `Queries`, `length` of
a session of `Texts`, `MaxInserts`, `MaxNow`, `MaxRows`, `MaxStarts`, `MaxSignals`.

Deadlock is checked in the passing runs of `IndexStore`, whose readers never
stop, and in `TimeWindows`.  It is off where the program really ends: the runs with
a loop or a tailer that fails or is stopped, a server and commands that have
ended, texts and queries that are typed up to a bound, and the client that has
got its last page.

`InOrderOnce` survives truncation in place and is checked with it, in `FollowStore`,
where the loop reads a file that is both rotated and truncated.  The other
properties of the tailer are checked without it, since a truncation that is not
noticed (see below) breaks them.

## Fairness

- `IndexStore!FairSpec`: weak fairness of each process's own steps.  A process
  that can run is run by the operating system, and SQLite's busy handler polls
  until a lock is free.  The user at the prompt, kills and busy timeouts are
  under no fairness; readers may ask again at any time.  That weak fairness is
  enough for a waiting writer is what PENDING is for: the fault
  `CanShareWhilePending` shows a reader starving it.
- `WatchLoop!WatchSpec`: weak fairness of the loop, including the tailer's
  calls.  None for the watcher, the logger, logrotate or Ctrl-C: `LinesArrive`
  must come from the one-second timeout alone, which the loop takes whenever the
  channel is empty.
- `ApiServer!FairSpec`: weak fairness of the start, of the shutdown and of the
  server's part in each connection (tokio runs every task that is ready, and the
  blocking pool is larger than the number of clients here).  An answer goes out
  (`Write`) as long as the client reads.  None for clients, users, commands, service
  managers, signals and other users of the database: a client may keep a request half
  sent or stop reading a large answer for ever, and `SignalEnds` says what that does
  to the shutdown.

## Proofs

For all values of the constants that satisfy the assumptions named beside them
(`RowsAssumption`, `StoreAssumption`, `PagingAssumption`, `LogFileAssumption`,
`TailerAssumption`, `WatchAssumption`, `TimeAssumption`, `SchemaAssumption`,
`ProcessesAssumption`, `CastsAssumption`, `OriginsAssumption`,
`CharactersAssumption`, `LinesAssumption`, `NumbersAssumption`):

| Theorem | States |
|---|---|
| `TypeCorrect` | `Spec => []TypeOK` |
| `StoreInvariant` | `Spec => []IInv`, the inductive invariant |
| `UniqueRawHolds` | `Spec => []UniqueRaw` |
| `CommittedChunksStayHolds` | `Spec => []CommittedChunksStay` |
| `IndexRefinement` | `Spec => ImplementsLogIndex` |
| `CompleteIngestHolds`, `SummaryIsExactHolds`, `AnswerIsBehindHolds` | `Spec => []CompleteIngest`, `[]SummaryIsExact`, `[]AnswerIsBehind` |
| `PagingTypeCorrect` | `Spec => []PagingTypeOK` of `Paging` |
| `NothingSkippedHolds` | `Spec => []NothingSkipped` |
| `NothingMissedHolds` | `Spec => []NothingMissed` |
| `MissesAreDeparturesHolds` | `Spec => []MissesAreDepartures` |
| `RepeatsAreInsertsHolds` | `Spec => []RepeatsAreInserts` |
| `TailerInvariant` | `Spec => []FollowInv` of `FileTailer`, the inductive invariant |
| `OneSplitHolds` | `Spec => [](truncations = 0 => OneSplit)` of `FileTailer` |
| `TailerInOrderOnce`, `FollowInOrderOnce` | `Spec => []InOrderOnce` of the tailer alone, `WatchSpec => []InOrderOnce` of the loop |
| `IntactLinesHolds`, `FollowIntactLines` | `[](truncations = 0 => IntactLines)`, from `Spec` of the tailer alone and from `WatchSpec` |
| `FollowOneSplit` | `WatchSpec => [](truncations = 0 => OneSplit)` |
| `CurrentFileDeliveredHolds`, `FollowCurrentFileDelivered` | `CurrentFileDelivered`, an action property, from both |
| `LoopInvariant` | `WatchSpec => []LoopInv`, the inductive invariant of the loop |
| `FollowLosesNothingHolds`, `NoGapHolds` | `WatchSpec => []FollowLosesNothing`, `WatchSpec => []NoGap` |
| `WindowsAreOrderedHolds` | `Spec => []WindowsAreOrdered` of `TimeBounds` |
| `AgedOutStaysOutHolds`, `PruneKeepsTheWindowHolds` | `Spec => AgedOutStaysOut`, `Spec => PruneKeepsTheWindow`, action properties |
| `TokensAreWholeHolds`, `EarlierTokensStayHolds` | `Spec => []TokensAreWhole`, `Spec => EarlierTokensStay` of `QueryLexing`; the second is an action property |
| `PairsAreLocalHolds` | `Spec => []PairsAreLocal` of `LineTyping` |
| `LinesReadBackHolds` | `Spec => []LinesReadBack` of `LineTyping` |
| `FieldsAreFoundHolds` | `Spec => []FieldsAreFound` of `LineTyping` |
| `OutputReadsBackHolds` | `Spec => []OutputReadsBack` of `LineTyping` |
| `QueryInvariant` | `Spec => []QueryInv` of `QueryTyping`, the inductive invariant of the parser |
| `ParsedAsMeantHolds`, `RefusedAtFaultHolds` | `Spec => []ParsedAsMeant`, `Spec => []RefusedAtFault` |
| `CreationInvariant` | `Spec => []CreationInv` of `ApiServer`, the inductive invariant about the index |
| `IndexIsMadeHolds` | `Spec => []IndexIsMade` |
| `ApiInvariant` | `Spec => []ApiInv`, the inductive invariant of server, clients and commands |
| `StartInOrderHolds`, `AcceptedIsAnsweredHolds`, `CommandsEndWellHolds` | `Spec => []StartInOrder`, `[]AcceptedIsAnswered`, `[]CommandsEndWell` |
| `BlameIsRightHolds` | `Spec => BlameIsRight`, an action property |

**Argument.**  `UniqueRaw` is not inductive: a commit publishes a private image,
so something must be known about images while their transactions are open.
`IInv` says it.  `LockInv`: there is one writer, the owner of EXCLUSIVE is alone,
and a journal beside a living lock holder is that owner's, whose image is what
the pages hold.  `PlaceOK` ties locks to places in the code, `BatchOK` the counters
of a batch to each other.  `IngestImage` is the core: the image of a chunk's
transaction `Extends` the *committed* rows by the rows of the entries handled so
far: it keeps all of them, adds only rows of the chunk, has a row for each raw
line of it, and no two for one.  `PruneImage` says the same of a DELETE.  Since
only the one writer can change what is committed, and only by the deletion of
its journal, images of others never go stale (lemma `Frame` and `OthersOK`); a kill
at any moment leaves `Committed` as it was, because it is the saved content as long
as the journal exists.  At the commit point `Extends` gives uniqueness, the
arrival of every raw line of the chunk, and, as the step of `LogIndex`,
`ApplyInsert`; every other step maps to asking, abandoning or a stutter.

`TypeCorrect` stands alone because the finiteness and typing facts are used by
all others.  Proofs have a step per action; lemmas about a group of actions
(`LockStep`, `OutsideStep`, `StatementInv`) are cited by name.

**Accounts.**  The three properties about reports speak of finished commands, so the
invariants `Accounts` and `Answers` say what holds on the way there.  `LinesKept`:
each timestamped line that has been read is in a committed chunk or `Waiting` in
the batch, and an ingest ends only with an empty batch at the end of its source.
`LinesCounted`: the counters of finished chunks, those of the chunk in progress,
the malformed lines and the entries not yet handled add up to the non-blank lines
read.  `RowsCounted`: an open transaction has as many rows more than the committed
index as the chunk's counter says.  What is committed does not change under an open
transaction (`CommittedSame`), so the commit credits exactly these; without a
transaction nothing has been inserted.  `AnswerIsBehind` follows from
`CommittedGrows`: as long as nothing is pruned, each commit only adds rows, so what
an earlier statement of stats has seen is still there at the later ones.

**Paging.**  The rank of a row is the number of rows ahead of it.  With one range the
rows ahead of a kept row are newer, so prune and the clock take none of them unless
they take the row too (`OldLeave`), and an insert only adds to them: ranks of kept
rows never fall (`RankMonotone`, `Departs`), which with `kept \subseteq Matching` gives
`NothingSkipped`.  With OR a rank falls only by rows that leave ahead, hence the
exception for `Overtaken` rows.  For `MissesAreDepartures` the rows that have
`Slipped` under the offset without being seen are counted: as many rows leave at a
step, so many at most get a rank below the offset (`RanksAmong`, `DepartCount`).  That the client then has everything when a page comes back
short needs that ranks have no gaps: `RankInjective` (ids are unique) and
`RankOnto` make the rows of a page correspond to the ranks it covers (`PageFull`).
`RepeatsAreInserts` is not inductive, since a row that an insert has pushed behind
the offset is repeated only later; `CountInv` adds these pending rows to the
repeats.  An insert raises every rank by one at most, so that only the row with
rank `offset - 1` can become pending.

**Tailer.**  `InOrderOnce` says nothing of bytes that are not yet handed over, so
`FollowInv` puts everything into one order: what has been handed over, then
`Pending` (the partial line and what the call in progress has read), then what is
`Unread` of the open file and of later ones, then what will be written.  Files are
ordered by `LogInv`: the logger never goes back to an earlier inode, and an inode
it has not come to is empty.  The offset goes back only when the file is shorter
than it, and then holds nothing that has been read; a rotation leads to a later
inode.  `LinesInOrder` says that splitting keeps an order: the newline that ends
the k-th line exists and is later for a later line (`LineEndExists`,
`LineEndsAscend`, by counting newlines instead of a recursion over the bytes).
Every other step of the loop leaves the tailer alone, so the same invariant holds
of `WatchSpec`.

`OneSplit` compares the delivered lines with a split of everything read, so
`SplitInv` says that what has been seen of the present file is `done \o raw`, that
what was told of it is `Lines(done)` and that `PartialLine(done)` is left over.
Reads extend `raw`; returning needs `Lines(s \o t) = Lines(s) \o
Lines(PartialLine(s) \o t)` (`SplitInTwo`), proved by cutting behind the last
newline of `s` and counting newlines (`LinesOfJoined`).  The logger only appends to
what was seen until it truncates.  A file that is truncated and grown back to the
offset is read on from there, hence the theorem is about `truncations = 0`.

**Whole lines.**  That what is handed over are lines of the log, and all of them, needs
that the files consist of lines.  `FilesInv`: each file is `LinedUp`, that is, it
begins with a line and goes on without a gap, because logrotate's steps and the
logger's `Reopen` come between two lines; only the file that is being written may
end within one.  `OpenInv`: reading of a file begins at its first byte, or, in
the first one, where `open` found the end.  What is seen is then a stretch of
consecutive bytes with a newline at every `LineBytes`-th place, so a split of it
gives whole lines, the first perhaps without its head, and with `SplitInv` of the
tailer so does what was delivered (`IntactInv` keeps that for the files before the
present one).  `CurrentFileDelivered` goes the other way: a line that is
complete in the file has its newline within what a call that reached the end has
seen, so the split has it.  Both are about `truncations = 0`, since a
file that has been truncated and has grown back to the offset is read on in the
middle of a line, as the code does.

**Loop.**  `LoopInv` follows a line from the tailer into the index.  `HandedOver`:
`out` is the last stretch of what was ever delivered.  `BatchInv`: what is left of
a batch are the last of its entries, so chunks are stored in order.  `IndexedInv`: the
index has the good lines up to a place in the delivered ones, namely all that the
loop is done with, or, within `insert_batch`, those before the first entry that is
left; after a failure or a kill there is still some such place, which is `NoGap`.
`CountedInv`: what the counters add up to, together with what is in hand, is the
number of delivered lines, and `inserted` is the size of the index.  A chunk moves
its entries from one summand to the other: the timed ones are new texts or
duplicates, the rest is skipped.  At `top`, `wait` and `done` nothing is in hand, which
is `FollowLosesNothing`.

**Times.**  The cutoffs that the code writes are all in UTC and in one shape, so as
text they are ordered like the instants (`Order` of the endings grows with the
fraction: without one it is `+00:00`, with one it begins with a dot, and `+` is
before `.`).  Everything about windows of `last` then comes down to numbers: the
seconds of a longer window are no fewer although both multiplications saturate,
and where the date is out of range the window begins at the epoch, which is before
every row.  For `AgedOutStaysOut` a cutoff may not go back past a row as the clock
goes on: it does go back once, from the epoch to the earliest date, as soon as
that is reached, but no row is before either.
`PruneKeepsTheWindow` compares the cutoffs of the two commands: where `prune` gets
one, nothing has saturated and `last` gets the same.  `TimeAssumption` says what
this rests on: rows are from after the first second of 1970, years have four
digits, `DeltaMax` is at most `I64Max`, and the earliest date is before 1970.

**Texts.**  The library's induction theorems cannot be instantiated, so the two
scanners' loops are taken from the end of the text backwards with the help of
least numbers (`Smallest`, `FromTheEnd`): a last place at which something fails
would be one behind which it holds everywhere.  A recursive function is a
CHOOSE; that there is a function with the recursive equation is proved in the
same way (`LexExists`, `BodyExists`, `ScanExists`), from the fact that the
equation at a place looks only at places further on (`LexAgrees`, `BodyAgrees`,
`ScanAgrees`) because every token is at least one character long.
`Lexed` then says what the tokens from a place on are: in order, within the text, with
nothing but white space between them, and the last is an error if there is one.  For
`EarlierTokensStay` a token that ends before the text does is the same in every
continuation of the text (`TokenStays`, `TokenEnds`), and so are those in front of it
(`LexStays`).  For `PairsAreLocal` a *part* of the line with white space or nothing
behind it is compared with the line: runs of characters (`RunEndMoves`), a quoted
value that is closed (`BodyMoves`) and so a pair (`PairMoves`) are the same in both.
With the part in front of the white space this gives the pairs of the line as
those of the part followed by those behind it (`ScanMoves`); with the part behind
it, that the latter are those of that part alone, or that both are malformed.
`CharactersAssumption`, that the classes of characters are disjoint, makes the
choice of a token's kind unique.

**Lines.**  A written text is joined from parts, and a fold of the library is a
recursive function too: there is a sequence of prefixes, each of which continues the
one before by one part (`FlattenIs`, `JoinedSoFar`), so a part of the text is
where the prefix before it ends (`PartIsAt`).  A character that the logger has
escaped is one turn of the reader's loop (`EscapedRead`), so from the closing quote
backwards the reader has the rest of the text (`EscapedIsRead`), and a pair that is
written is the pair that is read (`WrittenParsed`).  With `PairsAreLocal` a line of
pairs is read pair by pair (`JoinedRead`).  In both formats an entry is then
`Members` of the same keys, where the last value stays (`MembersAre`), and
promotion does the same to both (`PromotedIs`, `Stored`).  A name without a dot is a
path of one step, two names joined are one of two (`PathOne`, `PathTwo`), and no
step of any path has a dot (`PathTyped`), so a key with one is out of reach.  For
CONTAINS the rows of LIKE's table are followed from the last wildcard backwards:
where the rest of the pattern begins with an escaped or plain character, it
matches exactly at a character that is the same but for its case and has behind it what
the next row matches (`PartMatched`, `FitsOn`, `PatternMatches`).

**Output.**  What is printed is read back in four ways.  A line of fields is joined
from fields with `, ` between two of them, so each begins behind the separator of the
one before (`LineStands`).  A field ends where the reader says (`FieldEndIs`): a
value in quotes was escaped, so its closing quote is the first that is not
(`EscapedIsRead` again), and a value without quotes has no comma (`ShownIs`).  From
the front, field by field, the reader then arrives at the end with the fields that
were shown (`LinesApart`), in whatever order the map gave them (`OrderIs`).  The
breaks of a printed row are added up over its parts (`Counted`): what serde_json puts
in quotes has none and bare JSON has none, so those of the columns and of the keys
remain (`LineCounted`, `KeyIsPrinted`).  A row that is logged again is `Promoted` of the members it
was printed as (`RowsLoggedBack`).  For a count it is shown where each digit is placed
(`DigitsPlaced`), hence where the commas are (`CommasDue`) and what is left without them
(`DigitsLeft`).  `LinesAssumption` says what this and the previous paragraph rest on:
a record consists of pairs, of which a key may be any text and JSON that is not a
string is on one line and does not begin with a quote; the names of a row's members
differ; a line break and a comma are no letters and no digits, a count has no comma;
letters and a brace are not white space; and what is a lower-case letter is its own
lower case.  What holds of logfmt alone is stated for records with keys that logfmt
can write (`Loggable`).

**Queries.**  The parser is given a whole query and looks a token ahead, while the
user of `QueryTyping` has typed only a part of it.  So `QueryInv` speaks of all texts
that begin with what has been typed (`Continuations`).  `Followed` says of each of
them what the parser does with the typed part.  At every level of parentheses it
has read the groups that the user has finished there and arrives (`Leads`) at the
place where the level is open; `LevelsOpen` chains the levels by the "(" between
them.  The innermost level waits for a clause or the rest of one (`Waiting`,
`Wanted`), or has its last group `Completed`.  When the query ends there, the
levels close one after the other and the tree is the typed one (`ParsedAsMeant`).
When it goes on with a token that does not fit, or ends too early, the innermost
level fails at that token, and a failure of any open level is the result of the
whole parse (`FailureIsResult`), which gives `RefusedAtFault` and, since it holds of
all continuations, that later tokens do not matter (`GoneWrong`).  The levels that
the parser recurs through form one recursive function over cursor and level; that it
exists and unfolds (`ParseExists`, `ParseLevelIs`) is proved from the end of the text
backwards as in **Texts**, because every cycle through the levels consumes a token.
`NumbersAssumption`, that an i64 is read as a u64 too and no number is both a u64
and a decimal, makes the type of a parsed number the typed one.

**Creation.**  `IndexIsMade` rests on `Progress`: a process at its n-th statement
finds the n - 1 before it done, by whoever; a statement that fails leaves the rest as
it was.  Since statements never undo anything and nobody removes the file, what has
been opened stays complete.

**Server.**  `IndexInv` is what a server may rely on: whoever finds the file finds
the table, or somebody who is making it, or the trace of an interruption
(`Hopeful`).  The server has the same of *commands* alone once it has passed its own
look at the index, because it makes the table itself or finds the file; that is
what a health check (`StartInOrder`) and a 500 (`BlameIsRight`, with `AnswersInv`: a
request that runs has passed the early checks, and one that has opened the index
could) are judged by.  The other causes of a 500 are read off the step that answers
(`BlameStep`), those of a failing open off the step that fails (`FailureHasACause`).  `ClientsInv` ties a
request to its connection: a signal or the end of a start cuts off only
connections without one, and the shutdown waits for the others
(`AcceptedIsAnswered`).  That the server never panics needs that the origins which
are refused first are exactly those on which the router would panic
(`OriginsAreSafe`); `OutputInv` relates a command's place to its rows.

**Only model-checked.**  All liveness (`IngestsEnd`, `WritersCommit`, `LinesArrive`,
`StopEnds`, `SignalEnds`, `SentIsAnswered`) is beyond the prover, which knows
neither fairness nor ENABLED.  So is which
rows a query selects (`SelectsAsMeant`): its condition is written and evaluated by
recursion over a tree, with RECURSIVE operators, which the prover does not take.
All other safety and action properties of the passing runs are theorems.

## Where documentation and code disagree

Two are shown by a run:

| Run | The text says | The code does |
|---|---|---|
| `QueryTimeRange` | `README.md:442`: `query := or_expr [ TIME_RANGE ]`, with examples such as `README.md:29` | the parser wants AND or OR in front of `last` and `since` |
| `TimeLast` | `executor.rs:327`, test at 1322: saturates, does not panic | `chrono::Duration::seconds` panics above `i64::MAX / 1000` |

The others were met while modelling.  The models do what the code does, and the
properties are stated so that they hold of it:

| The text says | The code does | In the model |
|---|---|---|
| `README.md:184`, `entry.rs:75-77`: `--tag` is for entries without a tag of their own | `ingest_reader` calls `with_tag` for every line, and it replaces any tag | `Prepare` |
| `prune_cmd.rs:241`: "This will permanently delete {count}" | the DELETE takes all rows that are older by then; an ingest during the prompt adds some | `Confirm` and `Delete` are separate steps |
| `README.md:403`: the timestamps are null on an empty index | three separate reads: 0 entries with timestamps of rows committed in between | `AnswerIsBehind` claims only the other direction |
| `README.md:186`: detects truncation and reopens | a file that has grown back to the offset is read on from there; its first lines are lost | `CurrentFileDelivered` excludes truncation |
| `README.md:186`: ingests new lines as they are appended; detects log rotation | the unread end of the old file is dropped at the reopening | `CurrentFileDelivered` is about the file at the path |
| `query.rs:178-181`: a field called `last` works with CONTAINS | `last` at the start of a clause is always the keyword | `Reserved` words begin no field |
| `parsers/logfmt.rs:35-36`: numeric comparisons are lexical on logfmt data | a number is never equal to a text and always below it, so `> 1000` selects all and `= 1000` none; a bare word `debug`, stored as the text `true`, is not found by `debug = true` | `TypesFollowTheFormat` |
| `prune_cmd.rs:103-106`: a bad duration is reported | the same panic as in `last` | `ResolveOlderThan`, `ResolveCutoff`; `PanicsAreKnown` names it |
| `README.md:491`: text comparison is correct for ISO-8601-shaped timestamps | wrong within the cutoff's second without an offset or with a fraction, and by the offset with another one | `WindowsAreOrdered` |
| `crates/api/src/main.rs:196-200`: starting fails if the file is not a SQLite database | a path that exists is taken for an index; every request then answers 500 | `EnsureIndexExists`; `StartInOrder` and `BlameIsRight` except foreign files |
| `crates/api/src/main.rs:49-53`: `--host` is the address to bind | the health check always asks the loopback address (`main.rs:176`) | `HealthCheck` |
| `crates/api/src/error.rs:221`: an invalid datetime is a 400 | it is; but an invalid datetime is noticed behind the opening of the index: 500 on a missing one, and the CLI's query has created the index by then; a one-shot ingest of a missing file has too | `ExecuteResults`, `OpenReadOnly`, `WorkResults` |
| `crates/cli/src/render.rs:159-161`: fields print in the order of insertion | `serde_json` sorts the keys of an object | the order of fields is not compared |
| `README.md:466`: what a field name must match | so do `a.` and `a..b`, which SQLite refuses as a path as soon as there is a row | `badpath` in `ExecuteResults` |
| `README.md:466`: a dot in a field name goes into nested JSON | always; a flat key with a dot is reached by no name, nor is a logfmt key with a dash | `ReachedByName`, `FieldNamesAgree` |
| `executor.rs:204-205`: a level is matched case-insensitively | a letter beyond ASCII is lowered by Rust and not by `lower()`; an upper-case one is found by no spelling | `Lowered`, `LevelsAreTexts` |
| `crates/cli/src/render.rs:15-20`: a reader that goes is no error | so for query; stats and prune panic in `println!` | `PanicsAreKnown` |
| `README.md:211`: `--output json` is newline-delimited JSON, as ingest reads it | ingested again, a missing column becomes the text `null` (`json.rs:93-101`) | `RowsAreLoggedBack` |

## What is not modelled

- SQLite is modelled by the documented behaviour of its rollback-journal mode;
  disk corruption, a power failure that loses synced pages, and WAL mode (which
  logdive does not turn on) are outside.
- I/O errors inside a SQLite statement, other than a busy database, a foreign file,
  a missing permission, a journal that may not be rolled back, and a path, a LIMIT, an
  OFFSET or a depth that it refuses.  A full disk, in particular.
- The depth of a query: `parse_or_expr` and `parse_clause` (`query.rs` 495-593) call
  each other for each parenthesis without a limit, and the model's recursion has no
  stack that could end.  The code's has: a query nested deeply enough exhausts the
  stack of its thread, which ends the whole process, not only the request.
  `SentIsAnswered` and `PanicsAreKnown` are about queries that fit the stack.
- An index that is removed while logdive uses it.  Nothing in logdive does so; if it
  happens between the look of stats or prune and their `Indexer::open`, they create an
  empty one.
- The moment between the start of `axum::serve` and the task that installs the
  handlers of the signals: a signal then kills the server although it may have
  accepted.
- How an answer is cut into packets: only that a large one waits for its reader.
- A line that is not UTF-8 in one-shot ingest (`reader.lines()` ends the command
  there, while the follow loop converts it).
- Malformed texts of `--older-than` and `--before`: only that they are malformed.
  Datetime texts that `parse_datetime` refuses, likewise; years beyond four digits
  in a row.
- The reading of JSON (`serde_json`) and the hashing of a line (distinct lines have
  distinct hashes).
- Colours and the decision for them, `format_size`, `format_tags` and
  `format_time_range`, the wording of errors, progress output, tracing, headers and
  bodies of HTTP beyond the status, CORS beyond which layer is built.
- The resolution of the default path of the index, `open_in_memory`.
- The landing page, documentation, examples, scripts and container files.

Five hazards of the code are stated here and covered by no property, because the
code does nothing about them and promises nothing: the number in prune's prompt is
old by the time the user answers; a file truncated and grown back to the offset
between two looks is read on from there; a follow that is started again begins
at the end of the file; the read loop of the tailer ends only when a read returns
nothing, which a logger that writes as fast as it reads can put off; and a read error
in the middle of a call drops the bytes of that call (the command ends then).
