--------------------------- MODULE IndexCommands ---------------------------
(***************************************************************************)
(* The logdive commands from their arguments to their exit code (main.rs,  *)
(* prune_cmd.rs, stats_cmd.rs, render.rs) on an index that may be missing: *)
(* what each of them looks at before it opens the index, what can go wrong *)
(* behind that, and how their output ends.  What they do to the rows is    *)
(* the module IndexStore.                                                  *)
(***************************************************************************)
EXTENDS IndexCreation

CONSTANTS
    Commands,       \* processes of the CLI
    MaxRows         \* bound on the rows of a query's result

VARIABLES
    args,           \* the arguments of each command
    outcome,        \* how far it is, or how it has ended
    rows, printed,  \* rows of its result, and how many of them are written
    pipe            \* its standard output: "open", "closed" by its reader, or "failing"
commandVars == <<outcome, rows, printed, pipe>>

Ended == {"ok", "error", "usage", "panic", "killed"}    \* exit 0, 1, 2, 101 and by a signal

LogFormats == {"json", "logfmt", "plain"}

\* Fault: --follow does not require --file.
AcceptedFollow(a) ==
    /\ a.command = "ingest" => a.format \in LogFormats
    /\ a.command = "prune" => (a.older_than = "none") # (a.before = "none")

\* What clap accepts.
Accepted(a) ==
    /\ a.command = "ingest" => (a.follow => a.log # "stdin") /\ a.format \in LogFormats
    /\ a.command = "prune" => (a.older_than = "none") # (a.before = "none")

\* resolve_cutoff: chrono's panic on an amount that only an i64 has room for, or
\* the error that the cutoff is none.
ResolveCutoff(a) ==
    IF a.older_than = "panics" THEN "panic"
    ELSE IF {a.older_than, a.before} = {"none", "fine"} THEN "opening" ELSE "error"

\* handle_ingest with --follow, up to the index.
Follow(a) == IF a.log = "stdin" THEN "panic" ELSE IF a.log = "missing" THEN "error" ELSE "opening"

\* Fault: stats opens the index without a look.
BeforeOpenEager(a) ==
    IF a.command = "ingest" /\ a.follow THEN Follow(a)
    ELSE IF \/ a.command = "query" /\ a.text = "unparseable"
            \/ a.command = "prune" /\ ~Exists
         THEN "error"
    ELSE IF a.command = "prune" THEN ResolveCutoff(a) ELSE "opening"

\* What a command does before it opens the index: follow its log, parse the
\* query, look for the index and resolve the cutoff.
BeforeOpen(a) ==
    IF a.command = "ingest" /\ a.follow THEN Follow(a)
    ELSE IF \/ a.command = "query" /\ a.text = "unparseable"
            \/ a.command \in {"stats", "prune"} /\ ~Exists
         THEN "error"
    ELSE IF a.command = "prune" THEN ResolveCutoff(a) ELSE "opening"

Main(p) ==
    LET how == IF Accepted(args[p]) THEN BeforeOpen(args[p]) ELSE "usage"
    IN  /\ outcome[p] = "start"
        /\ outcome' = [outcome EXCEPT ![p] = how]
        /\ Goes(p, IF how = "opening" THEN "directory" ELSE "no")
        /\ UNCHANGED <<directory, database, contended, next, rows, printed, pipe>>

\* LogdiveError, without the errors of lines and rows that others have spoilt.
Errors == {"QueryParse", "InvalidDatetime", "UnsafeFieldName", "Sqlite", "Io"}

\* execute: a bad datetime and a duration that is out of range come to light
\* while the condition is built; SQLite refuses a LIMIT or OFFSET above an i64
\* and a condition that is too deep, a database without the table or with a
\* journal that this connection may not roll back, one that is locked for too
\* long, and a path at the first row.
ExecuteResults(text, writable) ==
    IF text = "badtime" THEN {"InvalidDatetime"}
    ELSE IF text = "panics" THEN {"panic"}
    ELSE IF text = "refused" \/ ~TableExists \/ (journal /\ ~writable) THEN {"Sqlite"}
    ELSE IF text = "badpath" \/ contended THEN {"rows", "Sqlite"} ELSE {"rows"}

\* Behind Indexer::open, for ingest and stats and for prune up to its question.
WorkResults(a) ==
    IF a.command = "query"
    THEN {IF r = "rows" THEN "printing" ELSE IF r \in Errors THEN "error" ELSE r :
             r \in ExecuteResults(a.text, Writable)}
    ELSE {IF a.command # "ingest" THEN "printing" ELSE IF a.log = "missing" THEN "error" ELSE "ok"}
         \cup (IF contended \/ (a.command = "ingest" /\ ~Writable) THEN {"error"} ELSE {})

\* How many lines a command writes; prune asks in front of its only line if
\* there is something to prune and nobody has said yes to it.
Lines(a) ==
    CASE a.command = "query" -> 0 .. MaxRows
      [] a.command = "prune" -> IF a.answer = "flag" THEN {1} ELSE {1, 2}
      [] OTHER -> {1}

\* ? returns the error of Indexer::open.  A statement rolls a journal back.
Work(p) ==
    /\ outcome[p] = "opening" /\ opening[p] \in {"opened", "failed"}
    /\ \E how \in IF opening[p] = "failed" THEN {"error"} ELSE WorkResults(args[p]) :
            /\ outcome' = [outcome EXCEPT ![p] = how]
            /\ \E n \in IF how = "printing" THEN Lines(args[p]) ELSE {0} : rows' = [rows EXCEPT ![p] = n]
    /\ journal' \in IF opening[p] = "opened" /\ Writable THEN {journal, FALSE} ELSE {journal}
    /\ UNCHANGED <<directory, file, schema, contended, opening, next, printed, pipe>>

\* Fault: every error of a write ends the output in good order.
WrittenQuietly(a, state) ==
    CASE state = "open" -> "printing"
      [] state # "open" /\ a.command = "query" -> "ok"
      [] OTHER -> "panic"

\* The result of writing one line: query takes a reader that has gone for the
\* end, println! of stats and prune panics.
Written(a, state) ==
    IF state = "open" THEN "printing"
    ELSE IF a.command # "query" THEN "panic"
    ELSE IF state = "closed" THEN "ok" ELSE "error"

\* confirm: the question is written, and its answer cannot be read.
ConfirmFails(p) ==
    /\ args[p].command = "prune" /\ args[p].answer = "unreadable"
    /\ rows[p] = 2 /\ printed[p] = 1

\* The DELETE and the VACUUM behind the question.
PruneFails(p) ==
    /\ outcome[p] = "printing" /\ args[p].command = "prune" /\ printed[p] = rows[p] - 1
    /\ contended \/ ~Writable
    /\ outcome' = [outcome EXCEPT ![p] = "error"]
    /\ UNCHANGED <<indexVars, rows, printed, pipe>>

\* render_pretty, render_json, or the println! at the end.
PrintRow(p) ==
    /\ outcome[p] = "printing"
    /\ IF printed[p] = rows[p] \/ ConfirmFails(p)
       THEN /\ outcome' = [outcome EXCEPT ![p] = IF ConfirmFails(p) THEN "error" ELSE "ok"]
            /\ UNCHANGED printed
       ELSE /\ outcome' = [outcome EXCEPT ![p] = Written(args[p], pipe[p])]
            /\ printed' = [printed EXCEPT ![p] = IF pipe[p] = "open" THEN @ + 1 ELSE @]
    /\ UNCHANGED <<indexVars, rows, pipe>>

\* The other end of the output.
PipeBreaks(p) ==
    /\ pipe[p] = "open" /\ outcome[p] \notin Ended
    /\ \E state \in {"closed", "failing"} : pipe' = [pipe EXCEPT ![p] = state]
    /\ UNCHANGED <<indexVars, outcome, rows, printed>>

OpenIndex(p) == outcome[p] = "opening" /\ Open(p) /\ UNCHANGED commandVars

\* Is p in the middle of a transaction?
Writing(p) ==
    \/ RunsStatement(p)
    \/ outcome[p] = "opening" /\ opening[p] = "opened" /\ args[p].command = "ingest"
    \/ outcome[p] = "printing" /\ args[p].command = "prune"

KillCommand(p) ==
    /\ outcome[p] \notin Ended
    /\ outcome' = [outcome EXCEPT ![p] = "killed"] /\ Goes(p, "no")
    /\ Dies(Writing(p))
    /\ UNCHANGED <<directory, file, schema, contended, next, rows, printed, pipe>>

CommandStep(p) == Main(p) \/ OpenIndex(p) \/ Work(p) \/ PruneFails(p) \/ PrintRow(p)
=============================================================================
