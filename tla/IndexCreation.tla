--------------------------- MODULE IndexCreation ---------------------------
(***************************************************************************)
(* How an index comes into being (indexer.rs): Indexer::open makes the     *)
(* directory, SQLite an empty file, and init_schema runs its statements    *)
(* one by one, the table first, each a transaction of its own and each     *)
(* without effect on what is there already.  Several processes may be at   *)
(* it at a time, any of them may be killed in between, and any step fails  *)
(* for want of a permission or because others hold the lock for longer     *)
(* than the busy timeout of 5 s.                                           *)
(***************************************************************************)
EXTENDS Naturals, FiniteSets

CONSTANTS
    Processes,
    Statements      \* of init_schema

ASSUME SchemaAssumption == Statements \in Nat \ {0}

VARIABLES
    directory,      \* one of Directories
    file,           \* "absent", "database", or "foreign" if SQLite cannot read it
    schema,         \* how many of the statements have had their effect
    journal,        \* is there a journal that a killed writer has left?
    contended,      \* do other processes keep the database locked?
    opening,        \* where each process is in Indexer::open
    next            \* the statement it runs next
database == <<file, schema, journal>>
indexVars == <<directory, database, contended, opening, next>>

\* Missing, or one that cannot be made; else what may be done to the file in it.
Directories == {"missing", "forbidden", "ready", "readonly", "closed"}
Files == {"absent", "database", "foreign"}
Phases == {"no", "directory", "file", "schema", "opened", "failed"}

Exists == file # "absent"
TableExists == file = "database" /\ schema >= 1
Writable == directory \notin {"readonly", "closed"}

\* The file is there and the statement that makes the table still to come.
Creating(p) == opening[p] = "schema" /\ file = "database" /\ ~TableExists

Goes(p, phase) == opening' = [opening EXCEPT ![p] = phase]

\* ensure_parent_dir.
EnsureParentDir(p) ==
    /\ opening[p] = "directory"
    /\ directory' = IF directory = "missing" THEN "ready" ELSE directory
    /\ Goes(p, IF directory = "forbidden" THEN "failed" ELSE "file")
    /\ UNCHANGED <<database, contended, next>>

\* Connection::open opens the file, or creates one with nothing in it.
Openable == directory # "closed" /\ (Exists \/ Writable)
ConnectionOpen(p) ==
    /\ opening[p] = "file"
    /\ file' = IF Openable /\ ~Exists THEN "database" ELSE file
    /\ Goes(p, IF Openable THEN "schema" ELSE "failed") /\ next' = [next EXCEPT ![p] = 1]
    /\ UNCHANGED <<directory, schema, journal, contended>>

\* Fault: a statement fails on what is there already.
InitSchemaNotIdempotent(p) ==
    /\ opening[p] = "schema" /\ file = "database"
    /\ schema' = IF next[p] <= schema THEN schema ELSE next[p]
    /\ journal' = FALSE
    /\ Goes(p, IF next[p] <= schema THEN "failed" ELSE IF next[p] = Statements THEN "opened" ELSE "schema")
    /\ next' = [next EXCEPT ![p] = @ + 1]
    /\ UNCHANGED <<directory, file, contended>>

\* Fault: with the table there, the schema is taken to be complete.
InitSchemaOnlyIfNew(p) ==
    /\ opening[p] = "schema" /\ file = "database"
    /\ schema' = IF next[p] <= schema THEN schema ELSE next[p]
    /\ journal' = FALSE
    /\ Goes(p, IF next[p] <= schema \/ next[p] = Statements THEN "opened" ELSE "schema")
    /\ next' = [next EXCEPT ![p] = @ + 1]
    /\ UNCHANGED <<directory, file, contended>>

\* One statement of init_schema; SQLite reads the file here for the first time,
\* and rolls a journal back.  What has to write needs the right to it.
Writes(p) == next[p] > schema \/ journal
InitSchema(p) ==
    /\ opening[p] = "schema" /\ file = "database" /\ (Writes(p) => Writable)
    /\ schema' = IF next[p] <= schema THEN schema ELSE next[p]
    /\ journal' = FALSE
    /\ Goes(p, IF next[p] = Statements THEN "opened" ELSE "schema")
    /\ next' = [next EXCEPT ![p] = @ + 1]
    /\ UNCHANGED <<directory, file, contended>>

\* The statement fails: on another file, without the right to write, or busy.
InitSchemaFails(p) ==
    /\ opening[p] = "schema"
    /\ file = "foreign" \/ (Writes(p) /\ ~Writable) \/ contended
    /\ Goes(p, "failed")
    /\ UNCHANGED <<directory, database, contended, next>>

Open(p) == EnsureParentDir(p) \/ ConnectionOpen(p) \/ InitSchema(p) \/ InitSchemaFails(p)

\* A process that dies while it writes may leave its journal.
Dies(writing) == journal' \in {journal, journal \/ (writing /\ Writable)}
RunsStatement(p) == opening[p] = "schema" /\ file = "database" /\ next[p] > schema

\* Other processes at the same database: their locks, and the journals that
\* they leave or roll back.
OthersAtIt ==
    /\ file = "database" /\ Writable
    /\ contended' \in BOOLEAN /\ journal' \in BOOLEAN
    /\ UNCHANGED <<directory, file, schema, opening, next>>
=============================================================================
