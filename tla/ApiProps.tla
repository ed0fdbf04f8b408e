------------------------------ MODULE ApiProps ------------------------------
(***************************************************************************)
(* What the server and the commands promise each other and their users     *)
(* about an index that may be missing, foreign or half made.               *)
(***************************************************************************)
EXTENDS ApiServer

\* Whoever gets a handle from Indexer::open has the whole schema behind it,
\* also if others create the index at the same time or died over it
\* (indexer.rs: idempotent statements).
OpenedIsComplete ==
    \A p \in Processes : opening[p] = "opened" => file = "database" /\ schema = Statements

\* stats and prune create no index: by the time they open one it is there,
\* and nothing takes it away (stats_cmd.rs, prune_cmd.rs: "don't auto-create").
LookersFindIt ==
    \A p \in DOMAIN args :
        args[p].command \in {"stats", "prune"} /\ opening[p] # "no" => Exists

\* An index is made whole by whoever may make it, and by nobody else.
IndexIsMade == OpenedIsComplete /\ LookersFindIt

\* A refused request is at fault; one that is not is an internal error only if
\* its query trips SQLite or the clock, if the index is foreign, closed to the
\* server or kept locked by others, if a killed writer has left a journal that
\* no writer has rolled back yet, or if the table is not there, its maker having
\* stopped or being at it just then (error.rs; main.rs: "rather than as a flurry
\* of 500s per request").
AtFault(r) ==
    /\ r.route = "query" /\ r.method \in {"GET", "HEAD"}
    /\ r.limit = "bad" \/ r.q \in {"missing", "unparseable", "badtime"}
\* Of a bad datetime nobody hears while the index cannot even be opened.
Hidden(r) == directory = "closed" /\ r.limit # "bad" /\ r.q = "badtime"
Blamed ==
    \A c \in Clients : status[c] = 0 /\ status'[c] # 0 =>
        /\ (status'[c] = 400) <=> AtFault(request[c]) /\ ~Hidden(request[c])
        /\ status'[c] = 500 =>
              \/ request[c].route = "query" /\ request[c].q \in {"panics", "badpath", "refused"}
              \/ file = "foreign" \/ directory = "closed" \/ contended \/ journal
              \/ ~TableExists /\ (interrupted \/ \E p \in Commands : Creating(p))

\* Indexer::open fails only on a directory that cannot be made, a file that is no
\* database or may not be opened, or because others keep the database locked;
\* without the right to write, only if there is something to write.  It never
\* fails because another process was there first.
OpensFailForACause ==
    \A p \in Processes : opening[p] # "failed" /\ opening'[p] = "failed" =>
        \/ directory \in {"forbidden", "closed"} \/ file = "foreign" \/ contended
        \/ directory = "readonly" /\ (~Exists \/ schema < Statements \/ journal)

\* Every error has one of its causes, of a request as of an open.
BlameIsRight == [][Blamed /\ OpensFailForACause]_vars

\* A health check succeeds only once the index has its table, unless it is foreign,
\* was left without the table or is being created by a command just then (main.rs binds behind ensure_index_exists).
HealthyAnswers ==
    probed => TableExists \/ file = "foreign" \/ interrupted \/ \E p \in Commands : Creating(p)

\* A server whose origins are refused has not opened, let alone created, the
\* index, and not listened (main.rs: "Validate CORS config before touching the
\* filesystem").
BadOriginsTouchNothing ==
    ParseCorsOrigins(cast.api.origins) = Failed => opening[Server] = "no" /\ ~listening

\* The server does the steps of its start in their order: origins, index, port.
StartInOrder == HealthyAnswers /\ BadOriginsTouchNothing

\* The server never panics as a whole, whatever its arguments and the requests;
\* a command does so on a duration that is out of range, in a query or behind
\* --older-than, and stats and prune if their output breaks.
PanicsAreKnown ==
    /\ exit # "panic"
    /\ \A p \in DOMAIN args : outcome[p] = "panic" =>
          \/ args[p].command = "query" /\ args[p].text = "panics"
          \/ args[p].command = "prune" /\ args[p].older_than = "panics"
          \/ args[p].command \in {"stats", "prune"} /\ pipe[p] # "open"

\* A request that the server has read is never cut off, by whatever signals at
\* whatever time (main.rs: with_graceful_shutdown).
AcceptedIsAnswered ==
    \A c \in Clients : request[c] # NoRequest => client[c] # "cut"

\* A command that exits with 0 has written all of its result, or its reader
\* has gone (render.rs).
PrintedInFull ==
    \A p \in Commands : outcome[p] = "ok" => printed[p] = rows[p] \/ pipe[p] = "closed"

\* Every end of a command tells its caller what became of the result.
CommandsEndWell == PrintedInFull /\ PanicsAreKnown

\* A server told to stop does so, unless a client keeps a request half sent or
\* a large answer half read: nothing bounds the wait for it.
SignalEnds ==
    server = "stopping" ~> (server = "down" \/ \E c \in Clients : client[c] \in {"half", "stalled"})

\* Every request that the server has read is answered to a client that stays and
\* reads, also if its query panics or the server is told to stop meanwhile.
SentIsAnswered ==
    \A c \in Clients : client[c] = "sent" ~> client[c] \in {"answered", "stalled", "gone"}
=============================================================================
