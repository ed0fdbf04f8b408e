----------------------------- MODULE ApiServer -----------------------------
(***************************************************************************)
(* logdive-api (crates/api): start-up, which creates an index that is      *)
(* missing, requests from connection to answer, and shutdown on a signal,  *)
(* beside commands that create and use the same index.  A connection waits *)
(* in the backlog of the listener until it is accepted; a client may leave *)
(* a request half sent for ever, and an answer that the buffers of the     *)
(* connection do not hold half read.                                       *)
(***************************************************************************)
EXTENDS IndexCommands, Sequences, SequencesExt

CONSTANTS
    Clients,
    Casts,          \* what a behaviour begins with: [directory, file, schema, journal, shared, args, api, requests]
    MaxStarts, MaxSignals       \* bounds

VARIABLES
    cast,
    server,         \* "down", "starting", "bound", "serving", "stopping"
    step,           \* what it does next of Startup
    listening, exit, layer,
    starts, signals,
    client, request, status,
    probed,         \* history: a health check has succeeded
    interrupted     \* history: a process stopped between the file and the table
serverVars == <<server, step, listening, exit, layer, starts, signals>>
clientVars == <<client, request, status>>
history == <<probed, interrupted>>
vars == <<indexVars, args, commandVars, cast, serverVars, clientVars, history>>

Server == "api"
ASSUME CastsAssumption ==
    \A c \in Casts :
        /\ c.directory \in Directories /\ c.file \in Files /\ c.schema \in 0 .. Statements
        /\ c.journal \in BOOLEAN /\ DOMAIN c.args \subseteq Commands
        /\ \A p \in DOMAIN c.args : c.args[p].command \in {"ingest", "query", "stats", "prune"}
ASSUME ProcessesAssumption == Processes = Commands \cup {Server} /\ Server \notin Commands

-----------------------------------------------------------------------------
(* Start-up. *)

\* Fault: the index is made before the origins are looked at.
StartupIndexFirst == <<"index", "origins", "router", "address", "bind">>
\* Fault: the port is bound first, the index made behind it.
StartupBindFirst == <<"origins", "router", "address", "bind", "index">>

Startup == <<"origins", "index", "router", "address", "bind">>

Parts(raw) == SelectSeq(raw, LAMBDA part : part # "")
ASSUME OriginsAssumption == \A c \in Casts : Parts(c.api.origins) \in Seq(STRING)
NoRequest == [route |-> "none"]
Disabled == [kind |-> "disabled"]
Failed == [kind |-> "failed"]

\* Fault: a star may stand between other origins.
ParseCorsOriginsMixed(raw) ==
    IF "invalid" \in Range(raw) THEN Failed ELSE [kind |-> "origins", list |-> Parts(raw)]

\* The origins of --cors-origins, between its commas.
ParseCorsOrigins(raw) ==
    LET parts == Parts(raw)
    IN  IF (Contains(parts, "*") /\ Len(parts) > 1) \/ Contains(parts, "invalid") THEN Failed
        ELSE [kind |-> "origins", list |-> parts]

\* tower_http panics on a list with a star.
BuildCorsLayer(origins) ==
    IF origins = <<>> THEN Disabled
    ELSE IF Len(origins) = 1 /\ origins[1] = "*" THEN [kind |-> "any"]
    ELSE IF Contains(origins, "*") THEN Failed ELSE [kind |-> "list", list |-> origins]

At(what) == server = "starting" /\ Startup[step] = what
Continue ==
    /\ step' = step + 1
    /\ server' = IF step = Len(Startup) THEN "bound" ELSE server
    /\ UNCHANGED exit

\* A client whose connection goes down with the server keeps what it was told.
Disconnected == [c \in Clients |-> IF client[c] \in {"away", "answered", "gone"} THEN client[c] ELSE "cut"]

End(how) ==
    /\ server' = "down" /\ exit' = how /\ listening' = FALSE /\ client' = Disconnected
    /\ UNCHANGED <<step, starts, signals, cast, args, commandVars, request, status, probed>>

Quietly == UNCHANGED <<listening, starts, signals, cast, args, commandVars, clientVars, probed>>

ReadOrigins ==
    /\ At("origins")
    /\ IF ParseCorsOrigins(cast.api.origins) = Failed
       THEN End("error") /\ UNCHANGED <<indexVars, layer>>
       ELSE Continue /\ Quietly /\ UNCHANGED <<indexVars, layer>>

\* ensure_index_exists: what is there counts as an index.
EnsureIndexExists ==
    /\ At("index")
    /\ \/ /\ opening[Server] = "no" /\ ~Exists
          /\ Goes(Server, "directory") /\ UNCHANGED <<directory, database, contended, next>>
          /\ Quietly /\ UNCHANGED <<server, step, exit, layer>>
       \/ Open(Server) /\ Quietly /\ UNCHANGED <<server, step, exit, layer>>
       \/ opening[Server] = "failed" /\ End("error") /\ UNCHANGED <<indexVars, layer>>
       \/ /\ opening[Server] = "opened" \/ (opening[Server] = "no" /\ Exists)
          /\ Continue /\ Quietly /\ UNCHANGED <<indexVars, layer>>

BuildRouter ==
    /\ At("router")
    /\ layer' = BuildCorsLayer(ParseCorsOrigins(cast.api.origins).list)
    /\ IF layer' = Failed THEN End("panic") /\ UNCHANGED indexVars
       ELSE Continue /\ Quietly /\ UNCHANGED indexVars

ReadAddress ==
    /\ At("address")
    /\ IF cast.api.host = "malformed" THEN End("error") /\ UNCHANGED <<indexVars, layer>>
       ELSE Continue /\ Quietly /\ UNCHANGED <<indexVars, layer>>

\* The port may be taken; from here on connections wait in the backlog.
Bind ==
    /\ At("bind")
    /\ \/ End("error") /\ UNCHANGED <<indexVars, layer>>
       \/ /\ Continue /\ listening' = TRUE
          /\ UNCHANGED <<indexVars, layer, starts, signals, cast, args, commandVars, clientVars, probed>>

\* axum::serve installs the handlers of the signals.
Serve ==
    /\ server = "bound"
    /\ server' = "serving"
    /\ Quietly /\ UNCHANGED <<indexVars, step, exit, layer>>

StartStep == ReadOrigins \/ EnsureIndexExists \/ BuildRouter \/ ReadAddress \/ Bind \/ Serve

-----------------------------------------------------------------------------
(* Requests. *)

\* Fault: a datetime that is no datetime is the server's fault.
StatusOfDatetime(error) == IF error \in {"QueryParse", "UnsafeFieldName"} THEN 400 ELSE 500

\* AppError: what a user has sent wrong is a bad request, anything else is
\* internal.
Status(error) == IF error \in {"QueryParse", "InvalidDatetime", "UnsafeFieldName"} THEN 400 ELSE 500

Becomes(c, phase) == client' = [client EXCEPT ![c] = phase]
Elsewhere == UNCHANGED <<indexVars, args, commandVars, cast, serverVars, probed>>

Connect(c) ==
    /\ listening /\ client[c] = "away" /\ c \in DOMAIN cast.requests
    /\ Becomes(c, "queued") /\ UNCHANGED <<request, status>> /\ Elsewhere

Accept(c) ==
    /\ server = "serving" /\ client[c] = "queued"
    /\ Becomes(c, "connected") /\ UNCHANGED <<request, status>> /\ Elsewhere

SendPart(c) ==
    /\ server = "serving" /\ client[c] = "connected"
    /\ Becomes(c, "half") /\ UNCHANGED <<request, status>> /\ Elsewhere

\* On an idle connection the server reads nothing once it is stopping.
Send(c) ==
    /\ \/ client[c] = "connected" /\ server = "serving"
       \/ client[c] = "half"
    /\ \E r \in cast.requests[c] : request' = [request EXCEPT ![c] = r]
    /\ Becomes(c, "sent") /\ UNCHANGED status /\ Elsewhere

\* The answer is there, and written as the client reads it.
Answer(c, code) ==
    /\ status' = [status EXCEPT ![c] = code]
    /\ Becomes(c, "writing") /\ UNCHANGED request /\ Elsewhere

\* build_router: the status of a request that reaches no handler, or 0; get()
\* takes HEAD too.
Unrouted(r) ==
    IF r.route \notin {"query", "stats", "version"} THEN 404
    ELSE IF r.method \notin {"GET", "HEAD"} THEN 405 ELSE 0

\* What version_handler and query_handler answer without the index, or 0.
VersionHandler == 200
QueryHandler(r) ==
    IF r.limit = "bad" \/ r.q = "missing" THEN 400
    ELSE IF r.q = "unparseable" THEN Status("QueryParse") ELSE 0

Early(r) ==
    IF Unrouted(r) # 0 THEN Unrouted(r)
    ELSE IF r.route = "version" THEN VersionHandler
    ELSE IF r.route = "query" THEN QueryHandler(r) ELSE 0

\* The router and the handler up to spawn_blocking.
Handle(c) ==
    /\ client[c] = "sent"
    /\ IF Early(request[c]) # 0 THEN Answer(c, Early(request[c]))
       ELSE Becomes(c, "running") /\ UNCHANGED <<request, status>> /\ Elsewhere

\* with_connection: Indexer::open_read_only does not create the file.
OpenReadOnly(c) ==
    /\ client[c] = "running"
    /\ IF Exists /\ directory # "closed" THEN Becomes(c, "opened") /\ UNCHANGED <<request, status>> /\ Elsewhere
       ELSE Answer(c, Status("Sqlite"))

\* What the closure of a handler returns; stats_handler has no text to fail on.
HandlerResults(r) == ExecuteResults(IF r.route = "query" THEN r.q ELSE "fine", FALSE)

\* A closure that panics ends its task only, and its join error is answered.
StatusOf(result) ==
    IF result = "rows" THEN 200 ELSE IF result = "panic" THEN Status("Io") ELSE Status(result)

\* Fault: nobody waits for a task that has panicked.
ExecuteUnjoined(c) ==
    /\ client[c] = "opened"
    /\ \E result \in HandlerResults(request[c]) \ {"panic"} : Answer(c, StatusOf(result))

Execute(c) ==
    /\ client[c] = "opened"
    /\ \E result \in HandlerResults(request[c]) : Answer(c, StatusOf(result))

\* What is left of the answer goes out.
Write(c) ==
    /\ client[c] = "writing"
    /\ Becomes(c, "answered") /\ UNCHANGED <<request, status>> /\ Elsewhere

\* Rows or tags, as many as there are, but not to HEAD.
Large(c) == status[c] = 200 /\ request[c].route \in {"query", "stats"} /\ request[c].method = "GET"

\* The client stops reading an answer with the buffers full, and may read on.
Stall(c) ==
    /\ client[c] = "writing" /\ Large(c)
    /\ Becomes(c, "stalled") /\ UNCHANGED <<request, status>> /\ Elsewhere
ReadOn(c) ==
    /\ client[c] = "stalled"
    /\ Becomes(c, "writing") /\ UNCHANGED <<request, status>> /\ Elsewhere

Leave(c) ==
    /\ \/ client[c] \in {"queued", "connected", "half"} /\ Becomes(c, "cut")
       \/ client[c] \in {"sent", "running", "opened", "writing", "stalled"} /\ Becomes(c, "gone")
    /\ UNCHANGED <<request, status>> /\ Elsewhere

Respond(c) == Accept(c) \/ Handle(c) \/ OpenReadOnly(c) \/ Execute(c) \/ Write(c)

-----------------------------------------------------------------------------
(* Signals, shutdown and everything else that happens. *)

\* Ctrl-C or SIGTERM: before axum serves it kills the process, the first one
\* then stops it, and any further one does nothing.  The listener closes with
\* its backlog.
Signal ==
    /\ signals < MaxSignals
    /\ signals' = signals + 1
    /\ \/ /\ server \in {"starting", "bound"}
          /\ server' = "down" /\ exit' = "killed" /\ client' = Disconnected /\ Goes(Server, "no")
          /\ Dies(RunsStatement(Server))
       \/ /\ server = "serving"
          /\ server' = "stopping"
          /\ client' = [c \in Clients |-> IF client[c] = "queued" THEN "cut" ELSE client[c]]
          /\ UNCHANGED <<journal, opening, exit>>
       \/ server = "stopping" /\ UNCHANGED <<server, client, journal, opening, exit>>
    /\ listening' = FALSE
    /\ UNCHANGED <<directory, file, schema, contended, next, args, commandVars, cast, step, layer,
                   starts, request, status, probed>>

\* Fault: connections without any request are waited for too.
PendingAll == {c \in Clients : client[c] \in {"connected", "half", "sent", "running", "opened", "writing", "stalled"}}
\* Fault: an answer that is there is not waited for.
PendingUnwritten == {c \in Clients : client[c] \in {"half", "sent", "running", "opened"}}

\* hyper closes an idle connection, finishes one on which it has read, and
\* waits until the answer is out.
Pending == {c \in Clients : client[c] \in {"half", "sent", "running", "opened", "writing", "stalled"}}

Shutdown ==
    /\ server = "stopping" /\ Pending = {}
    /\ End("ok") /\ UNCHANGED <<indexVars, layer>>

\* A service manager starts it again.
Start ==
    /\ server = "down" /\ starts < MaxStarts /\ cast.api.used
    /\ server' = "starting" /\ step' = 1 /\ exit' = "none" /\ starts' = starts + 1
    /\ Goes(Server, "no") /\ layer' = Disabled
    /\ UNCHANGED <<directory, database, contended, next, args, commandVars, cast, listening, signals,
                   clientVars, probed>>

\* logdive-api --health-check, to the loopback address whatever the host is.
HealthCheck ==
    /\ listening /\ cast.api.host \in {"127.0.0.1", "0.0.0.0"} /\ ~probed
    /\ probed' = TRUE
    /\ UNCHANGED <<indexVars, args, commandVars, cast, serverVars, clientVars>>

Command(p) ==
    /\ CommandStep(p) \/ PipeBreaks(p) \/ KillCommand(p)
    /\ UNCHANGED <<args, cast, serverVars, clientVars, probed>>

Others ==
    /\ cast.shared /\ OthersAtIt
    /\ UNCHANGED <<args, commandVars, cast, serverVars, clientVars, probed>>

Init ==
    /\ cast \in Casts
    /\ directory = cast.directory /\ file = cast.file /\ schema = cast.schema
    /\ journal = cast.journal /\ contended = FALSE
    /\ opening = [p \in Processes |-> "no"] /\ next = [p \in Processes |-> 1]
    /\ args = cast.args /\ outcome = [p \in Commands |-> IF p \in DOMAIN args THEN "start" ELSE "ok"]
    /\ rows = [p \in Commands |-> 0] /\ printed = rows /\ pipe = [p \in Commands |-> "open"]
    /\ server = "down" /\ step = 1 /\ listening = FALSE /\ exit = "none" /\ layer = Disabled
    /\ starts = 0 /\ signals = 0
    /\ client = [c \in Clients |-> "away"] /\ request = [c \in Clients |-> NoRequest]
    /\ status = [c \in Clients |-> 0]
    /\ probed = FALSE /\ interrupted = (file = "database" /\ ~TableExists)

ClientStep(c) ==
    Connect(c) \/ SendPart(c) \/ Send(c) \/ Leave(c) \/ Stall(c) \/ ReadOn(c) \/ Respond(c)

\* A process that was about to make the table stops: killed, or with an error.
Interrupts == interrupted' = (interrupted \/ \E p \in Processes : Creating(p) /\ ~(Creating(p) \/ TableExists)')

Next ==
    /\ \/ StartStep \/ Start \/ Signal \/ Shutdown \/ HealthCheck \/ Others
       \/ \E c \in Clients : ClientStep(c)
       \/ \E p \in DOMAIN args : Command(p)
    /\ Interrupts

Spec == Init /\ [][Next]_vars

\* The server's own steps go on; clients, users and signals need not.
Fairness ==
    /\ WF_vars(StartStep /\ Interrupts) /\ WF_vars(Shutdown /\ Interrupts)
    /\ \A c \in Clients : WF_vars(Respond(c) /\ Interrupts)

FairSpec == Spec /\ Fairness
=============================================================================
