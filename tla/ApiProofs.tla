------------------------------ MODULE ApiProofs ------------------------------
(***************************************************************************)
(* The creation of the index and what the server promises, for every       *)
(* number of processes, commands, clients, starts and signals: what        *)
(* Indexer::open hands out is complete and those who only look find an     *)
(* index; a health check that succeeds says something about it, origins    *)
(* that are refused leave everything as it was, and no request that the    *)
(* server has read is cut off.                                             *)
(***************************************************************************)
EXTENDS ApiProps, TLAPS

-----------------------------------------------------------------------------
(* The creation of the index.                                              *)

\* A process that runs statement n finds the n - 1 before it done, by itself or
\* by others, and no statement is ever undone.
Progress(p) ==
    opening[p] = "schema" =>
        /\ Exists /\ next[p] \in 1 .. Statements
        /\ file = "database" => schema >= next[p] - 1

CreationTypes ==
    /\ file \in Files /\ schema \in 0 .. Statements
    /\ opening \in [Processes -> Phases] /\ next \in [Processes -> Nat]
    /\ DOMAIN args \subseteq Commands

CreationInv ==
    /\ CreationTypes
    /\ \A p \in Processes : Progress(p)
    /\ OpenedIsComplete
    /\ LookersFindIt

\* The variables that the invariant is about, but for where the processes are.
Rest == <<file, schema, next, args>>

\* p may go on to open the index if it may create it or has seen it.
MayOpen(p) == p \in DOMAIN args /\ args[p].command \in {"stats", "prune"} => Exists

USE DEF Phases, Files, Exists, database

\* A process that leaves Indexer::open, or is about to enter it.
LEMMA ComesOrGoes ==
    ASSUME CreationInv, NEW p \in Processes, UNCHANGED Rest,
           \/ Goes(p, "no")
           \/ Goes(p, "directory") /\ MayOpen(p)
    PROVE  CreationInv'
<1>1. PICK phase \in {"no", "directory"} :
            /\ opening' = [opening EXCEPT ![p] = phase]
            /\ phase = "directory" => MayOpen(p)
  BY DEF Goes
<1>2. CreationTypes'
  BY <1>1 DEF CreationInv, CreationTypes, Rest
<1>3. \A q \in Processes : opening'[q] = IF q = p THEN phase ELSE opening[q]
  BY <1>1 DEF CreationInv, CreationTypes
<1>4. \A q \in Processes : Progress(q)'
  BY <1>3 DEF CreationInv, Progress, Rest
<1>5. OpenedIsComplete'
  BY <1>3 DEF CreationInv, OpenedIsComplete, Rest
<1>6. LookersFindIt'
  <2> SUFFICES ASSUME NEW q \in DOMAIN args, args[q].command \in {"stats", "prune"}, opening'[q] # "no"
               PROVE  Exists
    BY DEF LookersFindIt, Rest
  <2>1. q \in Processes
    BY ProcessesAssumption DEF CreationInv, CreationTypes
  <2>2. CASE q = p
    BY <2>2, <2>1, <1>1, <1>3 DEF MayOpen
  <2>3. CASE q # p
    BY <2>3, <2>1, <1>3 DEF CreationInv, LookersFindIt
  <2> QED BY <2>2, <2>3
<1> QED BY <1>2, <1>4, <1>5, <1>6 DEF CreationInv

\* A step of Indexer::open moves one process.
LEMMA OpenMoves ==
    ASSUME CreationInv, NEW p \in Processes, Open(p)
    PROVE  /\ opening[p] \in {"directory", "file", "schema"}
           /\ \A q \in Processes : q # p => opening'[q] = opening[q] /\ next'[q] = next[q]
BY DEF Open, EnsureParentDir, ConnectionOpen, InitSchema, InitSchemaFails, Goes, CreationInv, CreationTypes

\* It may fail, with all that there is left as it was.
LEMMA OpenFails ==
    ASSUME CreationInv, NEW p \in Processes, Open(p), UNCHANGED args,
           opening'[p] = "failed", UNCHANGED <<file, schema>>, next' \in [Processes -> Nat]
    PROVE  CreationInv'
<1>1. \A q \in Processes : q # p => opening'[q] = opening[q] /\ next'[q] = next[q]
  BY OpenMoves
<1>2. CreationTypes'
  BY DEF Open, EnsureParentDir, ConnectionOpen, InitSchema, InitSchemaFails, Goes, CreationInv, CreationTypes
<1>3. \A q \in Processes : Progress(q)'
  BY <1>1 DEF Progress, CreationInv
<1>4. OpenedIsComplete'
  BY <1>1 DEF OpenedIsComplete, CreationInv
<1>5. LookersFindIt'
  <2>1. opening[p] # "no"
    BY OpenMoves
  <2> QED BY <1>1, <2>1, ProcessesAssumption DEF LookersFindIt, CreationInv, CreationTypes
<1> QED BY <1>2, <1>3, <1>4, <1>5 DEF CreationInv

\* A step of Indexer::open.
LEMMA Opens ==
    ASSUME CreationInv, NEW p \in Processes, Open(p), UNCHANGED args
    PROVE  CreationInv'
<1> USE SchemaAssumption
<1>1. \A q \in Processes : q # p => opening'[q] = opening[q] /\ next'[q] = next[q]
  BY OpenMoves
<1>2. CASE EnsureParentDir(p)
  <2>1. opening'[p] = IF directory = "forbidden" THEN "failed" ELSE "file"
    BY <1>2 DEF EnsureParentDir, Goes, CreationInv, CreationTypes
  <2>2. CreationTypes'
    BY <1>2 DEF EnsureParentDir, Goes, CreationInv, CreationTypes
  <2>3. \A q \in Processes : Progress(q)'
    BY <1>1, <1>2, <2>1 DEF EnsureParentDir, Progress, CreationInv
  <2>4. OpenedIsComplete'
    BY <1>1, <1>2, <2>1 DEF EnsureParentDir, OpenedIsComplete, CreationInv
  <2>5. LookersFindIt'
    BY <1>1, <1>2, ProcessesAssumption DEF EnsureParentDir, LookersFindIt, CreationInv, CreationTypes
  <2> QED BY <2>2, <2>3, <2>4, <2>5 DEF CreationInv
<1>3. CASE ConnectionOpen(p) /\ Openable
  <2>1. opening'[p] = "schema" /\ next'[p] = 1 /\ schema' = schema /\ Exists'
    BY <1>3 DEF ConnectionOpen, Goes, CreationInv, CreationTypes
  <2>2. CreationTypes'
    BY <1>3 DEF ConnectionOpen, Goes, CreationInv, CreationTypes
  <2>3. \A q \in Processes : Progress(q)'
    BY <1>1, <1>3, <2>1 DEF ConnectionOpen, Progress, CreationInv, CreationTypes
  <2>4. OpenedIsComplete'
    BY <1>1, <1>3, <2>1 DEF ConnectionOpen, OpenedIsComplete, CreationInv
  <2>5. LookersFindIt'
    BY <2>1 DEF LookersFindIt
  <2> QED BY <2>2, <2>3, <2>4, <2>5 DEF CreationInv
<1>4. CASE ConnectionOpen(p) /\ ~Openable
  <2>1. /\ opening'[p] = "failed" /\ UNCHANGED <<file, schema>>
        /\ next' \in [Processes -> Nat]
    BY <1>4 DEF ConnectionOpen, Goes, CreationInv, CreationTypes
  <2> QED BY <2>1, OpenFails
<1>5. CASE InitSchema(p)
  <2>1. /\ next[p] \in 1 .. Statements /\ file' = file /\ file = "database"
        /\ next'[p] = next[p] + 1 /\ schema \in 0 .. Statements
    BY <1>5 DEF InitSchema, Progress, CreationInv, CreationTypes
  <2>2. /\ schema' \in 0 .. Statements /\ schema' >= schema /\ schema' >= next[p]
    BY <1>5, <2>1 DEF InitSchema
  <2>3. opening'[p] = IF next[p] = Statements THEN "opened" ELSE "schema"
    BY <1>5 DEF InitSchema, Goes, CreationInv, CreationTypes
  <2>4. CreationTypes'
    BY <1>5, <2>2 DEF InitSchema, Goes, CreationInv, CreationTypes
  <2>5. \A q \in Processes : Progress(q)'
    BY <1>1, <2>1, <2>2, <2>3 DEF Progress, CreationInv, CreationTypes
  <2>6. OpenedIsComplete'
    BY <1>1, <2>1, <2>2, <2>3 DEF OpenedIsComplete, CreationInv, CreationTypes
  <2>7. LookersFindIt'
    BY <2>1 DEF LookersFindIt
  <2> QED BY <2>4, <2>5, <2>6, <2>7 DEF CreationInv
<1>6. CASE InitSchemaFails(p)
  <2>1. /\ opening'[p] = "failed" /\ UNCHANGED <<file, schema>>
        /\ next' \in [Processes -> Nat]
    BY <1>6 DEF InitSchemaFails, Goes, CreationInv, CreationTypes
  <2> QED BY <2>1, OpenFails
<1> QED BY <1>2, <1>3, <1>4, <1>5, <1>6 DEF Open

\* Everything else leaves the index and those who open it alone.
LEMMA OthersKeepIt ==
    ASSUME CreationInv, UNCHANGED <<opening, Rest>>
    PROVE  CreationInv'
BY DEF CreationInv, CreationTypes, Progress, OpenedIsComplete, LookersFindIt, Rest

LEMMA CreationInit == Init => CreationInv
<1> SUFFICES ASSUME Init PROVE CreationInv
  OBVIOUS
<1>1. /\ file \in Files /\ schema \in 0 .. Statements
      /\ opening = [p \in Processes |-> "no"] /\ next = [p \in Processes |-> 1]
      /\ DOMAIN args \subseteq Commands /\ args = args
  BY CastsAssumption DEF Init
<1>2. CreationTypes
  BY <1>1 DEF CreationTypes
<1>3. \A p \in Processes : opening[p] = "no"
  BY <1>1
<1>4. DOMAIN args \subseteq Processes
  BY <1>1, ProcessesAssumption
<1> QED BY <1>2, <1>3, <1>4 DEF CreationInv, Progress, OpenedIsComplete, LookersFindIt

\* The start of the server: only its own creation of the index moves anything.
LEMMA StartStepKeeps ==
    ASSUME CreationInv, StartStep
    PROVE  CreationInv'
<1>1. Server \in Processes /\ Server \notin DOMAIN args
  BY ProcessesAssumption DEF CreationInv, CreationTypes
<1>2. UNCHANGED args
  BY DEF StartStep, ReadOrigins, EnsureIndexExists, BuildRouter, ReadAddress, Bind, Serve, End, Quietly
<1>3. CASE EnsureIndexExists
  <2>1. CASE Goes(Server, "directory") /\ UNCHANGED <<directory, database, contended, next>>
    BY <2>1, <1>1, <1>2, ComesOrGoes DEF MayOpen, Rest
  <2>2. CASE Open(Server)
    BY <2>2, <1>1, <1>2, Opens
  <2>3. CASE UNCHANGED indexVars
    BY <2>3, <1>2, OthersKeepIt DEF Rest, indexVars
  <2> QED BY <1>3, <2>1, <2>2, <2>3 DEF EnsureIndexExists
<1>4. CASE ReadOrigins \/ BuildRouter \/ ReadAddress \/ Bind \/ Serve
  <2>1. UNCHANGED indexVars
    BY <1>4 DEF ReadOrigins, BuildRouter, ReadAddress, Bind, Serve
  <2> QED BY <2>1, <1>2, OthersKeepIt DEF Rest, indexVars
<1> QED BY <1>3, <1>4 DEF StartStep

\* The commands: stats and prune go on to open only what they have seen.
LEMMA CommandKeeps ==
    ASSUME CreationInv, NEW p \in DOMAIN args, Command(p)
    PROVE  CreationInv'
<1>1. p \in Processes
  BY ProcessesAssumption DEF CreationInv, CreationTypes
<1>2. UNCHANGED args
  BY DEF Command
<1>3. CASE Main(p)
  <2> DEFINE how == IF Accepted(args[p]) THEN BeforeOpen(args[p]) ELSE "usage"
  <2>1. Goes(p, IF how = "opening" THEN "directory" ELSE "no") /\ UNCHANGED Rest
    BY <1>2, <1>3 DEF Main, Rest
  <2>2. how = "opening" => MayOpen(p)
    BY DEF BeforeOpen, MayOpen
  <2> QED BY <2>1, <2>2, <1>1, ComesOrGoes
<1>4. CASE OpenIndex(p)
  BY <1>4, <1>1, <1>2, Opens DEF OpenIndex
<1>5. CASE Work(p) \/ PruneFails(p) \/ PrintRow(p) \/ PipeBreaks(p)
  <2>1. UNCHANGED <<opening, file, schema, next>>
    BY <1>5 DEF Work, PruneFails, PrintRow, PipeBreaks, indexVars
  <2> QED BY <2>1, <1>2, OthersKeepIt DEF Rest
<1>6. CASE KillCommand(p)
  <2>1. Goes(p, "no") /\ UNCHANGED Rest
    BY <1>2, <1>6 DEF KillCommand, Rest
  <2> QED BY <2>1, <1>1, ComesOrGoes
<1> QED BY <1>3, <1>4, <1>5, <1>6 DEF Command, CommandStep

LEMMA CreationNext == CreationInv /\ [Next]_vars => CreationInv'
<1> SUFFICES ASSUME CreationInv, [Next]_vars PROVE CreationInv'
  OBVIOUS
<1>1. CASE StartStep
  BY <1>1, StartStepKeeps
<1>2. CASE Signal
  <2>1. UNCHANGED Rest
    BY <1>2 DEF Signal, Rest
  <2>2. Goes(Server, "no") \/ UNCHANGED opening
    BY <1>2 DEF Signal
  <2>3. CASE UNCHANGED opening
    BY <2>1, <2>3, OthersKeepIt
  <2> QED BY <2>1, <2>2, <2>3, ComesOrGoes, ProcessesAssumption
<1>3. CASE Start
  BY <1>3, ComesOrGoes, ProcessesAssumption DEF Start, Rest
<1>4. CASE Shutdown \/ HealthCheck \/ Others
  <2>1. UNCHANGED <<opening, Rest>>
    BY <1>4 DEF Shutdown, HealthCheck, Others, OthersAtIt, End, Rest, indexVars
  <2> QED BY <2>1, OthersKeepIt
<1>5. CASE \E c \in Clients : ClientStep(c)
  <2>1. Elsewhere
    BY <1>5 DEF ClientStep, Connect, SendPart, Send, Leave, Stall, ReadOn, Respond, Accept, Handle,
                OpenReadOnly, Execute, Write, Answer
  <2> QED BY <2>1, OthersKeepIt DEF Elsewhere, Rest, indexVars
<1>6. CASE \E p \in DOMAIN args : Command(p)
  BY <1>6, CommandKeeps
<1>7. CASE UNCHANGED vars
  BY <1>7, OthersKeepIt DEF vars, Rest, indexVars
<1> QED BY <1>1, <1>2, <1>3, <1>4, <1>5, <1>6, <1>7 DEF Next

\* Types, progress and the two properties of the creation hold for ever.
THEOREM CreationInvariant == Spec => []CreationInv
BY CreationInit, CreationNext, PTL DEF Spec

\* What Indexer::open hands out is a database with its whole schema, and stats
\* and prune never create the index they open.
THEOREM IndexIsMadeHolds == Spec => []IndexIsMade
<1>1. CreationInv => IndexIsMade
  BY DEF CreationInv, IndexIsMade
<1> QED BY <1>1, CreationInvariant, PTL

-----------------------------------------------------------------------------
(* The server.                                                             *)

Beginning == {"down", "starting", "bound"}
Inside(p) == opening[p] \in {"directory", "file", "schema"}

\* Where the server is in its start: in Indexer::open only at the second step,
\* and not past the first one with origins that are refused.
StartInv ==
    /\ server \in Beginning \cup {"serving", "stopping"} /\ step \in 1 .. 6
    /\ listening => server \in {"bound", "serving"}
    /\ server = "starting" => step <= 5
    /\ Inside(Server) => server = "starting" /\ step = 2
    /\ ParseCorsOrigins(cast.api.origins) = Failed =>
            step = 1 /\ opening[Server] = "no" /\ server \in {"down", "starting"}

\* A command that is in Indexer::open is neither at its start nor printing.
CommandsInv ==
    /\ DOMAIN outcome = Commands
    /\ \A p \in Commands : Inside(p) => outcome[p] = "opening"

\* A request is there only while its client waits for the answer, has it or has
\* gone by itself, and nobody is connected while the server does not serve.
Waiting == {"sent", "running", "opened", "writing", "stalled"}
ClientsInv ==
    /\ DOMAIN client = Clients /\ DOMAIN request = Clients
    /\ \A c \in Clients :
        /\ request[c] # NoRequest => client[c] \in Waiting \cup {"answered", "gone"}
        /\ server \in Beginning => client[c] \notin Waiting \cup {"connected", "half"}

\* The index has its table, is none, or somebody of S is about to make it,
\* unless somebody stopped before it was made.
Hopeful(S) ==
    \/ TableExists \/ file = "foreign" \/ interrupted
    \/ \E p \in S : Creating(p)

\* The server is past the second step of its start.
Past == server \in {"bound", "serving", "stopping"} \/ (server = "starting" /\ step > 2)

IndexInv ==
    /\ Exists => Hopeful(Processes)
    /\ Past => Exists /\ Hopeful(Commands)
    /\ probed => Hopeful(Commands)

ApiInv == CreationInv /\ StartInv /\ CommandsInv /\ ClientsInv /\ IndexInv

-----------------------------------------------------------------------------
(* What becomes of the index. *)

\* Nobody stops over the table without a trace.
LEMMA Traces ==
    ASSUME Interrupts
    PROVE  /\ interrupted => interrupted'
           /\ \A p \in Processes : Creating(p) => Creating(p)' \/ TableExists' \/ interrupted'
BY DEF Interrupts

\* No step of Indexer::open takes anything from the index.
LEMMA OpenKeeps ==
    ASSUME CreationInv, NEW p \in Processes, Open(p)
    PROVE  /\ file = "foreign" => file' = "foreign"
           /\ TableExists => TableExists'
           /\ Exists => Exists'
<1>1. CASE EnsureParentDir(p) \/ InitSchemaFails(p)
  BY <1>1 DEF EnsureParentDir, InitSchemaFails, TableExists
<1>2. CASE ConnectionOpen(p)
  BY <1>2 DEF ConnectionOpen, TableExists
<1>3. CASE InitSchema(p)
  BY <1>3 DEF InitSchema, TableExists, CreationInv, CreationTypes, Progress
<1> QED BY <1>1, <1>2, <1>3 DEF Open

\* The file comes with the hope for its table.
LEMMA FileIsHope ==
    ASSUME CreationInv, NEW p \in Processes, Open(p), ~Exists, Exists'
    PROVE  Hopeful(Processes)'
<1>1. ConnectionOpen(p) /\ Openable
  BY DEF Open, EnsureParentDir, ConnectionOpen, InitSchema, InitSchemaFails
<1>2. file' = "database" /\ opening'[p] = "schema"
  BY <1>1 DEF ConnectionOpen, Goes, CreationInv, CreationTypes
<1> QED BY <1>2 DEF Hopeful, Creating

\* Whatever happens to the index, the hope for it stays, and the server finds it.
LEMMA IndexStays ==
    ASSUME CreationInv, IndexInv, Interrupts,
           UNCHANGED <<file, schema>> \/ \E p \in Processes : Open(p),
           Past' => Past \/ (Exists /\ Hopeful(Commands)),
           probed' => probed \/ Hopeful(Commands)
    PROVE  IndexInv'
<1>1. /\ file = "foreign" => file' = "foreign"
      /\ TableExists => TableExists'
      /\ Exists => Exists'
  BY OpenKeeps DEF TableExists
<1>2. ASSUME NEW S \in SUBSET Processes, Hopeful(S)
      PROVE  Hopeful(S)'
  <2>1. CASE TableExists \/ file = "foreign" \/ interrupted
    BY <1>1, <2>1, Traces DEF Hopeful
  <2>2. CASE \E p \in S : Creating(p)
    BY <2>2, Traces DEF Hopeful
  <2> QED BY <1>2, <2>1, <2>2 DEF Hopeful
<1>3. Hopeful(Commands) => Hopeful(Commands)'
  BY <1>2, ProcessesAssumption
<1>4. Exists' => Hopeful(Processes)'
  <2>1. CASE Exists
    BY <1>2, <2>1 DEF IndexInv
  <2>2. CASE ~Exists /\ Exists'
    <3>1. PICK p \in Processes : Open(p)
      BY <2>2
    <3> QED BY <2>2, <3>1, FileIsHope
  <2> QED BY <2>1, <2>2
<1>5. Past' => Exists' /\ Hopeful(Commands)'
  BY <1>1, <1>3 DEF IndexInv
<1>6. probed' => Hopeful(Commands)'
  BY <1>3 DEF IndexInv
<1> QED BY <1>4, <1>5, <1>6 DEF IndexInv

-----------------------------------------------------------------------------
(* What becomes of the clients. *)

\* A connection goes down with the server where no request is on it.
LEMMA DisconnectedIsFair ==
    ASSUME ClientsInv, client' = Disconnected, UNCHANGED request,
           \A c \in Clients : client[c] \notin Waiting
    PROVE  ClientsInv'
<1>1. \A c \in Clients : client'[c] = IF client[c] \in {"away", "answered", "gone"} THEN client[c] ELSE "cut"
  BY DEF Disconnected
<1>2. DOMAIN client' = Clients
  BY DEF Disconnected
<1> QED BY <1>1, <1>2 DEF ClientsInv, Waiting

LEMMA SameClients ==
    ASSUME ClientsInv, UNCHANGED <<client, request>>, server' \in Beginning => server \in Beginning
    PROVE  ClientsInv'
BY DEF ClientsInv

\* One client, its request and the server.
LEMMA ClientStepKeeps ==
    ASSUME ClientsInv, UNCHANGED server, NEW c \in Clients, ClientStep(c)
    PROVE  ClientsInv'
<1>1. PICK phase : Becomes(c, phase)
  BY DEF ClientStep, Connect, SendPart, Send, Leave, Stall, ReadOn, Respond, Accept, Handle, OpenReadOnly,
         Execute, Write, Answer
<1>2. /\ DOMAIN client' = Clients
      /\ \A d \in Clients : client'[d] = IF d = c THEN phase ELSE client[d]
  BY <1>1 DEF Becomes, ClientsInv
<1>3. CASE Send(c)
  <2>1. PICK r : request' = [request EXCEPT ![c] = r]
    BY <1>3 DEF Send
  <2>2. client'[c] = "sent" /\ server \notin Beginning
    BY <1>2, <1>3 DEF Send, Becomes, ClientsInv, Beginning
  <2> QED BY <1>2, <2>1, <2>2 DEF ClientsInv, Waiting
<1>4. CASE Connect(c) \/ SendPart(c) \/ Accept(c) \/ (Leave(c) /\ client[c] \notin Waiting)
  <2>1. /\ UNCHANGED request /\ client[c] \in {"away", "queued", "connected", "half"}
        /\ phase \in {"queued", "connected", "half", "cut"}
        /\ phase \in {"connected", "half"} => server \notin Beginning
    BY <1>2, <1>4 DEF Connect, SendPart, Leave, Accept, Becomes, Beginning, ClientsInv, Waiting
  <2> QED BY <1>2, <2>1 DEF ClientsInv, Waiting
<1>5. CASE Handle(c) \/ OpenReadOnly(c) \/ Execute(c)
  <2>1. /\ UNCHANGED request /\ client[c] \in Waiting
        /\ phase \in {"running", "opened", "writing"}
    BY <1>2, <1>5 DEF Handle, OpenReadOnly, Execute, Answer, Becomes, ClientsInv, Waiting
  <2> QED BY <1>2, <2>1 DEF ClientsInv, Waiting
<1>6. CASE Write(c) \/ Stall(c) \/ ReadOn(c) \/ (Leave(c) /\ client[c] \in Waiting)
  <2>1. /\ UNCHANGED request /\ client[c] \in Waiting
        /\ phase \in {"answered", "stalled", "writing", "gone"}
    BY <1>2, <1>6 DEF Write, Stall, ReadOn, Leave, Becomes, ClientsInv, Waiting
  <2> QED BY <1>2, <2>1 DEF ClientsInv, Waiting
<1> QED BY <1>3, <1>4, <1>5, <1>6 DEF ClientStep, Respond

-----------------------------------------------------------------------------
(* The steps of the server. *)

\* The server's moves in Indexer::open are not those of a command.
LEMMA ServerMoves ==
    ASSUME CreationInv, CommandsInv, UNCHANGED outcome,
           Open(Server) \/ UNCHANGED opening \/ \E phase : Goes(Server, phase)
    PROVE  CommandsInv'
<1>1. Server \in Processes /\ \A p \in Commands : p \in Processes /\ p # Server
  BY ProcessesAssumption
<1>2. \A p \in Commands : opening'[p] = opening[p]
  <2>1. CASE Open(Server)
    BY <1>1, <2>1, OpenMoves
  <2>2. CASE \E phase : Goes(Server, phase)
    BY <1>1, <2>2 DEF Goes, CreationInv, CreationTypes
  <2> QED BY <2>1, <2>2
<1> QED BY <1>2 DEF CommandsInv, Inside

LEMMA EndKeeps ==
    ASSUME ApiInv, Interrupts, NEW how, End(how), UNCHANGED indexVars, ~Inside(Server),
           \A c \in Clients : client[c] \notin Waiting
    PROVE  ApiInv'
<1>1. CreationInv'
  BY OthersKeepIt DEF ApiInv, End, Rest, indexVars
<1>2. StartInv'
  BY DEF ApiInv, StartInv, End, indexVars, Inside, Beginning
<1>3. CommandsInv'
  BY ServerMoves DEF ApiInv, End, indexVars, commandVars
<1>4. ClientsInv'
  BY DisconnectedIsFair DEF ApiInv, End
<1>5. IndexInv'
  BY IndexStays DEF ApiInv, End, indexVars, Past
<1> QED BY <1>1, <1>2, <1>3, <1>4, <1>5 DEF ApiInv

LEMMA ContinueKeeps ==
    ASSUME ApiInv, Interrupts, server = "starting", step \in 1 .. 5, Continue,
           UNCHANGED <<indexVars, args, outcome, cast, client, request, probed>>,
           listening' = listening \/ (listening' = TRUE /\ step = 5),
           ~Inside(Server), ParseCorsOrigins(cast.api.origins) # Failed,
           step = 2 => Exists /\ Hopeful(Commands)
    PROVE  ApiInv'
<1>1. CreationInv'
  BY OthersKeepIt DEF ApiInv, Rest, indexVars
<1>2. /\ step' = step + 1 /\ server' = IF step = 5 THEN "bound" ELSE "starting"
  BY DEF Continue, Startup
<1>3. StartInv'
  <2>1. /\ ~Inside(Server)' /\ ~listening
        /\ ParseCorsOrigins(cast.api.origins)' # Failed
    BY DEF ApiInv, StartInv, Inside, indexVars
  <2> QED BY <1>2, <2>1 DEF StartInv, Beginning
<1>4. CommandsInv'
  BY ServerMoves DEF ApiInv, indexVars
<1>5. ClientsInv'
  BY SameClients DEF ApiInv, Beginning
<1>6. IndexInv'
  <2>1. step = 1 => ~Past'
    BY <1>2 DEF Past
  <2>2. step > 2 => Past
    BY DEF Past
  <2>3. step = 1 \/ step = 2 \/ step > 2
    OBVIOUS
  <2> QED BY <2>1, <2>2, <2>3, IndexStays DEF ApiInv, indexVars
<1> QED BY <1>1, <1>3, <1>4, <1>5, <1>6 DEF ApiInv

LEMMA EnsureIndexExistsKeeps ==
    ASSUME ApiInv, Interrupts, EnsureIndexExists
    PROVE  ApiInv'
<1> USE DEF ApiInv
<1>1. server = "starting" /\ step = 2 /\ ParseCorsOrigins(cast.api.origins) # Failed /\ ~listening
  <2>1. At("index") /\ step \in 1 .. 6 /\ (server = "starting" => step <= 5)
    BY DEF EnsureIndexExists, StartInv
  <2>2. server = "starting" /\ step \in 1 .. 5 /\ Startup[step] = "index"
    BY <2>1 DEF At
  <2>3. step = 2
    BY <2>2 DEF Startup
  <2> QED BY <2>2, <2>3 DEF StartInv
<1>2. \A c \in Clients : client[c] \notin Waiting
  BY <1>1 DEF ClientsInv, Beginning, Waiting
<1>3. Server \in Processes
  BY ProcessesAssumption
<1>4. ASSUME Open(Server) \/ (Goes(Server, "directory") /\ UNCHANGED <<directory, database, contended, next>>),
             Quietly, UNCHANGED <<server, step>>, CreationInv'
      PROVE  ApiInv'
  <2>1. UNCHANGED <<cast, outcome, client, request, listening, probed>>
    BY <1>4 DEF Quietly, commandVars, clientVars
  <2>2. StartInv'
    BY <1>1, <1>4, <2>1 DEF StartInv
  <2>3. CommandsInv'
    BY <1>4, <2>1, ServerMoves
  <2>4. ClientsInv'
    BY <1>4, <2>1, SameClients
  <2>5. IndexInv'
    BY <1>3, <1>4, <2>1, IndexStays DEF Past
  <2> QED BY <1>4, <2>2, <2>3, <2>4, <2>5
<1>5. CreationInv'
  BY StartStepKeeps DEF StartStep
<1>6. CASE Goes(Server, "directory") /\ UNCHANGED <<directory, database, contended, next>>
           /\ Quietly /\ UNCHANGED <<server, step>>
  BY <1>4, <1>5, <1>6
<1>7. CASE Open(Server) /\ Quietly /\ UNCHANGED <<server, step>>
  BY <1>4, <1>5, <1>7
<1>8. CASE opening[Server] = "failed" /\ End("error") /\ UNCHANGED indexVars
  BY <1>2, <1>8, EndKeeps DEF Inside
<1>9. CASE /\ opening[Server] = "opened" \/ (opening[Server] = "no" /\ Exists)
           /\ Continue /\ Quietly /\ UNCHANGED indexVars
  <2>1. Exists /\ Hopeful(Commands)
    <3>1. CASE opening[Server] = "opened"
      BY <1>3, <3>1, SchemaAssumption DEF CreationInv, OpenedIsComplete, Hopeful, TableExists
    <3>2. CASE opening[Server] = "no" /\ Exists
      BY <3>2, ProcessesAssumption DEF IndexInv, Hopeful, Creating
    <3> QED BY <1>9, <3>1, <3>2
  <2>2. ~Inside(Server)
    BY <1>9 DEF Inside
  <2>3. UNCHANGED <<cast, args, outcome, client, request, listening, probed>>
    BY <1>9 DEF Quietly, commandVars, clientVars
  <2> QED BY <1>1, <1>9, <2>1, <2>2, <2>3, ContinueKeeps
<1> QED BY <1>6, <1>7, <1>8, <1>9 DEF EnsureIndexExists

\* The steps that only go on or end.
LEMMA OtherStartsKeep ==
    ASSUME ApiInv, Interrupts, ReadOrigins \/ BuildRouter \/ ReadAddress \/ Bind
    PROVE  ApiInv'
<1>1. PICK what \in {"origins", "router", "address", "bind"} : At(what)
  BY DEF ReadOrigins, BuildRouter, ReadAddress, Bind
<1>2. /\ server = "starting" /\ step \in 1 .. 5 /\ step # 2
      /\ what # "origins" => step > 2
  <2>1. step \in 1 .. 6 /\ (server = "starting" => step <= 5)
    BY DEF ApiInv, StartInv
  <2> QED BY <1>1, <2>1 DEF At, Startup
<1>3. ~Inside(Server) /\ \A c \in Clients : client[c] \notin Waiting
  BY <1>2 DEF ApiInv, StartInv, ClientsInv, Beginning
<1>4. ASSUME NEW how, End(how), UNCHANGED indexVars
      PROVE  ApiInv'
  BY <1>3, <1>4, EndKeeps
<1>5. ASSUME Continue, UNCHANGED <<indexVars, args, outcome, cast, client, request, probed>>,
             listening' = listening \/ (listening' = TRUE /\ At("bind")),
             ParseCorsOrigins(cast.api.origins) # Failed
      PROVE  ApiInv'
  <2>1. At("bind") => step = 5
    BY <1>2 DEF At, Startup
  <2> QED BY <1>2, <1>3, <1>5, <2>1, ContinueKeeps
<1>6. CASE ReadOrigins
  BY <1>4, <1>5, <1>6 DEF ReadOrigins, Quietly, commandVars, clientVars
<1>7. ASSUME BuildRouter \/ ReadAddress \/ Bind
      PROVE  ParseCorsOrigins(cast.api.origins) # Failed
  <2>1. step > 2
    BY <1>7, <1>2 DEF BuildRouter, ReadAddress, Bind, At, Startup
  <2> QED BY <2>1 DEF ApiInv, StartInv
<1>8. CASE BuildRouter
  BY <1>4, <1>5, <1>7, <1>8 DEF BuildRouter, Quietly, commandVars, clientVars
<1>9. CASE ReadAddress
  BY <1>4, <1>5, <1>7, <1>9 DEF ReadAddress, Quietly, commandVars, clientVars
<1>10. CASE Bind
  BY <1>4, <1>5, <1>7, <1>10 DEF Bind, commandVars, clientVars
<1> QED BY <1>6, <1>8, <1>9, <1>10

LEMMA ServeKeeps ==
    ASSUME ApiInv, Interrupts, Serve
    PROVE  ApiInv'
<1>1. /\ server = "bound" /\ server' = "serving"
      /\ UNCHANGED <<indexVars, args, outcome, cast, client, request, probed, listening, step>>
  BY DEF Serve, Quietly, commandVars, clientVars
<1>2. CreationInv'
  BY <1>1, OthersKeepIt DEF ApiInv, Rest, indexVars
<1>3. StartInv'
  BY <1>1 DEF ApiInv, StartInv, Inside, indexVars, Beginning
<1>4. CommandsInv'
  BY <1>1, ServerMoves DEF ApiInv, indexVars
<1>5. ClientsInv'
  BY <1>1, SameClients DEF ApiInv, Beginning
<1>6. IndexInv'
  BY <1>1, IndexStays DEF ApiInv, indexVars, Past
<1> QED BY <1>2, <1>3, <1>4, <1>5, <1>6 DEF ApiInv

\* Start finds nobody connected, and the server not in Indexer::open.
LEMMA StartKeeps ==
    ASSUME ApiInv, Interrupts, Start
    PROVE  ApiInv'
<1> USE DEF ApiInv
<1>1. /\ server = "down" /\ server' = "starting" /\ step' = 1
      /\ Goes(Server, "no") /\ Server \in Processes
      /\ UNCHANGED <<file, schema, next, args, outcome, cast, client, request, probed, listening>>
  BY ProcessesAssumption DEF Start, commandVars, clientVars
<1>2. ~Inside(Server) /\ ~listening
  BY <1>1 DEF StartInv
<1>3. CreationInv'
  BY <1>1, ComesOrGoes DEF Rest
<1>4. StartInv'
  <2>1. opening'[Server] = "no"
    BY <1>1 DEF Goes, CreationInv, CreationTypes
  <2> QED BY <1>1, <1>2, <2>1 DEF StartInv, Inside, Beginning
<1>5. CommandsInv'
  BY <1>1, ServerMoves
<1>6. ClientsInv'
  BY <1>1, SameClients DEF Beginning
<1>7. IndexInv'
  BY <1>1, IndexStays DEF Past
<1> QED BY <1>3, <1>4, <1>5, <1>6, <1>7

\* A signal cuts off who waits in the backlog, or kills a server that nobody is
\* connected to.
LEMMA SignalKeeps ==
    ASSUME ApiInv, Interrupts, Signal
    PROVE  ApiInv'
<1> USE DEF ApiInv
<1>1. /\ UNCHANGED <<file, schema, next, args, outcome, cast, request, step, probed>>
      /\ listening' = FALSE /\ Server \in Processes
  BY ProcessesAssumption DEF Signal, commandVars
<1>2. CreationInv'
  BY CreationNext DEF Next
<1>3. CASE /\ server \in {"starting", "bound"} /\ server' = "down" /\ client' = Disconnected
           /\ Goes(Server, "no")
  <2>1. opening'[Server] = "no"
    BY <1>3, <1>1 DEF Goes, CreationInv, CreationTypes
  <2>2. StartInv'
    BY <1>1, <1>3, <2>1 DEF StartInv, Inside, Beginning
  <2>3. CommandsInv'
    BY <1>1, <1>3, ServerMoves
  <2>4. ClientsInv'
    <3>1. \A c \in Clients : client[c] \notin Waiting
      BY <1>3 DEF ClientsInv, Beginning
    <3> QED BY <1>1, <1>3, <3>1, DisconnectedIsFair
  <2>5. IndexInv'
    BY <1>1, <1>3, IndexStays DEF Past
  <2> QED BY <1>2, <2>2, <2>3, <2>4, <2>5
<1>4. CASE /\ server \in {"serving", "stopping"} /\ server' = "stopping"
           /\ UNCHANGED opening
           /\ \/ UNCHANGED client
              \/ client' = [c \in Clients |-> IF client[c] = "queued" THEN "cut" ELSE client[c]]
  <2>1. StartInv'
    BY <1>1, <1>4 DEF StartInv, Inside, Beginning
  <2>2. CommandsInv'
    BY <1>1, <1>4, ServerMoves
  <2>3. ClientsInv'
    <3>1. \A c \in Clients : client'[c] # client[c] => client[c] = "queued"
      BY <1>4
    <3>2. DOMAIN client' = Clients
      BY <1>4 DEF ClientsInv
    <3> QED BY <1>1, <1>4, <3>1, <3>2 DEF ClientsInv, Waiting, Beginning
  <2>4. IndexInv'
    BY <1>1, <1>4, IndexStays DEF Past
  <2> QED BY <1>2, <2>1, <2>2, <2>3, <2>4
<1> QED BY <1>3, <1>4 DEF Signal

\* Nothing that is read is pending once the server goes.
LEMMA ShutdownKeeps ==
    ASSUME ApiInv, Interrupts, Shutdown
    PROVE  ApiInv'
<1>1. \A c \in Clients : client[c] \notin Waiting
  BY DEF Shutdown, Pending, Waiting
<1>2. ~Inside(Server)
  BY DEF Shutdown, ApiInv, StartInv
<1> QED BY <1>1, <1>2, EndKeeps DEF Shutdown

\* The probe reaches a server that listens, and so one that has found an index.
LEMMA HealthCheckKeeps ==
    ASSUME ApiInv, Interrupts, HealthCheck
    PROVE  ApiInv'
<1> USE DEF ApiInv
<1>1. /\ UNCHANGED <<indexVars, args, outcome, cast, server, step, listening, client, request>>
      /\ listening
  BY DEF HealthCheck, commandVars, serverVars, clientVars
<1>2. CreationInv'
  BY <1>1, OthersKeepIt DEF Rest, indexVars
<1>3. StartInv' /\ ClientsInv'
  BY <1>1 DEF StartInv, ClientsInv, Inside, indexVars
<1>4. CommandsInv'
  BY <1>1, ServerMoves DEF indexVars
<1>5. IndexInv'
  <2>1. Hopeful(Commands)
    BY <1>1 DEF StartInv, IndexInv, Past
  <2> QED BY <1>1, <2>1, IndexStays DEF Past, indexVars
<1> QED BY <1>2, <1>3, <1>4, <1>5

\* Locks and journals of others change nothing that the invariant is about.
LEMMA OthersKeepAll ==
    ASSUME ApiInv, Interrupts, Others
    PROVE  ApiInv'
<1> USE DEF ApiInv
<1>1. UNCHANGED <<opening, file, schema, next, args, outcome, cast, server, step, listening, client, request, probed>>
  BY DEF Others, OthersAtIt, commandVars, serverVars, clientVars
<1>2. CreationInv'
  BY <1>1, OthersKeepIt DEF Rest
<1>3. StartInv' /\ ClientsInv'
  BY <1>1 DEF StartInv, ClientsInv, Inside
<1>4. CommandsInv'
  BY <1>1, ServerMoves
<1>5. IndexInv'
  BY <1>1, IndexStays DEF Past
<1> QED BY <1>2, <1>3, <1>4, <1>5

LEMMA ClientKeeps ==
    ASSUME ApiInv, Interrupts, NEW c \in Clients, ClientStep(c)
    PROVE  ApiInv'
<1> USE DEF ApiInv
<1>1. Elsewhere
  BY DEF ClientStep, Connect, SendPart, Send, Leave, Stall, ReadOn, Respond, Accept, Handle, OpenReadOnly,
         Execute, Write, Answer
<1>2. UNCHANGED <<indexVars, args, outcome, cast, server, step, listening, probed>>
  BY <1>1 DEF Elsewhere, commandVars, serverVars
<1>3. CreationInv'
  BY <1>2, OthersKeepIt DEF Rest, indexVars
<1>4. StartInv'
  BY <1>2 DEF StartInv, Inside, indexVars
<1>5. CommandsInv'
  BY <1>2, ServerMoves DEF indexVars
<1>6. ClientsInv'
  BY <1>2, ClientStepKeeps
<1>7. IndexInv'
  BY <1>2, IndexStays DEF Past, indexVars
<1> QED BY <1>3, <1>4, <1>5, <1>6, <1>7

-----------------------------------------------------------------------------
(* The steps of the commands. *)

\* A command that moves: what it does to the others and to the server.
LEMMA CommandMoves ==
    ASSUME ApiInv, NEW p \in Commands, DOMAIN outcome' = Commands,
           \A q \in Processes : q # p => opening'[q] = opening[q],
           \A q \in Commands : q # p => outcome'[q] = outcome[q],
           Inside(p)' => outcome'[p] = "opening",
           UNCHANGED <<args, cast, server, step, listening, client, request>>
    PROVE  StartInv' /\ CommandsInv' /\ ClientsInv'
<1> USE DEF ApiInv
<1>1. opening'[Server] = opening[Server]
  BY ProcessesAssumption
<1>2. StartInv'
  BY <1>1 DEF StartInv, Inside
<1>3. CommandsInv'
  BY ProcessesAssumption DEF CommandsInv, Inside
<1>4. ClientsInv'
  BY SameClients
<1> QED BY <1>2, <1>3, <1>4

\* A command goes on with its work, or goes.
LEMMA CommandKeepsAll ==
    ASSUME ApiInv, Interrupts, NEW p \in DOMAIN args, Command(p)
    PROVE  ApiInv'
<1> USE DEF ApiInv
<1>1. /\ p \in Commands /\ p \in Processes /\ CreationInv'
      /\ DOMAIN outcome = Commands /\ opening \in [Processes -> Phases]
  BY CommandKeeps, ProcessesAssumption DEF CreationInv, CreationTypes, CommandsInv
<1>2. UNCHANGED <<args, cast, server, step, listening, client, request, probed>>
  BY DEF Command, serverVars, clientVars
<1>3. UNCHANGED <<file, schema>> \/ Open(p)
  BY DEF Command, CommandStep, Main, OpenIndex, Work, PruneFails, PrintRow, PipeBreaks, KillCommand, indexVars
<1>4. IndexInv'
  BY <1>1, <1>2, <1>3, IndexStays DEF Past
<1>5. CASE Main(p)
  <2> DEFINE sent == IF Accepted(args[p]) THEN BeforeOpen(args[p]) ELSE "usage"
  <2>1. /\ outcome[p] = "start" /\ outcome' = [outcome EXCEPT ![p] = sent]
        /\ Goes(p, IF sent = "opening" THEN "directory" ELSE "no")
    BY <1>5 DEF Main
  <2> HIDE DEF sent
  <2>2. PICK phase \in {"no", "directory"} : Goes(p, phase) /\ (phase = "directory" => sent = "opening")
    <3>1. CASE sent = "opening"
      BY <2>1, <3>1
    <3>2. CASE sent # "opening"
      BY <2>1, <3>2
    <3> QED BY <3>1, <3>2
  <2>3. StartInv' /\ CommandsInv' /\ ClientsInv'
    BY <1>1, <1>2, <2>1, <2>2, CommandMoves DEF Goes, Inside
  <2> QED BY <1>1, <1>4, <2>3
<1>6. CASE OpenIndex(p)
  <2>1. UNCHANGED outcome /\ outcome[p] = "opening" /\ Open(p)
    BY <1>6 DEF OpenIndex, commandVars
  <2>2. StartInv' /\ CommandsInv' /\ ClientsInv'
    BY <1>1, <1>2, <2>1, OpenMoves, CommandMoves
  <2> QED BY <1>1, <1>4, <2>2
<1>7. CASE Work(p) \/ PruneFails(p) \/ PrintRow(p) \/ PipeBreaks(p)
  <2>1. UNCHANGED opening
    BY <1>7 DEF Work, PruneFails, PrintRow, PipeBreaks, indexVars
  <2>2. /\ \A q \in Commands : q # p => outcome'[q] = outcome[q]
        /\ DOMAIN outcome' = Commands
        /\ Inside(p) /\ outcome[p] = "opening" => outcome'[p] = "opening"
    <3>1. CASE Work(p)
      BY <1>1, <3>1 DEF Work, Inside
    <3>2. CASE PrintRow(p)
      BY <1>1, <3>2 DEF PrintRow
    <3>3. CASE PipeBreaks(p)
      BY <1>1, <3>3 DEF PipeBreaks
    <3>4. CASE PruneFails(p)
      BY <1>1, <3>4 DEF PruneFails
    <3> QED BY <1>7, <3>1, <3>2, <3>3, <3>4
  <2>3. StartInv' /\ CommandsInv' /\ ClientsInv'
    BY <1>1, <1>2, <2>1, <2>2, CommandMoves DEF Inside, CommandsInv
  <2> QED BY <1>1, <1>4, <2>3
<1>8. CASE KillCommand(p)
  <2>1. outcome' = [outcome EXCEPT ![p] = "killed"] /\ Goes(p, "no")
    BY <1>8 DEF KillCommand
  <2>2. StartInv' /\ CommandsInv' /\ ClientsInv'
    BY <1>1, <1>2, <2>1, CommandMoves DEF Goes, Inside
  <2> QED BY <1>1, <1>4, <2>2
<1> QED BY <1>5, <1>6, <1>7, <1>8 DEF Command, CommandStep

-----------------------------------------------------------------------------
(* The whole. *)

LEMMA ApiInit == Init => ApiInv
<1> SUFFICES ASSUME Init PROVE ApiInv
  OBVIOUS
<1>1. CreationInv
  BY CreationInit
<1>2. /\ \A p \in Processes : opening[p] = "no"
      /\ server = "down" /\ step = 1 /\ listening = FALSE /\ probed = FALSE
      /\ DOMAIN outcome = Commands /\ DOMAIN client = Clients /\ DOMAIN request = Clients
      /\ \A c \in Clients : client[c] = "away" /\ request[c] = NoRequest
      /\ interrupted = (file = "database" /\ ~TableExists)
  BY DEF Init
<1>3. StartInv
  BY <1>2, ProcessesAssumption DEF StartInv, Inside, Beginning
<1>4. CommandsInv /\ ClientsInv
  BY <1>2, ProcessesAssumption DEF CommandsInv, ClientsInv, Inside, Waiting
<1>5. IndexInv
  <2>1. Exists => TableExists \/ file = "foreign" \/ interrupted
    BY <1>1, <1>2 DEF CreationInv, CreationTypes, Files
  <2> QED BY <1>2, <2>1 DEF IndexInv, Past, Hopeful
<1> QED BY <1>1, <1>3, <1>4, <1>5 DEF ApiInv

LEMMA ApiNext == ApiInv /\ [Next]_vars => ApiInv'
<1> SUFFICES ASSUME ApiInv, [Next]_vars PROVE ApiInv'
  OBVIOUS
<1>1. CASE StartStep /\ Interrupts
  BY <1>1, EnsureIndexExistsKeeps, OtherStartsKeep, ServeKeeps DEF StartStep
<1>2. CASE (Start \/ Signal \/ Shutdown \/ HealthCheck \/ Others) /\ Interrupts
  BY <1>2, StartKeeps, SignalKeeps, ShutdownKeeps, HealthCheckKeeps, OthersKeepAll
<1>3. CASE (\E c \in Clients : ClientStep(c)) /\ Interrupts
  BY <1>3, ClientKeeps
<1>4. CASE (\E p \in DOMAIN args : Command(p)) /\ Interrupts
  BY <1>4, CommandKeepsAll
<1>5. CASE UNCHANGED vars
  BY <1>5, OthersKeepIt DEF vars, Rest, ApiInv, StartInv, CommandsInv, ClientsInv, IndexInv, Past, Hopeful,
        Creating, TableExists, Inside, indexVars, commandVars, serverVars, clientVars, history
<1> QED BY <1>1, <1>2, <1>3, <1>4, <1>5 DEF Next

\* Everything that the properties of the server rest on holds for ever.
THEOREM ApiInvariant == Spec => []ApiInv
BY ApiInit, ApiNext, PTL DEF Spec

\* A health check succeeds only on an index that has its table, is foreign,
\* was left half made, or is being made by a command; origins that are refused
\* leave the index and the port alone.
THEOREM StartInOrderHolds == Spec => []StartInOrder
<1>1. ApiInv => HealthyAnswers
  BY DEF ApiInv, IndexInv, Hopeful, HealthyAnswers
<1>2. ApiInv => BadOriginsTouchNothing
  BY DEF ApiInv, StartInv, BadOriginsTouchNothing
<1>3. ApiInv => StartInOrder
  BY <1>1, <1>2 DEF StartInOrder
<1> QED BY <1>3, ApiInvariant, PTL

\* No signal and no end of the server cuts off a request that it has read.
THEOREM AcceptedIsAnsweredHolds == Spec => []AcceptedIsAnswered
<1>1. ApiInv => AcceptedIsAnswered
  BY DEF ApiInv, ClientsInv, Waiting, AcceptedIsAnswered
<1> QED BY <1>1, ApiInvariant, PTL

-----------------------------------------------------------------------------
(* Who is to blame for what is answered. *)

\* A request that has come as far as the index has nothing wrong with it that
\* can be seen without one.
AnswersInv ==
    /\ DOMAIN status = Clients
    /\ \A c \in Clients :
        /\ client[c] \in {"running", "opened"} => Early(request[c]) = 0
        /\ client[c] = "opened" => directory # "closed"

LEMMA EarlyIsSound ==
    ASSUME NEW r
    PROVE  /\ Early(r) \in {0, 200, 400, 404, 405}
           /\ Early(r) = 400 => AtFault(r)
           /\ AtFault(r) /\ Early(r) # 400 => Early(r) = 0 /\ r.q = "badtime"
           /\ r.limit = "bad" /\ AtFault(r) => Early(r) = 400
BY DEF Early, Unrouted, VersionHandler, QueryHandler, Status, AtFault

\* A directory that is there stays as open as it was.
LEMMA DirectoryStays ==
    ASSUME [Next]_vars
    PROVE  directory' = "closed" => directory = "closed"
<1>1. CASE UNCHANGED directory
  BY <1>1
<1>2. CASE \E p \in Processes : Open(p)
  BY <1>2 DEF Open, EnsureParentDir, ConnectionOpen, InitSchema, InitSchemaFails
<1>3. CASE StartStep
  <2>1. Open(Server) \/ UNCHANGED directory
    BY <1>3 DEF StartStep, ReadOrigins, EnsureIndexExists, BuildRouter, ReadAddress, Bind, Serve, indexVars
  <2> QED BY <1>1, <1>2, <2>1, ProcessesAssumption
<1>4. CASE Start \/ Signal \/ Shutdown \/ HealthCheck \/ Others
  BY <1>1, <1>4 DEF Start, Signal, Shutdown, HealthCheck, Others, OthersAtIt, indexVars
<1>5. ASSUME NEW c \in Clients, ClientStep(c) PROVE UNCHANGED directory
  BY <1>5 DEF ClientStep, Connect, SendPart, Send, Leave, Stall, ReadOn, Respond, Accept, Handle,
              OpenReadOnly, Execute, Write, Answer, Elsewhere, indexVars
<1>6. ASSUME NEW p \in DOMAIN args, Command(p) PROVE Open(p) \/ UNCHANGED directory
  BY <1>6 DEF Command, CommandStep, Main, OpenIndex, Work, PruneFails, PrintRow, PipeBreaks, KillCommand, indexVars
<1>7. CASE UNCHANGED vars
  BY <1>1, <1>7 DEF vars, indexVars
<1>8. CASE \E p \in DOMAIN args : Command(p)
  <2>1. PICK p \in DOMAIN args : Command(p)
    BY <1>8
  <2>2. CASE Open(p)
    BY <2>2 DEF Open, EnsureParentDir, ConnectionOpen, InitSchema, InitSchemaFails
  <2> QED BY <1>1, <1>6, <2>1, <2>2
<1> QED BY <1>1, <1>3, <1>4, <1>5, <1>7, <1>8 DEF Next

\* Nobody comes to run a request but by the handler.
LEMMA AnswersNext == ApiInv /\ AnswersInv /\ [Next]_vars => AnswersInv'
<1> SUFFICES ASSUME ApiInv, AnswersInv, [Next]_vars PROVE AnswersInv'
  OBVIOUS
<1>5. directory' = "closed" => directory = "closed"
  BY DirectoryStays
<1>1. CASE UNCHANGED <<request, status>> /\ \A c \in Clients : client'[c] \in {client[c], "cut"}
  BY <1>1, <1>5 DEF AnswersInv
<1>2. CASE \E c \in Clients : ClientStep(c)
  <2>1. PICK c \in Clients : ClientStep(c)
    BY <1>2
  <2>2. PICK phase : Becomes(c, phase)
    BY <2>1 DEF ClientStep, Connect, SendPart, Send, Leave, Stall, ReadOn, Respond, Accept, Handle,
                OpenReadOnly, Execute, Write, Answer
  <2>3. \A d \in Clients : client'[d] = IF d = c THEN phase ELSE client[d]
    BY <2>2 DEF Becomes, ApiInv, ClientsInv
  <2>4. DOMAIN status' = Clients
    BY <2>1 DEF ClientStep, Connect, SendPart, Send, Leave, Stall, ReadOn, Respond, Accept, Handle,
                OpenReadOnly, Execute, Write, Answer, AnswersInv
  <2>5. \A d \in Clients : d # c => request'[d] = request[d]
    BY <2>1 DEF ClientStep, Connect, SendPart, Send, Leave, Stall, ReadOn, Respond, Accept, Handle,
                OpenReadOnly, Execute, Write, Answer, ApiInv, ClientsInv
  <2>6. phase \in {"running", "opened"} => UNCHANGED request /\ Early(request[c]) = 0
    <3>1. CASE Handle(c)
      BY <2>3, <3>1 DEF Handle, Becomes, Answer, ApiInv, ClientsInv
    <3>2. CASE OpenReadOnly(c)
      BY <2>3, <3>2 DEF OpenReadOnly, Becomes, Answer, AnswersInv
    <3>3. CASE \/ Connect(c) \/ SendPart(c) \/ Send(c) \/ Leave(c) \/ Stall(c) \/ ReadOn(c)
               \/ Accept(c) \/ Execute(c) \/ Write(c)
      <4>1. phase \in {"queued", "connected", "half", "sent", "cut", "gone", "writing", "stalled", "answered"}
        BY <2>3, <3>3 DEF Connect, SendPart, Send, Leave, Stall, ReadOn, Accept, Execute, Write, Answer, Becomes,
                          ApiInv, ClientsInv
      <4> QED BY <4>1
    <3> QED BY <2>1, <3>1, <3>2, <3>3 DEF ClientStep, Respond
  <2>7. phase = "opened" => directory' # "closed"
    <3>1. CASE OpenReadOnly(c)
      <4>1. CASE Exists /\ directory # "closed"
        BY <1>5, <4>1
      <4>2. CASE ~(Exists /\ directory # "closed")
        <5>1. Becomes(c, "writing")
          BY <3>1, <4>2 DEF OpenReadOnly, Answer
        <5>2. phase = "writing"
          BY <2>2, <2>3, <5>1 DEF Becomes, ApiInv, ClientsInv
        <5> QED BY <5>2
      <4> QED BY <4>1, <4>2
    <3>2. CASE ~OpenReadOnly(c)
      <4>1. phase # "opened"
        BY <2>1, <2>3, <3>2 DEF ClientStep, Respond, Connect, SendPart, Send, Leave, Stall, ReadOn, Accept, Handle,
                                Execute, Write, Answer, Becomes, ApiInv, ClientsInv
      <4> QED BY <4>1
    <3> QED BY <3>1, <3>2
  <2> QED BY <1>5, <2>3, <2>4, <2>5, <2>6, <2>7 DEF AnswersInv
<1>3. CASE StartStep \/ Start \/ Signal \/ Shutdown \/ HealthCheck \/ Others
  <2>1. UNCHANGED <<request, status>>
    BY <1>3 DEF StartStep, ReadOrigins, EnsureIndexExists, BuildRouter, ReadAddress, Bind, Serve, Start,
                Signal, Shutdown, HealthCheck, Others, End, Quietly, clientVars
  <2>2. \/ UNCHANGED client \/ client' = Disconnected
        \/ client' = [c \in Clients |-> IF client[c] = "queued" THEN "cut" ELSE client[c]]
    BY <1>3 DEF StartStep, ReadOrigins, EnsureIndexExists, BuildRouter, ReadAddress, Bind, Serve, Start,
                Signal, Shutdown, HealthCheck, Others, End, Quietly, clientVars
  <2> QED BY <1>1, <2>1, <2>2 DEF Disconnected
<1>4. CASE (\E p \in DOMAIN args : Command(p)) \/ UNCHANGED vars
  BY <1>1, <1>4 DEF Command, vars, clientVars
<1> QED BY <1>2, <1>3, <1>4 DEF Next

\* Causes(r): why a request may end in an internal error.
Causes(r) ==
    \/ r.route = "query" /\ r.q \in {"panics", "badpath", "refused"}
    \/ file = "foreign" \/ directory = "closed" \/ contended \/ journal
    \/ ~TableExists /\ (interrupted \/ \E p \in Commands : Creating(p))

\* The answers, one by one.
LEMMA BlameStep ==
    ASSUME ApiInv, AnswersInv, NEW c \in Clients, Handle(c) \/ OpenReadOnly(c) \/ Execute(c),
           status[c] = 0, status'[c] # 0
    PROVE  /\ (status'[c] = 400) <=> AtFault(request[c]) /\ ~Hidden(request[c])
           /\ status'[c] = 500 => Causes(request[c])
<1>1. DOMAIN status = Clients /\ DOMAIN client = Clients
  BY DEF AnswersInv, ApiInv, ClientsInv
<1>2. \A code : Answer(c, code) => status'[c] = code
  BY <1>1 DEF Answer
<1>3. Exists /\ Hopeful(Commands)
  <2>1. server \notin Beginning /\ server \in Beginning \cup {"serving", "stopping"}
    BY DEF Handle, OpenReadOnly, Execute, ApiInv, StartInv, ClientsInv, Waiting
  <2> QED BY <2>1 DEF Beginning, ApiInv, IndexInv, Past
<1>4. CASE Handle(c)
  <2>1. status'[c] = Early(request[c]) /\ Early(request[c]) # 0
    BY <1>1, <1>2, <1>4 DEF Handle
  <2>3. Early(request[c]) = 400 => AtFault(request[c]) /\ ~Hidden(request[c])
    BY EarlyIsSound DEF Hidden, Early, Unrouted, VersionHandler, QueryHandler, Status
  <2>4. Early(request[c]) # 500 /\ (AtFault(request[c]) => Early(request[c]) = 400)
    BY <2>1, EarlyIsSound
  <2> QED BY <2>1, <2>3, <2>4
<1>5. CASE OpenReadOnly(c)
  <2>1. directory = "closed" /\ status'[c] = 500
    BY <1>1, <1>2, <1>3, <1>5 DEF OpenReadOnly, Status
  <2>2. AtFault(request[c]) => request[c].limit # "bad" /\ request[c].q = "badtime"
    BY <1>5, EarlyIsSound DEF OpenReadOnly, AnswersInv
  <2> QED BY <2>1, <2>2 DEF Hidden, Causes
<1>6. CASE Execute(c)
  <2> DEFINE text == IF request[c].route = "query" THEN request[c].q ELSE "fine"
  <2>1. Early(request[c]) = 0
    BY <1>6 DEF Execute, AnswersInv
  <2>2. PICK result \in ExecuteResults(text, FALSE) : status'[c] = StatusOf(result)
    BY <1>2, <1>6 DEF Execute, HandlerResults
  <2>3. AtFault(request[c]) <=> text = "badtime"
    <3>1. AtFault(request[c]) => request[c].q = "badtime" /\ request[c].route = "query"
      BY <2>1, EarlyIsSound DEF AtFault
    <3>2. text = "badtime" => request[c].q = "badtime" /\ request[c].route = "query"
      OBVIOUS
    <3>3. request[c].method \in {"GET", "HEAD"}
      BY <2>1 DEF Early, Unrouted
    <3> QED BY <3>1, <3>2, <3>3 DEF AtFault
  <2>4. text = "badtime" <=> result = "InvalidDatetime"
    BY <2>2 DEF ExecuteResults
  <2>5. /\ result \in {"rows", "Sqlite", "panic", "InvalidDatetime"}
        /\ result = "panic" => text = "panics"
        /\ result = "Sqlite" => text \in {"badpath", "refused"} \/ ~TableExists \/ journal \/ contended
    BY <2>2 DEF ExecuteResults
  <2>6. text \in {"panics", "badpath", "refused"} =>
            request[c].route = "query" /\ request[c].q \in {"panics", "badpath", "refused"}
    OBVIOUS
  <2>7. /\ status'[c] = 400 <=> result = "InvalidDatetime"
        /\ status'[c] = 500 <=> result \in {"Sqlite", "panic"}
    BY <2>2, <2>5 DEF StatusOf, Status
  <2>8. ~Hidden(request[c]) \/ text # "badtime"
    BY <1>6 DEF Execute, Hidden, AnswersInv
  <2> HIDE DEF text
  <2> QED BY <1>3, <2>3, <2>4, <2>5, <2>6, <2>7, <2>8 DEF Hopeful, Causes
<1> QED BY <1>4, <1>5, <1>6

LEMMA BlameNext == ApiInv /\ AnswersInv /\ [Next]_vars => [Blamed]_vars
<1> SUFFICES ASSUME ApiInv, AnswersInv, [Next]_vars, NEW c \in Clients,
                    status[c] = 0, status'[c] # 0
             PROVE  Handle(c) \/ OpenReadOnly(c) \/ Execute(c)
  BY BlameStep DEF Blamed, Causes
<1>1. DOMAIN status = Clients
  BY DEF AnswersInv
<1>2. CASE \E d \in Clients : ClientStep(d)
  <2>1. PICK d \in Clients : ClientStep(d)
    BY <1>2
  <2>2. Handle(d) \/ OpenReadOnly(d) \/ Execute(d)
    BY <2>1 DEF ClientStep, Connect, SendPart, Send, Leave, Stall, ReadOn, Respond, Accept, Write
  <2>3. \E code : UNCHANGED status \/ status' = [status EXCEPT ![d] = code]
    BY <2>2 DEF Handle, OpenReadOnly, Execute, Answer
  <2> QED BY <1>1, <2>2, <2>3
<1>3. CASE StartStep \/ Start \/ Signal \/ Shutdown \/ HealthCheck \/ Others
  BY <1>3 DEF StartStep, ReadOrigins, EnsureIndexExists, BuildRouter, ReadAddress, Bind, Serve, Start,
              Signal, Shutdown, HealthCheck, Others, End, Quietly, clientVars
<1>4. CASE (\E p \in DOMAIN args : Command(p)) \/ UNCHANGED vars
  BY <1>4 DEF Command, vars, clientVars
<1> QED BY <1>2, <1>3, <1>4 DEF Next

\* Who fails in Indexer::open has a cause.
LEMMA FailureHasACause ==
    ASSUME CreationInv, NEW p \in Processes, Open(p), opening'[p] = "failed"
    PROVE  \/ directory \in {"forbidden", "closed"} \/ file = "foreign" \/ contended
           \/ directory = "readonly" /\ (~Exists \/ schema < Statements \/ journal)
<1> USE SchemaAssumption
<1>1. opening \in [Processes -> Phases] /\ Progress(p) /\ schema \in 0 .. Statements
  BY DEF CreationInv, CreationTypes
<1>2. CASE EnsureParentDir(p)
  BY <1>1, <1>2 DEF EnsureParentDir, Goes
<1>3. CASE ConnectionOpen(p)
  BY <1>1, <1>3 DEF ConnectionOpen, Openable, Writable, Goes
<1>4. CASE InitSchema(p)
  BY <1>1, <1>4 DEF InitSchema, Goes
<1>5. CASE InitSchemaFails(p)
  BY <1>1, <1>5 DEF InitSchemaFails, Writes, Writable, Progress
<1> QED BY <1>2, <1>3, <1>4, <1>5 DEF Open

LEMMA FailuresHaveCauses == ApiInv /\ [Next]_vars => [OpensFailForACause]_vars
<1> SUFFICES ASSUME ApiInv, [Next]_vars, NEW p \in Processes,
                    opening[p] # "failed", opening'[p] = "failed"
             PROVE  Open(p)
  BY FailureHasACause DEF OpensFailForACause, ApiInv
<1>1. opening \in [Processes -> Phases] /\ CreationInv /\ Server \in Processes
  BY ProcessesAssumption DEF ApiInv, CreationInv, CreationTypes
<1>2. \E q \in Processes : Open(q) \/ \E phase \in {"no", "directory"} : Goes(q, phase)
  <2>1. CASE StartStep \/ Start \/ Signal \/ Shutdown \/ HealthCheck \/ Others
    BY <1>1, <2>1 DEF StartStep, ReadOrigins, EnsureIndexExists, BuildRouter, ReadAddress, Bind, Serve, Start,
                Signal, Shutdown, HealthCheck, Others, OthersAtIt, End, Quietly, indexVars
  <2>2. CASE \E c \in Clients : ClientStep(c)
    <3>1. Elsewhere
      BY <2>2 DEF ClientStep, Connect, SendPart, Send, Leave, Stall, ReadOn, Respond, Accept, Handle,
                  OpenReadOnly, Execute, Write, Answer
    <3> QED BY <3>1 DEF Elsewhere, indexVars
  <2>3. CASE \E q \in DOMAIN args : Command(q)
    <3>1. PICK q \in DOMAIN args : Command(q)
      BY <2>3
    <3>2. q \in Processes
      BY ProcessesAssumption DEF ApiInv, CreationInv, CreationTypes
    <3>3. CASE Main(q)
      <4> DEFINE how == IF Accepted(args[q]) THEN BeforeOpen(args[q]) ELSE "usage"
      <4>1. Goes(q, IF how = "opening" THEN "directory" ELSE "no")
        BY <3>3 DEF Main
      <4> HIDE DEF how
      <4>2. CASE how = "opening"
        BY <3>2, <4>1, <4>2
      <4>3. CASE how # "opening"
        BY <3>2, <4>1, <4>3
      <4> QED BY <4>2, <4>3
    <3>4. CASE KillCommand(q)
      BY <3>2, <3>4 DEF KillCommand
    <3>5. CASE OpenIndex(q)
      BY <3>2, <3>5 DEF OpenIndex
    <3>6. CASE Work(q) \/ PruneFails(q) \/ PrintRow(q) \/ PipeBreaks(q)
      BY <3>6 DEF Work, PruneFails, PrintRow, PipeBreaks, indexVars
    <3> QED BY <3>1, <3>3, <3>4, <3>5, <3>6 DEF Command, CommandStep
  <2>4. CASE UNCHANGED vars
    BY <2>4 DEF vars, indexVars
  <2> QED BY <2>1, <2>2, <2>3, <2>4 DEF Next
<1>3. PICK q \in Processes : Open(q) \/ \E phase \in {"no", "directory"} : Goes(q, phase)
  BY <1>2
<1>4. p = q
  BY <1>1, <1>3, OpenMoves DEF Goes
<1>5. ~ \E phase \in {"no", "directory"} : Goes(p, phase)
  BY <1>1 DEF Goes
<1> QED BY <1>3, <1>4, <1>5

\* A refused request is at fault, one that is an internal error is so for one of
\* the reasons that the property lists, and so does Indexer::open fail.
THEOREM BlameIsRightHolds == Spec => BlameIsRight
<1>1. Init => AnswersInv
  BY DEF Init, AnswersInv
<1>2. Spec => []AnswersInv
  BY <1>1, AnswersNext, ApiInvariant, PTL DEF Spec
<1>3. Spec => [][Blamed /\ OpensFailForACause]_vars
  BY <1>2, BlameNext, FailuresHaveCauses, ApiInvariant, PTL DEF Spec
<1> QED BY <1>3 DEF BlameIsRight, Blamed, OpensFailForACause

-----------------------------------------------------------------------------
(* Output. *)

\* Nothing is written before the result is there, and only the commands that
\* have a result write.
OutputInv ==
    /\ DOMAIN printed = Commands /\ DOMAIN rows = Commands /\ DOMAIN pipe = Commands
    /\ DOMAIN outcome = Commands
    /\ cast \in Casts /\ args = cast.args
    /\ \A p \in Commands : outcome[p] \in {"start", "opening"} => printed[p] = 0
    /\ \A p \in DOMAIN args : outcome[p] = "printing" => args[p].command # "ingest"
    /\ CommandsEndWell

\* The server's first step refuses the origins on which the third would panic.
LEMMA OriginsAreSafe ==
    ASSUME NEW c \in Casts, ParseCorsOrigins(c.api.origins) # Failed
    PROVE  BuildCorsLayer(ParseCorsOrigins(c.api.origins).list) # Failed
<1> DEFINE parts == Parts(c.api.origins)
<1>1. parts \in Seq(STRING)
  BY OriginsAssumption
<1>2. ParseCorsOrigins(c.api.origins).list = parts /\ ~(Contains(parts, "*") /\ Len(parts) > 1)
  BY DEF ParseCorsOrigins
<1> HIDE DEF parts
<1>3. Contains(parts, "*") => Len(parts) = 1 /\ parts[1] = "*"
  <2>1. Len(parts) \in Nat /\ \A i \in 1 .. Len(parts) : Contains(parts, parts[i])
    BY <1>1 DEF Contains
  <2> SUFFICES ASSUME NEW i \in 1 .. Len(parts), parts[i] = "*" PROVE Len(parts) = 1 /\ parts[1] = "*"
    BY DEF Contains
  <2>2. PICK n \in Nat : n = Len(parts) /\ ~(n > 1) /\ i \in 1 .. n
    BY <1>2, <2>1
  <2>3. n = 1 /\ i = 1
    BY <2>2
  <2> QED BY <2>2, <2>3
<1> QED BY <1>2, <1>3 DEF BuildCorsLayer, Disabled, Failed

LEMMA ServerNeverPanics ==
    ASSUME ApiInv, OutputInv, exit # "panic", StartStep
    PROVE  exit' # "panic"
<1>1. CASE BuildRouter
  <2>1. ParseCorsOrigins(cast.api.origins) # Failed
    BY <1>1 DEF BuildRouter, At, Startup, ApiInv, StartInv
  <2> QED BY <1>1, <2>1, OriginsAreSafe DEF BuildRouter, Continue, OutputInv
<1> QED BY <1>1 DEF StartStep, ReadOrigins, EnsureIndexExists, ReadAddress, Bind, Serve, End, Continue

PanicsOnAge(p) == args[p].command = "prune" /\ args[p].older_than = "panics"

LEMMA CommandEndsWell ==
    ASSUME OutputInv, NEW p \in DOMAIN args, Command(p)
    PROVE  OutputInv'
<1> USE DEF OutputInv, CommandsEndWell, PrintedInFull, PanicsAreKnown
<1>1. /\ UNCHANGED <<args, cast, exit>> /\ DOMAIN args \subseteq Commands /\ p \in Commands
      /\ args[p].command \in {"ingest", "query", "stats", "prune"}
  BY CastsAssumption DEF Command, serverVars
<1>2. CASE Main(p) \/ KillCommand(p) \/ PruneFails(p)
  <2>1. PICK how : /\ outcome' = [outcome EXCEPT ![p] = how] /\ UNCHANGED <<rows, printed, pipe>>
                   /\ how \notin {"ok", "printing", "start"}
                   /\ how = "panic" => PanicsOnAge(p)
                   /\ how = "opening" => outcome[p] = "start"
    <3>1. CASE Main(p)
      <4> DEFINE how == IF Accepted(args[p]) THEN BeforeOpen(args[p]) ELSE "usage"
      <4>1. how \in {"usage", "error", "opening"} \/ (how = "panic" /\ PanicsOnAge(p))
        BY <1>1 DEF Accepted, BeforeOpen, Follow, ResolveCutoff, PanicsOnAge
      <4> QED BY <3>1, <4>1 DEF Main
    <3>2. CASE KillCommand(p)
      <4>1. PICK how : how = "killed"
        OBVIOUS
      <4>2. outcome' = [outcome EXCEPT ![p] = how] /\ UNCHANGED <<rows, printed, pipe>>
        BY <3>2, <4>1 DEF KillCommand
      <4>3. how \notin {"ok", "printing", "start", "panic", "opening"}
        BY <4>1
      <4> QED BY <4>2, <4>3
    <3>3. CASE PruneFails(p)
      <4>1. PICK how : how = "error"
        OBVIOUS
      <4>2. outcome' = [outcome EXCEPT ![p] = how] /\ UNCHANGED <<rows, printed, pipe>>
        BY <3>3, <4>1 DEF PruneFails
      <4>3. how \notin {"ok", "printing", "start", "panic", "opening"}
        BY <4>1
      <4> QED BY <4>2, <4>3
    <3> QED BY <1>2, <3>1, <3>2, <3>3
  <2> QED BY <1>1, <2>1 DEF PanicsOnAge
<1>3. CASE OpenIndex(p)
  BY <1>1, <1>3 DEF OpenIndex, commandVars
<1>4. CASE Work(p)
  <2>1. PICK how, n : /\ outcome' = [outcome EXCEPT ![p] = how] /\ rows' = [rows EXCEPT ![p] = n]
                      /\ how = "error" \/ how \in WorkResults(args[p])
                      /\ how # "printing" => n = 0
                      /\ outcome[p] = "opening" /\ UNCHANGED <<printed, pipe>>
    <3>1. outcome[p] = "opening" /\ UNCHANGED <<printed, pipe>>
      BY <1>4 DEF Work
    <3>2. PICK how \in IF opening[p] = "failed" THEN {"error"} ELSE WorkResults(args[p]) :
            /\ outcome' = [outcome EXCEPT ![p] = how]
            /\ \E n \in IF how = "printing" THEN Lines(args[p]) ELSE {0} : rows' = [rows EXCEPT ![p] = n]
      BY <1>4 DEF Work
    <3> QED BY <3>1, <3>2
  <2>2. /\ how = "printing" => args[p].command # "ingest"
        /\ how = "panic" => args[p].command = "query" /\ args[p].text = "panics"
    <3>1. CASE args[p].command = "ingest"
      BY <2>1, <3>1 DEF WorkResults
    <3>2. CASE args[p].command = "query"
      BY <2>1, <3>2 DEF WorkResults, ExecuteResults, Errors
    <3>3. CASE args[p].command \in {"stats", "prune"}
      BY <2>1, <3>3 DEF WorkResults
    <3> QED BY <1>1, <3>1, <3>2, <3>3
  <2> QED BY <1>1, <2>1, <2>2
<1>5. CASE PrintRow(p)
  <2>1. CASE printed[p] = rows[p] \/ ConfirmFails(p)
    BY <1>1, <1>5, <2>1 DEF PrintRow
  <2>2. CASE ~(printed[p] = rows[p] \/ ConfirmFails(p))
    <3>1. /\ outcome' = [outcome EXCEPT ![p] = Written(args[p], pipe[p])] /\ UNCHANGED <<rows, pipe>>
          /\ \A q \in Commands : q # p => printed'[q] = printed[q]
          /\ DOMAIN printed' = Commands /\ outcome[p] = "printing"
      BY <1>5, <2>2 DEF PrintRow
    <3>2. /\ Written(args[p], pipe[p]) \in {"printing", "ok", "error", "panic"}
          /\ Written(args[p], pipe[p]) = "ok" => pipe[p] = "closed"
          /\ Written(args[p], pipe[p]) = "panic" => pipe[p] # "open" /\ args[p].command # "query"
      BY DEF Written
    <3> QED BY <1>1, <3>1, <3>2
  <2> QED BY <2>1, <2>2
<1>6. CASE PipeBreaks(p)
  BY <1>1, <1>6 DEF PipeBreaks, Ended
<1> QED BY <1>2, <1>3, <1>4, <1>5, <1>6 DEF Command, CommandStep

LEMMA OutputNext == ApiInv /\ OutputInv /\ [Next]_vars => OutputInv'
<1> SUFFICES ASSUME ApiInv, OutputInv, [Next]_vars PROVE OutputInv'
  OBVIOUS
<1>1. CASE UNCHANGED <<commandVars, args, cast>> /\ exit' # "panic"
  BY <1>1 DEF OutputInv, CommandsEndWell, PrintedInFull, PanicsAreKnown, commandVars
<1>2. exit # "panic"
  BY DEF OutputInv, CommandsEndWell, PanicsAreKnown
<1>3. CASE \E p \in DOMAIN args : Command(p)
  BY <1>3, CommandEndsWell
<1>4. CASE StartStep \/ Start \/ Signal \/ Shutdown \/ HealthCheck \/ Others
  <2>1. UNCHANGED <<commandVars, args, cast>>
    BY <1>4 DEF StartStep, ReadOrigins, EnsureIndexExists, BuildRouter, ReadAddress, Bind, Serve, Start,
                Signal, Shutdown, HealthCheck, Others, End, Quietly
  <2>2. exit' # "panic"
    BY <1>2, <1>4, ServerNeverPanics DEF Start, Signal, Shutdown, HealthCheck, Others, End, serverVars
  <2> QED BY <1>1, <2>1, <2>2
<1>5. CASE \E c \in Clients : ClientStep(c)
  <2>1. UNCHANGED <<commandVars, args, cast, exit>>
    BY <1>5 DEF ClientStep, Connect, SendPart, Send, Leave, Stall, ReadOn, Respond, Accept, Handle,
                OpenReadOnly, Execute, Write, Answer, Elsewhere, serverVars
  <2> QED BY <1>1, <1>2, <2>1
<1>6. CASE UNCHANGED vars
  BY <1>1, <1>2, <1>6 DEF vars, serverVars
<1> QED BY <1>3, <1>4, <1>5, <1>6 DEF Next

\* Exit code 0 means that the whole result is written, or that its reader has
\* gone; the server never panics, a command only on a duration that is out of
\* range or on an output that is broken.
THEOREM CommandsEndWellHolds == Spec => []CommandsEndWell
<1>1. Init => OutputInv
  <2> SUFFICES ASSUME Init PROVE OutputInv
    OBVIOUS
  <2>1. DOMAIN args \subseteq Commands
    BY CastsAssumption DEF Init
  <2> QED BY <2>1 DEF Init, OutputInv, CommandsEndWell, PrintedInFull, PanicsAreKnown
<1>2. OutputInv => CommandsEndWell
  BY DEF OutputInv
<1> QED BY <1>1, <1>2, OutputNext, ApiInvariant, PTL DEF Spec
=============================================================================
