------------------------------- MODULE MCApi -------------------------------
(***************************************************************************)
(* Two commands, two clients, two statements of init_schema, results of at *)
(* most two rows; the server may be started twice and signalled twice.     *)
(* The casts are every start of the index with creators and lookers at     *)
(* it, every request on every such index, every command on its own, and    *)
(* every fault of the server's arguments; some of them with other          *)
(* processes at the same database.                                         *)
(***************************************************************************)
EXTENDS ApiProps

Ingest(log) == [command |-> "ingest", log |-> log, follow |-> FALSE, format |-> "json"]
Query(text) == [command |-> "query", text |-> text]
Stats == [command |-> "stats"]
Prune(older, before, answer) ==
    [command |-> "prune", older_than |-> older, before |-> before, answer |-> answer]

AllArgs ==
    [command : {"ingest"}, log : {"stdin", "missing", "there"}, follow : BOOLEAN, format : {"json", "xml"}]
    \cup {Query(t) : t \in {"fine", "unparseable", "badtime", "panics", "badpath", "refused"}}
    \cup {Prune(o, b, "flag") : o \in {"none", "fine", "bad", "panics"}, b \in {"none", "fine", "bad"}}
    \cup {Prune("fine", "none", answer) : answer \in {"read", "unreadable"}} \cup {Stats}

One(a) == [p \in {"c1"} |-> a]
Two(a, b) == [p \in {"c1", "c2"} |-> IF p = "c1" THEN a ELSE b]

Get(route, q, limit) == [route |-> route, method |-> "GET", q |-> q, limit |-> limit]
AllRequests ==
    {Get("query", q, "fine") : q \in {"fine", "missing", "unparseable", "badtime", "panics", "badpath", "refused"}}
    \cup {Get(route, "fine", "bad") : route \in {"query", "stats", "version", "elsewhere"}}
    \cup {[Get("query", "fine", "fine") EXCEPT !.method = m] : m \in {"HEAD", "POST"}}

Api(origins, host) == [used |-> TRUE, origins |-> origins, host |-> host]
Usual == Api(<<"", "a", "b">>, "127.0.0.1")
NoApi == [used |-> FALSE, origins |-> <<>>, host |-> "127.0.0.1"]

Cast(start, shared, commands, api, requests) ==
    [directory |-> start[1], file |-> start[2], schema |-> start[3], journal |-> start[4],
     shared |-> shared, args |-> commands, api |-> api, requests |-> requests]

\* The directory, the file, its schema and whether there is a journal.
Absent == <<"ready", "absent", 0, FALSE>>
Complete == <<"ready", "database", 2, FALSE>>
Starts ==
    {<<d, "absent", 0, FALSE>> : d \in {"missing", "forbidden", "ready", "readonly"}}
    \cup {<<"ready", "database", n, FALSE>> : n \in {0, 1, 2}}
    \cup {<<"readonly", "database", n, j>> : n \in {1, 2}, j \in BOOLEAN}
    \cup {<<"closed", "database", 2, FALSE>>, <<"ready", "foreign", 0, FALSE>>}
Asks(clients, requests) == [c \in clients |-> requests]
Some == Asks({"u1"}, {Get("query", "fine", "fine")})
None == Asks({}, {})

MCCasts ==
    {Cast(s, FALSE, One(Ingest("there")), Usual, Some) : s \in Starts}
    \cup {Cast(s, FALSE, One(Stats), Usual, Some) : s \in {Absent, Complete}}
    \cup {Cast(s, b, Two(Ingest("there"), a), NoApi, None) : s \in Starts, b \in BOOLEAN, a \in {Query("fine"), Stats}}
    \cup {Cast(s, b, One(a), NoApi, None) : s \in Starts, b \in BOOLEAN, a \in AllArgs}
    \cup {Cast(s, FALSE, <<>>, Usual, Asks({"u1"}, AllRequests)) : s \in Starts}
    \cup {Cast(Complete, TRUE, <<>>, Usual, Asks({"u1"}, AllRequests)), Cast(Absent, TRUE, <<>>, Usual, Some)}
    \cup {Cast(Complete, FALSE, <<>>, Usual, Asks({"u1", "u2"}, {Get("query", "fine", "fine"), Get("query", "panics", "fine")}))}
    \cup {Cast(<<"missing", "absent", 0, FALSE>>, FALSE, <<>>, Api(o, h), None) :
        o \in {<<"">>, <<"*">>, <<"", "*">>, <<"a", "*">>, <<"a", "invalid">>}, h \in {"0.0.0.0", "10.0.0.1", "malformed"}}
=============================================================================
