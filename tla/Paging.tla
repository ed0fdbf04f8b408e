------------------------------- MODULE Paging -------------------------------
(***************************************************************************)
(* A client pages through the result of one query: it asks for `limit`     *)
(* rows at an offset, and again at the offset behind them, until a page is *)
(* not full.  Every page is a SELECT of its own (executor.rs), so that     *)
(* between two pages other processes insert and prune, and the cutoffs of  *)
(* `last` clauses move.  The query is an OR of alternatives, each with a   *)
(* cutoff of its own; one without `last` has a cutoff that stays.  A row   *)
(* is [id, ts, fits]: AUTOINCREMENT never gives an id twice, timestamps    *)
(* are ordered as the TEXT column orders them, and the row fits some       *)
(* alternatives as far as their other clauses go.                          *)
(***************************************************************************)
EXTENDS Integers, FiniteSets

CONSTANTS
    Alternatives,           \* what OR may join
    Time,                   \* timestamps of rows
    Limits,                 \* values of --limit or ?limit=, 0 for no limit
    MaxRows, MaxInserts     \* bounds on the rows at the start and inserted later

ASSUME PagingAssumption ==
    Time \subseteq Int /\ Limits \subseteq Nat /\ MaxRows \in Nat /\ MaxInserts \in Nat

VARIABLES
    query,      \* the alternatives of the client's query
    table,      \* the rows of log_entries that fit one of them
    nextId,
    floor,      \* cutoff of each alternative
    limit, offset,
    state,      \* of the client: "paging" or "done"
    seen,       \* rows the client has got
    repeats,    \* how often it got a row again
    kept,       \* rows that have matched ever since the client began
    left,       \* rows that have matched since then and no longer do
    inserts

vars == <<query, table, nextId, floor, limit, offset, state, seen, repeats, kept, left,
          inserts>>

Row == [id : Nat, ts : Time, fits : SUBSET Alternatives]

MatchingIn(rows, cutoff) == {r \in rows : \E a \in r.fits : r.ts >= cutoff[a]}
Matching == MatchingIn(table, floor)

\* What prune or a moving cutoff do to the rows that match.
Depart ==
    /\ kept' = kept \cap Matching'
    /\ left' = left \cup (Matching \ Matching')

\* Fault: the oldest come first.
OldestFirst(r, s) == r.ts < s.ts \/ (r.ts = s.ts /\ r.id < s.id)

\* ORDER BY timestamp DESC, id DESC.
Before(r, s) == r.ts > s.ts \/ (r.ts = s.ts /\ r.id > s.id)

Ahead(r, rows) == {s \in rows : Before(s, r)}
Rank(r, rows) == Cardinality(Ahead(r, rows))

-----------------------------------------------------------------------------
None == -1

\* Fault: LIMIT 0 reaches SQLite.
NoneIfNegative(n) == IF n < 0 THEN None ELSE n

NoneIfZero(n) == IF n = 0 THEN None ELSE n

\* Fault: OFFSET needs the other arm.
LimitClauseNoOffset(lim, off) ==
    CASE lim # None -> [limit |-> lim, offset |-> 0]
      [] lim = None /\ off # None -> [limit |-> -1, offset |-> off]
      [] OTHER -> [limit |-> -1, offset |-> 0]

\* Fault: one row more is left out in front of a page.
LimitClauseOneFurther(lim, off) ==
    CASE lim # None /\ off # None /\ off > 0 -> [limit |-> lim, offset |-> off + 1]
      [] lim # None /\ ~(off # None /\ off > 0) -> [limit |-> lim, offset |-> 0]
      [] OTHER -> [limit |-> -1, offset |-> 0]

\* What build_sql appends; no clause is the same as LIMIT -1.
LimitClause(lim, off) ==
    CASE lim # None /\ off # None /\ off > 0 -> [limit |-> lim, offset |-> off]
      [] lim # None /\ ~(off # None /\ off > 0) -> [limit |-> lim, offset |-> 0]
      [] lim = None /\ off # None /\ off > 0 -> [limit |-> -1, offset |-> off]
      [] OTHER -> [limit |-> -1, offset |-> 0]

\* SQLite: a negative LIMIT is none.
Cut(rows, clause) ==
    {r \in rows :
        /\ Rank(r, rows) >= clause.offset
        /\ clause.limit >= 0 => Rank(r, rows) < clause.offset + clause.limit}

Page == Cut(Matching, LimitClause(NoneIfZero(limit), NoneIfZero(offset)))

-----------------------------------------------------------------------------
Fits == SUBSET query \ {{}}

Init ==
    /\ query \in SUBSET Alternatives \ {{}}
    /\ \E n \in 0 .. MaxRows :
          \E ts \in [1 .. n -> Time], fits \in [1 .. n -> Fits] :
              /\ table = {[id |-> i, ts |-> ts[i], fits |-> fits[i]] : i \in 1 .. n}
              /\ nextId = n + 1
    /\ floor \in [query -> Time] /\ limit \in Limits /\ offset = 0
    /\ state = "paging" /\ seen = {} /\ repeats = 0 /\ inserts = 0
    /\ kept = Matching /\ left = {}

Request ==
    /\ state = "paging"
    /\ seen' = seen \cup Page
    /\ repeats' = repeats + Cardinality(Page \cap seen)
    /\ offset' = offset + limit
    /\ state' = IF limit > 0 /\ Cardinality(Page) = limit THEN "paging" ELSE "done"
    /\ UNCHANGED <<query, table, nextId, floor, limit, kept, left, inserts>>

\* Other processes, and the clock of the `last` clauses, until the last page.
Insert(ts, fits) ==
    /\ state = "paging" /\ inserts < MaxInserts
    /\ table' = table \cup {[id |-> nextId, ts |-> ts, fits |-> fits]}
    /\ nextId' = nextId + 1 /\ inserts' = inserts + 1
    /\ UNCHANGED <<query, floor, limit, offset, state, seen, repeats, kept, left>>

Prune(cutoff) ==
    /\ state = "paging"
    /\ table' = {r \in table : ~(r.ts < cutoff)}
    /\ UNCHANGED <<query, nextId, floor, limit, offset, state, seen, repeats, inserts>>
    /\ Depart

ClockMoves(cutoff) ==
    /\ state = "paging"
    /\ \A a \in query : cutoff[a] >= floor[a]
    /\ floor' = cutoff
    /\ UNCHANGED <<query, table, nextId, limit, offset, state, seen, repeats, inserts>>
    /\ Depart

Next ==
    \/ Request
    \/ \E ts \in Time : (\E fits \in Fits : Insert(ts, fits)) \/ Prune(ts)
    \/ \E cutoff \in [query -> Time] : ClockMoves(cutoff)

Spec == Init /\ [][Next]_vars

-----------------------------------------------------------------------------
PagingTypeOK ==
    /\ query \in SUBSET Alternatives /\ floor \in [query -> Time]
    /\ table \in SUBSET Row /\ IsFiniteSet(table) /\ nextId \in Nat
    /\ \A r \in table : r.id < nextId /\ r.fits \subseteq query
    /\ limit \in Limits /\ offset \in Nat
    /\ state \in {"paging", "done"}
    /\ seen \in SUBSET Row /\ kept \in SUBSET Row
    /\ left \in SUBSET Row /\ IsFiniteSet(left)
    /\ repeats \in Nat /\ inserts \in 0 .. MaxInserts

\* The query is a conjunction, any time range in it holds for all its rows.
OneRange == \E a \in Alternatives : query = {a}

\* With OR a row may leave that is newer than one that stays.
Overtaken(r) == ~OneRange /\ Ahead(r, left) # {}

\* A row that is there and matches all the time is not skipped: the client has
\* got it, or it lies at or behind the offset of the next page.  Inserts only
\* push it back, and what prune and a moving cutoff take away lies behind it
\* because pages come newest first -- unless the query has an OR and a row of
\* another alternative leaves ahead of it.
NothingSkipped == \A r \in kept \ seen : Rank(r, Matching) >= offset \/ Overtaken(r)

\* Once a page is not full the client has every row that was there all along,
\* but for rows of an OR that a leaving one let slip under the offset.
NothingMissed == state = "done" => \A r \in kept \ seen : Overtaken(r)

\* What the client misses of an OR is no more than what left meanwhile.
MissesAreDepartures ==
    state = "done" => Cardinality(kept \ seen) <= Cardinality(left)

\* The client gets a row again only because of an insert, once for each.
RepeatsAreInserts == repeats <= inserts
=============================================================================
