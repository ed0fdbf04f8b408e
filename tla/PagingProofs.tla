---------------------------- MODULE PagingProofs ----------------------------
(***************************************************************************)
(* Proofs about Paging for every set of timestamps, every limit and every  *)
(* number of rows and inserts.                                             *)
(***************************************************************************)
EXTENDS Paging, FiniteSetTheorems, WellFoundedInduction, NaturalsInduction, TLAPS

\* With one range what left is older than all that stays.
OldLeave == OneRange => \A r \in kept : Ahead(r, left) = {}

Inv == PagingTypeOK /\ kept \subseteq Matching /\ NothingSkipped /\ OldLeave

\* Taking away rows that are behind r, or adding rows, leaves r at its rank or
\* pushes it back.
LEMMA RankMonotone ==
    ASSUME NEW S, NEW T, IsFiniteSet(S), IsFiniteSet(T), NEW r,
           Ahead(r, S) \subseteq T
    PROVE  Rank(r, S) \in Nat /\ Rank(r, T) \in Nat /\ Rank(r, S) <= Rank(r, T)
<1>1. Ahead(r, S) \subseteq Ahead(r, T) /\ Ahead(r, T) \subseteq T /\ Ahead(r, S) \subseteq S
  BY DEF Ahead
<1>2. IsFiniteSet(Ahead(r, S)) /\ IsFiniteSet(Ahead(r, T))
  BY <1>1, FS_Subset
<1> QED
  BY <1>1, <1>2, FS_Subset, FS_CardinalityType DEF Rank

\* Leaving out the limit or the offset means what 0 means.
LEMMA ClauseOf ==
    ASSUME NEW lim \in Nat, NEW off \in Nat
    PROVE  LET clause == LimitClause(NoneIfZero(lim), NoneIfZero(off))
           IN  /\ clause.offset = off
               /\ lim = 0 => clause.limit = -1
               /\ lim > 0 => clause.limit = lim
BY DEF LimitClause, NoneIfZero, None

LEMMA MatchingFinite ==
    ASSUME PagingTypeOK
    PROVE  Matching \subseteq Row /\ IsFiniteSet(Matching)
<1>1. Matching \subseteq table
  BY DEF Matching, MatchingIn
<1> QED
  BY <1>1, FS_Subset DEF PagingTypeOK

LEMMA InvInit == Init => Inv
<1> SUFFICES ASSUME Init PROVE Inv
  OBVIOUS
<1> USE PagingAssumption
<1>0. PICK n \in 0 .. MaxRows :
        \E ts \in [1 .. n -> Time], fits \in [1 .. n -> Fits] :
            /\ table = {[id |-> i, ts |-> ts[i], fits |-> fits[i]] : i \in 1 .. n}
            /\ nextId = n + 1
  BY DEF Init
<1>1. PICK ts \in [1 .. n -> Time], fits \in [1 .. n -> Fits] :
        /\ table = {[id |-> i, ts |-> ts[i], fits |-> fits[i]] : i \in 1 .. n}
        /\ nextId = n + 1
  BY <1>0
<1>2. query \in SUBSET Alternatives /\ \A i \in 1 .. n : fits[i] \subseteq query
  BY DEF Init, Fits
<1>3. table \in SUBSET Row /\ nextId \in Nat /\ \A r \in table : r.id < nextId /\ r.fits \subseteq query
  BY <1>1, <1>2 DEF Row
<1>4. IsFiniteSet(table)
  <2>1. IsFiniteSet(1 .. n)
    BY FS_Interval
  <2> DEFINE f == [i \in 1 .. n |-> [id |-> i, ts |-> ts[i], fits |-> fits[i]]]
  <2>2. IsFiniteSet({f[i] : i \in 1 .. n})
    <3>1. f \in Surjection(1 .. n, {f[i] : i \in 1 .. n})
      BY DEF Surjection
    <3> QED
      BY <2>1, <3>1, FS_Surjection
  <2>3. table = {f[i] : i \in 1 .. n}
    BY <1>1
  <2> QED
    BY <2>2, <2>3
<1>5. PagingTypeOK
  BY <1>2, <1>3, <1>4, FS_EmptySet DEF Init, PagingTypeOK, Matching, MatchingIn
<1>6. NothingSkipped
  <2> SUFFICES ASSUME NEW r \in kept PROVE Rank(r, Matching) >= offset
    BY DEF NothingSkipped
  <2>1. Rank(r, Matching) \in Nat
    BY <1>5, MatchingFinite, RankMonotone DEF Ahead
  <2> QED
    BY <2>1 DEF Init
<1>7. OldLeave
  BY DEF Init, OldLeave, Ahead
<1> QED
  BY <1>5, <1>6, <1>7 DEF Init, Inv

LEMMA RequestInv == Inv /\ Request => Inv'
<1> SUFFICES ASSUME Inv, Request PROVE Inv'
  OBVIOUS
<1> USE PagingAssumption
<1>1. Matching' = Matching /\ Matching \subseteq Row /\ IsFiniteSet(Matching)
  BY MatchingFinite DEF Inv, Request, Matching
<1>2. Page \subseteq Matching
  BY DEF Page, Cut
<1>3. PagingTypeOK'
  <2>1. IsFiniteSet(Page \cap seen)
    BY <1>1, <1>2, FS_Subset
  <2>2. Cardinality(Page \cap seen) \in Nat
    BY <2>1, FS_CardinalityType
  <2> QED
    BY <1>1, <1>2, <2>2 DEF Inv, PagingTypeOK, Request
<1>4. NothingSkipped'
  <2> SUFFICES ASSUME NEW r \in kept, r \notin seen', ~Overtaken(r)
               PROVE  Rank(r, Matching) >= offset'
    BY <1>1 DEF NothingSkipped, Request, Overtaken, OneRange
  <2>1. r \notin Page /\ r \notin seen /\ r \in Matching
    BY DEF Request, Inv
  <2>2. Rank(r, Matching) >= offset /\ Rank(r, Matching) \in Nat
    BY <1>1, <2>1, RankMonotone DEF Inv, NothingSkipped, Ahead
  <2>3. limit \in Nat /\ offset \in Nat
    BY DEF Inv, PagingTypeOK
  <2> DEFINE clause == LimitClause(NoneIfZero(limit), NoneIfZero(offset))
  <2>4. /\ clause.offset = offset
        /\ limit = 0 => clause.limit = -1
        /\ limit > 0 => clause.limit = limit
    BY <2>3, ClauseOf
  <2>5. clause.limit >= 0 /\ ~(Rank(r, Matching) < clause.offset + clause.limit)
    BY <2>1, <2>2, <2>4 DEF Page, Cut
  <2> QED
    BY <2>2, <2>3, <2>4, <2>5 DEF Request
<1>5. OldLeave'
  BY DEF Inv, OldLeave, OneRange, Request
<1> QED
  BY <1>1, <1>3, <1>4, <1>5 DEF Inv, Request

LEMMA InsertInv == \A ts \in Time, fits \in Fits : Inv /\ Insert(ts, fits) => Inv'
<1> SUFFICES ASSUME NEW ts \in Time, NEW fits \in Fits, Inv, Insert(ts, fits) PROVE Inv'
  OBVIOUS
<1> USE PagingAssumption
<1>1. PagingTypeOK'
  <2> DEFINE new == [id |-> nextId, ts |-> ts, fits |-> fits]
  <2>1. fits \subseteq query /\ fits \in SUBSET Alternatives /\ nextId \in Nat
    BY DEF Fits, Inv, PagingTypeOK
  <2>2. new \in Row /\ new.id = nextId /\ new.fits = fits
    BY <2>1 DEF Row
  <2>3. table' = table \cup {new} /\ nextId' = nextId + 1
    BY DEF Insert
  <2>4. \A r \in table' : r.id < nextId' /\ r.fits \subseteq query
    <3> SUFFICES ASSUME NEW r \in table' PROVE r.id < nextId' /\ r.fits \subseteq query
      OBVIOUS
    <3>1. CASE r \in table
      <4>1. r.id \in Nat /\ r.id < nextId /\ r.fits \subseteq query
        BY <3>1 DEF Inv, PagingTypeOK, Row
      <4> QED
        BY <2>1, <2>3, <4>1
    <3>2. CASE r = new
      BY <2>1, <2>2, <2>3, <3>2
    <3> QED
      BY <2>3, <3>1, <3>2
  <2>5. IsFiniteSet(table') /\ table' \in SUBSET Row
    BY <2>2, <2>3, FS_AddElement DEF Inv, PagingTypeOK
  <2> QED
    BY <2>1, <2>3, <2>4, <2>5 DEF Inv, PagingTypeOK, Insert
<1>2. Matching \subseteq Matching'
  BY DEF Matching, MatchingIn, Insert
<1>3. NothingSkipped'
  <2> SUFFICES ASSUME NEW r \in kept, r \notin seen, ~Overtaken(r)
               PROVE  Rank(r, Matching') >= offset
    BY DEF NothingSkipped, Insert, Overtaken, OneRange
  <2>1. IsFiniteSet(Matching) /\ IsFiniteSet(Matching')
    <3>1. IsFiniteSet(Matching)
      BY MatchingFinite DEF Inv
    <3>2. IsFiniteSet(table') /\ Matching' \subseteq table'
      BY <1>1 DEF PagingTypeOK, Matching, MatchingIn
    <3> QED
      BY <3>1, <3>2, FS_Subset
  <2>2. Rank(r, Matching) >= offset
    BY DEF Inv, NothingSkipped
  <2>3. Ahead(r, Matching) \subseteq Matching'
    BY <1>2 DEF Ahead
  <2> QED
    BY <2>1, <2>2, <2>3, RankMonotone DEF Inv, PagingTypeOK
<1>4. OldLeave'
  BY DEF Inv, OldLeave, OneRange, Insert
<1> QED
  BY <1>1, <1>2, <1>3, <1>4 DEF Inv, Insert

\* A row falls back in rank only by rows that leave ahead of it, and with one
\* range there are none.
LEMMA Departs ==
    ASSUME Inv, Depart, PagingTypeOK', OldLeave', Matching' \subseteq Matching,
           UNCHANGED <<query, seen, offset>>
    PROVE  Inv'
<1>1. NothingSkipped'
  <2> SUFFICES ASSUME NEW r \in kept', r \notin seen, ~Overtaken(r)'
               PROVE  Rank(r, Matching') >= offset
    BY DEF NothingSkipped
  <2>1. r \in kept /\ r \in Matching
    BY DEF Depart
  <2>2. Ahead(r, left') = {}
    BY DEF Overtaken, OldLeave, OneRange
  <2>3. ~Overtaken(r) /\ Ahead(r, Matching) \subseteq Matching'
    BY <2>2 DEF Depart, Overtaken, Ahead
  <2>4. IsFiniteSet(Matching) /\ IsFiniteSet(Matching')
    BY MatchingFinite, FS_Subset DEF Inv
  <2>5. Rank(r, Matching) >= offset
    BY <2>1, <2>3 DEF Inv, NothingSkipped
  <2>6. offset \in Nat
    BY DEF Inv, PagingTypeOK
  <2> QED
    BY <2>3, <2>4, <2>5, <2>6, RankMonotone
<1> QED
  BY <1>1 DEF Inv, Depart

LEMMA LeftType ==
    ASSUME PagingTypeOK, Depart
    PROVE  kept' \in SUBSET Row /\ left' \in SUBSET Row /\ IsFiniteSet(left')
<1>1. Matching \subseteq Row /\ IsFiniteSet(Matching \ Matching')
  BY MatchingFinite, FS_Subset
<1>2. IsFiniteSet(left \cup (Matching \ Matching'))
  BY <1>1, FS_Union DEF PagingTypeOK
<1> QED
  BY <1>1, <1>2 DEF Depart, PagingTypeOK

LEMMA PruneInv == \A cutoff \in Time : Inv /\ Prune(cutoff) => Inv'
<1> SUFFICES ASSUME NEW cutoff \in Time, Inv, Prune(cutoff) PROVE Inv'
  OBVIOUS
<1> USE PagingAssumption
<1>1. IsFiniteSet(table') /\ table' \subseteq table
  BY FS_Subset DEF Inv, PagingTypeOK, Prune
<1>2. PagingTypeOK'
  <2>1. kept' \in SUBSET Row /\ left' \in SUBSET Row /\ IsFiniteSet(left')
    BY LeftType DEF Inv, Prune
  <2> QED
    BY <1>1, <2>1 DEF Inv, PagingTypeOK, Prune
<1>3. Matching' \subseteq Matching
  BY <1>1 DEF Matching, MatchingIn, Prune
<1>4. OldLeave'
  <2> SUFFICES ASSUME OneRange, NEW r \in kept', NEW s \in left', Before(s, r) PROVE FALSE
    BY DEF OldLeave, OneRange, Prune, Ahead
  <2>1. r \in kept /\ r \in table /\ ~(r.ts < cutoff)
    BY DEF Prune, Depart, Matching, MatchingIn
  <2>2. s \notin left
    BY <2>1 DEF Inv, OldLeave, Ahead
  <2>3. s \in table /\ s \notin table'
    BY <2>2 DEF Prune, Depart, Matching, MatchingIn
  <2>4. s.ts < cutoff
    BY <2>3 DEF Prune
  <2>5. r.ts \in Int /\ s.ts \in Int /\ cutoff \in Int
    <3>1. r \in Row /\ s \in Row
      BY <2>1, <2>3 DEF Inv, PagingTypeOK
    <3> QED
      BY <3>1 DEF Row
  <2>6. s.ts > r.ts \/ s.ts = r.ts
    BY DEF Before
  <2> QED
    BY <2>1, <2>4, <2>5, <2>6
<1> QED
  BY <1>2, <1>3, <1>4, Departs DEF Prune

LEMMA ClockInv == \A cutoff \in [query -> Time] : Inv /\ ClockMoves(cutoff) => Inv'
<1> SUFFICES ASSUME NEW cutoff \in [query -> Time], Inv, ClockMoves(cutoff) PROVE Inv'
  OBVIOUS
<1> USE PagingAssumption
<1>1. PagingTypeOK'
  <2>1. kept' \in SUBSET Row /\ left' \in SUBSET Row /\ IsFiniteSet(left')
    BY LeftType DEF Inv, ClockMoves
  <2> QED
    BY <2>1 DEF Inv, PagingTypeOK, ClockMoves
<1>2. \A r \in table, a \in query : r.ts \in Int /\ floor[a] \in Int /\ cutoff[a] \in Int
  BY DEF Inv, PagingTypeOK, Row
<1>3. Matching' \subseteq Matching
  <2> SUFFICES ASSUME NEW r \in table, NEW a \in r.fits, r.ts >= cutoff[a]
               PROVE  r.ts >= floor[a]
    BY DEF Matching, MatchingIn, ClockMoves
  <2>1. a \in query /\ cutoff[a] >= floor[a]
    BY DEF Inv, PagingTypeOK, ClockMoves
  <2> QED
    BY <1>2, <2>1
<1>4. OldLeave'
  <2> SUFFICES ASSUME OneRange, NEW r \in kept', NEW s \in left', Before(s, r) PROVE FALSE
    BY DEF OldLeave, OneRange, ClockMoves, Ahead
  <2>1. PICK a : query = {a}
    BY DEF OneRange
  <2>2. r \in kept /\ r \in table /\ \E b \in r.fits : r.ts >= cutoff[b]
    BY DEF ClockMoves, Depart, Matching, MatchingIn
  <2>3. r.ts >= cutoff[a]
    BY <2>1, <2>2 DEF Inv, PagingTypeOK
  <2>4. s \notin left
    BY <2>2 DEF Inv, OldLeave, Ahead
  <2>5. s \in table /\ s.fits \subseteq query /\ (\E b \in s.fits : s.ts >= floor[b])
    BY <2>4 DEF Inv, PagingTypeOK, ClockMoves, Depart, Matching, MatchingIn
  <2>6. ~\E b \in s.fits : s.ts >= cutoff[b]
    BY <2>4, <2>5 DEF ClockMoves, Depart, Matching, MatchingIn
  <2>7. ~(s.ts >= cutoff[a])
    BY <2>1, <2>5, <2>6
  <2>8. s.ts > r.ts \/ s.ts = r.ts
    BY DEF Before
  <2> QED
    BY <1>2, <2>1, <2>2, <2>3, <2>5, <2>7, <2>8
<1> QED
  BY <1>1, <1>3, <1>4, Departs DEF ClockMoves

LEMMA InvNext == Inv /\ [Next]_vars => Inv'
<1> SUFFICES ASSUME Inv, [Next]_vars PROVE Inv'
  OBVIOUS
<1>1. CASE Request
  BY <1>1, RequestInv
<1>2. CASE \E ts \in Time, fits \in Fits : Insert(ts, fits)
  BY <1>2, InsertInv
<1>3. CASE \E ts \in Time : Prune(ts)
  BY <1>3, PruneInv
<1>4. CASE \E cutoff \in [query -> Time] : ClockMoves(cutoff)
  BY <1>4, ClockInv
<1>5. CASE UNCHANGED vars
  BY <1>5 DEF vars, Inv, PagingTypeOK, NothingSkipped, Matching, OldLeave, OneRange,
              Overtaken
<1> QED
  BY <1>1, <1>2, <1>3, <1>4, <1>5 DEF Next

\* The state of the client and of the table keep their types.
THEOREM PagingTypeCorrect == Spec => []PagingTypeOK
<1>1. Inv => PagingTypeOK
  BY DEF Inv
<1> QED
  BY <1>1, InvInit, InvNext, PTL DEF Spec

\* No row that is there all along is skipped between two pages, whatever is
\* inserted and pruned in between (LIMIT and OFFSET on newest first), but in a
\* query with OR when a newer row leaves.
THEOREM NothingSkippedHolds == Spec => []NothingSkipped
<1>1. Inv => NothingSkipped
  BY DEF Inv
<1> QED
  BY <1>1, InvInit, InvNext, PTL DEF Spec

-----------------------------------------------------------------------------
(***************************************************************************)
(* The theorems that count rows: the rows of a result have the ranks       *)
(* 0, 1, 2, ... without a gap, so that a page that is not full is the      *)
(* last, and an insert moves one row of the pages already read behind the  *)
(* offset.                                                                 *)
(***************************************************************************)

UniqueIds(S) == \A r, s \in S : r.id = s.id => r = s

\* Rows that the client has and that will come again.
Pending == {r \in Matching : r \in seen /\ Rank(r, Matching) >= offset}

\* Rows that the client lacks and will not get any more.
Slipped == {r \in kept \ seen : Rank(r, Matching) < offset}

CountInv ==
    /\ Inv
    /\ UniqueIds(table) /\ \A r \in seen \cup left : r.id < nextId
    /\ left \cap Matching = {}
    /\ RepeatsAreInserts /\ (state = "paging" => repeats + Cardinality(Pending) <= inserts)
    /\ NothingMissed
    /\ MissesAreDepartures /\ Cardinality(Slipped) <= Cardinality(left)

-----------------------------------------------------------------------------
(* Ranks. *)

LEMMA RowNumbers ==
    ASSUME NEW S, S \subseteq Row
    PROVE  \A r \in S : r.id \in Int /\ r.ts \in Int
<1> SUFFICES ASSUME NEW r \in S PROVE r.id \in Int /\ r.ts \in Int
  OBVIOUS
<1>1. r.id \in Nat /\ r.ts \in Time
  BY DEF Row
<1>2. r.ts \in Int
  BY <1>1, PagingAssumption
<1>3. r.id \in Int
  BY <1>1
<1> QED
  BY <1>2, <1>3

LEMMA AheadStrict ==
    ASSUME NEW S, IsFiniteSet(S), S \subseteq Row, NEW r \in S, NEW s \in S, Before(s, r)
    PROVE  Rank(s, S) < Rank(r, S)
<1>1. IsFiniteSet(Ahead(s, S)) /\ IsFiniteSet(Ahead(r, S))
  BY FS_Subset DEF Ahead
<1>2. \A t \in S : t.id \in Int /\ t.ts \in Int
  BY RowNumbers
<1>3. ~Before(s, s)
  BY <1>2 DEF Before
<1>4. s \notin Ahead(s, S) /\ s \in Ahead(r, S)
  BY <1>3 DEF Ahead
<1>5. \A t \in S : Before(t, s) => Before(t, r)
  BY <1>2 DEF Before
<1>6. Ahead(s, S) \cup {s} \subseteq Ahead(r, S)
  BY <1>4, <1>5 DEF Ahead
<1>7. Cardinality(Ahead(s, S) \cup {s}) = Cardinality(Ahead(s, S)) + 1
  BY <1>1, <1>4, FS_AddElement
<1>8. Cardinality(Ahead(s, S) \cup {s}) <= Cardinality(Ahead(r, S))
  BY <1>1, <1>6, FS_Subset
<1> QED
  BY <1>1, <1>7, <1>8, FS_CardinalityType DEF Rank

LEMMA RankType ==
    ASSUME NEW S, IsFiniteSet(S), NEW r
    PROVE  Rank(r, S) \in Nat
BY FS_Subset, FS_CardinalityType DEF Rank, Ahead

LEMMA RankInjective ==
    ASSUME NEW S, IsFiniteSet(S), S \subseteq Row, UniqueIds(S), NEW r \in S, NEW s \in S,
           Rank(r, S) = Rank(s, S)
    PROVE  r = s
<1>1. SUFFICES ASSUME r # s PROVE FALSE
  OBVIOUS
<1>2. r.id # s.id
  BY <1>1 DEF UniqueIds
<1>3. r.id \in Int /\ s.id \in Int /\ r.ts \in Int /\ s.ts \in Int
  BY RowNumbers
<1>4. Before(r, s) \/ Before(s, r)
  BY <1>2, <1>3 DEF Before
<1>5. Rank(r, S) \in Nat /\ Rank(s, S) \in Nat
  BY RankType
<1> QED
  BY <1>4, <1>5, AheadStrict

\* There is a row of every rank below that of a row.
LEMMA RankOnto ==
    ASSUME NEW S, IsFiniteSet(S), S \subseteq Row, UniqueIds(S), NEW r \in S,
           NEW k \in 0 .. Rank(r, S)
    PROVE  \E s \in S : Rank(s, S) = k
<1> DEFINE ranks == {Rank(s, S) : s \in {t \in S : Rank(t, S) >= k}}
<1>0. \A t \in S : Rank(t, S) \in Nat
  BY RankType
<1>1. k \in Nat /\ ranks \subseteq Nat /\ Rank(r, S) \in ranks
  BY <1>0
<1>2. PICK m \in ranks : \A n \in ranks : ~(<<n, m>> \in OpToRel(<, Nat))
  BY <1>1, NatLessThanWellFounded, WFMin
<1>3. PICK s \in S : Rank(s, S) = m /\ m >= k
  BY <1>2
<1>4. \A n \in ranks : n >= m
  <2>1. ASSUME NEW n \in ranks, n < m PROVE FALSE
    <3>1. <<n, m>> \in OpToRel(<, Nat)
      BY <1>1, <2>1 DEF OpToRel
    <3> QED
      BY <1>2, <3>1
  <2> QED
    BY <1>1, <2>1
<1>5. ASSUME m > k PROVE FALSE
  <2> DEFINE ahead == Ahead(s, S)
             f == [t \in ahead |-> Rank(t, S)]
  <2>1. ahead \subseteq S /\ IsFiniteSet(ahead) /\ Cardinality(ahead) = m
    BY <1>3, FS_Subset DEF Ahead, Rank
  <2>2. \A t \in ahead : Rank(t, S) \in 0 .. k - 1
    <3> SUFFICES ASSUME NEW t \in ahead PROVE Rank(t, S) \in 0 .. k - 1
      OBVIOUS
    <3>1. t \in S /\ Before(t, s)
      BY DEF Ahead
    <3>2. Rank(t, S) < m
      BY <1>3, <3>1, AheadStrict
    <3>3. ~(Rank(t, S) >= k)
      BY <1>0, <1>1, <1>4, <3>1, <3>2
    <3> QED
      BY <1>0, <1>1, <3>1, <3>3
  <2>3. f \in Injection(ahead, 0 .. k - 1)
    <3>1. f \in [ahead -> 0 .. k - 1]
      BY <2>2
    <3>2. \A t, u \in ahead : f[t] = f[u] => t = u
      BY <2>1, RankInjective
    <3> QED
      BY <3>1, <3>2 DEF Injection, IsInjective
  <2>4. IsFiniteSet(0 .. k - 1) /\ Cardinality(0 .. k - 1) = k
    <3>1. 0 \in Int /\ k - 1 \in Int
      BY <1>1
    <3>2. /\ IsFiniteSet(0 .. k - 1)
          /\ Cardinality(0 .. k - 1) = IF 0 > k - 1 THEN 0 ELSE (k - 1) - 0 + 1
      BY <3>1, FS_Interval
    <3> QED
      BY <1>1, <3>2
  <2>5. Cardinality(ahead) <= k
    BY <2>3, <2>4, FS_Injection
  <2> QED
    BY <1>1, <1>5, <2>1, <2>5
<1>6. m = k
  BY <1>1, <1>3, <1>5
<1> QED
  BY <1>3, <1>6

\* With a row behind it, a page has as many rows as it may have.
LEMMA PageFull ==
    ASSUME NEW S, IsFiniteSet(S), S \subseteq Row, UniqueIds(S), NEW r \in S,
           NEW lim \in Nat, NEW off \in Nat, Rank(r, S) >= off + lim
    PROVE  Cardinality({s \in S : Rank(s, S) >= off /\ Rank(s, S) < off + lim}) = lim
<1> DEFINE page == {s \in S : Rank(s, S) >= off /\ Rank(s, S) < off + lim}
           places == off .. off + lim - 1
           f == [s \in page |-> Rank(s, S)]
<1>1. IsFiniteSet(places) /\ Cardinality(places) = lim
  <2>1. off \in Int /\ off + lim - 1 \in Int
    OBVIOUS
  <2> QED
    BY <2>1, FS_Interval
<1>2. \A s \in S : Rank(s, S) \in Nat
  BY RankType
<1>3. f \in [page -> places]
  BY <1>2
<1>4. f \in Injection(page, places)
  <2>1. \A t, u \in page : f[t] = f[u] => t = u
    BY RankInjective
  <2> QED
    BY <1>3, <2>1 DEF Injection, IsInjective
<1>5. f \in Surjection(page, places)
  <2>1. ASSUME NEW k \in places PROVE \E s \in page : f[s] = k
    <3>1. k \in 0 .. Rank(r, S)
      BY <1>2
    <3>2. PICK s \in S : Rank(s, S) = k
      BY <3>1, RankOnto
    <3> QED
      BY <3>2
  <2> QED
    BY <1>3, <2>1 DEF Surjection
<1> QED
  BY <1>1, <1>4, <1>5, FS_Injection

-----------------------------------------------------------------------------
(* The steps. *)

LEMMA CountedRows ==
    ASSUME CountInv
    PROVE  /\ Matching \subseteq Row /\ IsFiniteSet(Matching) /\ UniqueIds(Matching)
           /\ \A r \in Matching : Rank(r, Matching) \in Nat
           /\ IsFiniteSet(Pending) /\ Cardinality(Pending) \in Nat
           /\ IsFiniteSet(Slipped) /\ Cardinality(Slipped) \in Nat
           /\ IsFiniteSet(left) /\ Cardinality(left) \in Nat
           /\ IsFiniteSet(kept) /\ offset \in Nat /\ kept \subseteq Matching
<1>1. Matching \subseteq Row /\ IsFiniteSet(Matching)
  BY MatchingFinite DEF CountInv, Inv
<1>2. UniqueIds(Matching)
  BY DEF CountInv, UniqueIds, Matching, MatchingIn
<1>3. \A r \in Matching : Rank(r, Matching) \in Nat
  BY <1>1, RankType
<1>4. IsFiniteSet(Pending)
  BY <1>1, FS_Subset DEF Pending
<1>5. kept \subseteq Matching /\ IsFiniteSet(left) /\ offset \in Nat
  BY DEF CountInv, Inv, PagingTypeOK
<1>6. IsFiniteSet(kept)
  BY <1>1, <1>5, FS_Subset
<1>7. IsFiniteSet(Slipped)
  BY <1>6, FS_Subset DEF Slipped
<1> QED
  BY <1>1, <1>2, <1>3, <1>4, <1>5, <1>6, <1>7, FS_CardinalityType

LEMMA CountInit == Init => CountInv
<1> SUFFICES ASSUME Init PROVE CountInv
  OBVIOUS
<1>1. UniqueIds(table)
  <2>1. PICK n \in 0 .. MaxRows :
          \E ts \in [1 .. n -> Time], fits \in [1 .. n -> Fits] :
              table = {[id |-> i, ts |-> ts[i], fits |-> fits[i]] : i \in 1 .. n}
    BY DEF Init
  <2>2. PICK ts \in [1 .. n -> Time], fits \in [1 .. n -> Fits] :
          table = {[id |-> i, ts |-> ts[i], fits |-> fits[i]] : i \in 1 .. n}
    BY <2>1
  <2> QED
    BY <2>2 DEF UniqueIds
<1>2. Pending = {}
  BY DEF Init, Pending
<1>3. Slipped = {}
  <2>1. \A r : Rank(r, Matching) \in Nat
    BY InvInit, MatchingFinite, RankType DEF Inv
  <2> QED
    BY <2>1 DEF Init, Slipped
<1> QED
  BY <1>1, <1>2, <1>3, InvInit, FS_EmptySet
     DEF Init, CountInv, RepeatsAreInserts, NothingMissed, MissesAreDepartures

LEMMA RequestCount == CountInv /\ Request => CountInv'
<1> SUFFICES ASSUME CountInv, Request PROVE CountInv'
  OBVIOUS
<1> DEFINE again == Page \cap seen
           rank(r) == Rank(r, Matching)
<1>1. /\ Matching' = Matching
      /\ limit \in Nat /\ offset \in Nat /\ repeats \in Nat /\ inserts \in Nat
  BY PagingAssumption
     DEF Request, Matching, CountInv, Inv, PagingTypeOK
<1>2. \A r \in Matching :
         r \in Page <=> rank(r) >= offset /\ (limit > 0 => rank(r) < offset + limit)
  <2> DEFINE clause == LimitClause(NoneIfZero(limit), NoneIfZero(offset))
  <2>1. /\ clause.offset = offset
        /\ limit = 0 => clause.limit = -1
        /\ limit > 0 => clause.limit = limit
    BY <1>1, ClauseOf
  <2> QED
    BY <1>1, <2>1 DEF Page, Cut
<1>3. Page \subseteq Matching
  BY DEF Page, Cut
<1>4. again \subseteq Pending
  BY <1>2, <1>3 DEF Pending
<1>5. IsFiniteSet(again) /\ Cardinality(again) \in Nat /\ Cardinality(again) <= Cardinality(Pending)
  BY <1>4, CountedRows, FS_Subset, FS_CardinalityType
<1>6. RepeatsAreInserts'
  BY <1>1, <1>5, CountedRows DEF Request, CountInv, RepeatsAreInserts
<1>7. state' = "paging" => repeats' + Cardinality(Pending') <= inserts'
  <2> SUFFICES ASSUME state' = "paging" PROVE repeats' + Cardinality(Pending') <= inserts'
    OBVIOUS
  <2>1. limit > 0 /\ offset' = offset + limit
    BY DEF Request
  <2>2. \A r \in Pending' : r \in Pending /\ r \notin Page
    <3> SUFFICES ASSUME NEW r \in Pending' PROVE r \in Pending /\ r \notin Page
      OBVIOUS
    <3>1. r \in Matching /\ rank(r) >= offset + limit /\ (r \in seen \/ r \in Page)
      BY <1>1, <2>1 DEF Pending, Request
    <3>2. rank(r) \in Nat
      BY <3>1, CountedRows
    <3> QED
      BY <1>1, <1>2, <2>1, <3>1, <3>2 DEF Pending
  <2>3. IsFiniteSet(Pending') /\ Cardinality(Pending') \in Nat
    BY <2>2, CountedRows, FS_Subset, FS_CardinalityType
  <2>4. Pending' \cap again = {} /\ Pending' \cup again \subseteq Pending
    BY <1>4, <2>2
  <2>5. Cardinality(Pending' \cup again) = Cardinality(Pending') + Cardinality(again)
    BY <1>5, <2>3, <2>4, FS_Union, FS_EmptySet
  <2>6. Cardinality(Pending' \cup again) <= Cardinality(Pending)
    BY <2>4, CountedRows, FS_Subset
  <2> QED
    BY <1>1, <1>5, <2>3, <2>5, <2>6, CountedRows DEF Request, CountInv
<1>8. \A r \in kept : rank(r) < offset + limit /\ r \notin seen' => r \in Slipped
  <2> SUFFICES ASSUME NEW r \in kept, rank(r) < offset + limit, r \notin seen, r \notin Page
               PROVE  rank(r) < offset
    BY DEF Slipped, Request
  <2>1. r \in Matching /\ rank(r) \in Nat
    BY CountedRows
  <2> QED
    BY <1>1, <1>2, <2>1
<1>9. Slipped' \subseteq Slipped
  BY <1>1, <1>8 DEF Slipped, Request
<1>10. Cardinality(Slipped') <= Cardinality(left')
  <2>1. Cardinality(Slipped') \in Nat /\ Cardinality(Slipped') <= Cardinality(Slipped)
    BY <1>9, CountedRows, FS_Subset, FS_CardinalityType
  <2>2. left' = left
    BY DEF Request
  <2> QED
    BY <2>1, <2>2, CountedRows DEF CountInv
<1>11. state' = "done" => kept \ seen' \subseteq Slipped
  <2> SUFFICES ASSUME state' = "done", NEW r \in kept, r \notin seen, r \notin Page,
                      ~(r \in Slipped)
               PROVE  FALSE
    BY DEF Request
  <2>1. r \in Matching /\ rank(r) \in Nat /\ rank(r) >= offset
    BY <1>1, CountedRows DEF Slipped
  <2>2. limit > 0 /\ rank(r) >= offset + limit
    BY <1>1, <1>2, <2>1
  <2>3. Page = {s \in Matching : rank(s) >= offset /\ rank(s) < offset + limit}
    BY <1>2, <1>3, <2>2
  <2>4. Cardinality({s \in Matching : rank(s) >= offset /\ rank(s) < offset + limit}) = limit
    BY <1>1, <2>1, <2>2, CountedRows, PageFull
  <2> QED
    BY <2>2, <2>3, <2>4 DEF Request
<1>12. NothingMissed'
  <2> SUFFICES ASSUME state' = "done", NEW r \in kept, r \notin seen' PROVE Overtaken(r)
    BY DEF NothingMissed, Request, Overtaken, OneRange
  <2>1. r \in Slipped /\ r \notin seen
    BY <1>11 DEF Request
  <2>2. rank(r) \in Nat /\ rank(r) < offset
    BY <2>1, CountedRows DEF Slipped
  <2>3. ~(rank(r) >= offset)
    BY <1>1, <2>2
  <2> QED
    BY <2>1, <2>3 DEF CountInv, Inv, NothingSkipped
<1>13. MissesAreDepartures'
  <2> SUFFICES ASSUME state' = "done"
               PROVE  Cardinality(kept \ seen') <= Cardinality(left)
    BY DEF MissesAreDepartures, Request
  <2>1. /\ Cardinality(kept \ seen') \in Nat
        /\ Cardinality(kept \ seen') <= Cardinality(Slipped)
    BY <1>11, CountedRows, FS_Subset, FS_CardinalityType
  <2> QED
    BY <2>1, CountedRows DEF CountInv
<1>14. UniqueIds(table)' /\ (\A r \in seen \cup left : r.id < nextId)' /\ (left \cap Matching)' = {}
  BY <1>1, <1>3 DEF CountInv, Inv, PagingTypeOK, Request, UniqueIds, Matching, MatchingIn
<1> QED
  BY <1>6, <1>7, <1>10, <1>12, <1>13, <1>14, RequestInv DEF CountInv

\* What a client will get again grows by one row at most: the last that it has
\* got, which an insert pushes behind the offset.
LEMMA InsertCount ==
    \A ts \in Time, fits \in Fits : CountInv /\ Insert(ts, fits) => CountInv'
<1> SUFFICES ASSUME NEW ts \in Time, NEW fits \in Fits, CountInv, Insert(ts, fits)
             PROVE  CountInv'
  OBVIOUS
<1> DEFINE new == [id |-> nextId, ts |-> ts, fits |-> fits]
<1>1. Inv'
  BY InsertInv DEF CountInv
<1>2. \A r \in table : r.id \in Nat /\ r.id < nextId
  BY DEF CountInv, Inv, PagingTypeOK, Row
<1>3. nextId \in Nat /\ offset \in Nat /\ repeats \in Nat /\ inserts \in Nat
  BY PagingAssumption DEF CountInv, Inv, PagingTypeOK
<1>4. new \notin table /\ new \notin seen /\ new \notin left
  BY <1>2, <1>3 DEF CountInv
<1>5. UniqueIds(table)' /\ (\A r \in seen \cup left : r.id < nextId)'
  <2>1. \A r \in seen \cup left : r.id \in Nat
    BY DEF CountInv, Inv, PagingTypeOK, Row
  <2> QED
    BY <1>2, <1>3, <2>1 DEF CountInv, UniqueIds, Insert
<1>6. Matching' \subseteq Matching \cup {new}
  BY DEF Matching, MatchingIn, Insert
<1>7. IsFiniteSet(Matching')
  <2>1. IsFiniteSet(table') /\ Matching' \subseteq table'
    BY <1>1 DEF Inv, PagingTypeOK, Matching, MatchingIn
  <2> QED
    BY <2>1, FS_Subset
<1>8. \A r \in Matching : Rank(r, Matching') <= Rank(r, Matching) + 1
  <2> SUFFICES ASSUME NEW r \in Matching PROVE Rank(r, Matching') <= Rank(r, Matching) + 1
    OBVIOUS
  <2>1. Ahead(r, Matching') \subseteq Ahead(r, Matching) \cup {new}
    BY <1>6 DEF Ahead
  <2>2. IsFiniteSet(Ahead(r, Matching)) /\ IsFiniteSet({new}) /\ Cardinality({new}) = 1
    BY CountedRows, FS_Subset, FS_Singleton DEF Ahead
  <2>3. new \notin Ahead(r, Matching)
    BY <1>4 DEF Ahead, Matching, MatchingIn
  <2>4. /\ IsFiniteSet(Ahead(r, Matching) \cup {new})
        /\ Cardinality(Ahead(r, Matching) \cup {new}) = Cardinality(Ahead(r, Matching)) + 1
    BY <2>2, <2>3, FS_AddElement
  <2> QED
    BY <2>1, <2>4, FS_Subset DEF Rank
<1> DEFINE last == {r \in Matching : Rank(r, Matching) = offset - 1}
<1>9. Pending' \subseteq Pending \cup last
  <2> SUFFICES ASSUME NEW r \in Pending' PROVE r \in Pending \cup last
    OBVIOUS
  <2>1. r \in Matching' /\ r \in seen /\ Rank(r, Matching') >= offset
    BY DEF Pending, Insert
  <2>2. r \in Matching
    BY <1>4, <1>6, <2>1
  <2>3. Rank(r, Matching) \in Nat /\ Rank(r, Matching') \in Nat
    BY <1>7, <2>2, CountedRows, RankType
  <2>4. Rank(r, Matching) >= offset - 1
    BY <1>3, <1>8, <2>1, <2>2, <2>3
  <2> QED
    BY <1>3, <2>1, <2>2, <2>3, <2>4 DEF Pending
<1>10. IsFiniteSet(last) /\ Cardinality(last) <= 1
  <2>1. \A r, s \in last : r = s
    BY CountedRows, RankInjective
  <2>2. CASE last = {}
    BY <2>2, FS_EmptySet
  <2>3. CASE \E r : last = {r}
    <3>1. PICK r : last = {r}
      BY <2>3
    <3>2. IsFiniteSet({r}) /\ Cardinality({r}) = 1
      BY FS_Singleton
    <3> QED
      BY <3>1, <3>2
  <2> QED
    BY <2>1, <2>2, <2>3
<1>11. IsFiniteSet(Pending') /\ Cardinality(Pending') <= Cardinality(Pending) + 1
  <2>1. /\ IsFiniteSet(Pending \cup last) /\ IsFiniteSet(Pending \cap last)
        /\ Cardinality(Pending \cup last)
             = Cardinality(Pending) + Cardinality(last) - Cardinality(Pending \cap last)
    BY <1>10, CountedRows, FS_Union, FS_Intersection
  <2>2. /\ Cardinality(last) \in Nat /\ Cardinality(Pending \cap last) \in Nat
        /\ Cardinality(Pending \cup last) \in Nat
    BY <1>10, <2>1, FS_CardinalityType
  <2>3. /\ IsFiniteSet(Pending') /\ Cardinality(Pending') <= Cardinality(Pending \cup last)
        /\ Cardinality(Pending') \in Nat
    BY <1>9, <2>1, FS_Subset, FS_CardinalityType
  <2> QED
    BY <1>10, <2>1, <2>2, <2>3, CountedRows
<1>12. Cardinality(Pending') \in Nat
  BY <1>11, FS_CardinalityType
<1>13. RepeatsAreInserts' /\ (state' = "paging" => repeats' + Cardinality(Pending') <= inserts')
  BY <1>3, <1>11, <1>12, CountedRows DEF CountInv, RepeatsAreInserts, Insert
<1>14. NothingMissed' /\ MissesAreDepartures'
  BY DEF NothingMissed, MissesAreDepartures, Insert
<1>15. (left \cap Matching)' = {}
  BY <1>4, <1>6 DEF CountInv, Insert
<1>16. Slipped' \subseteq Slipped
  <2> SUFFICES ASSUME NEW r \in kept, Rank(r, Matching') < offset
               PROVE  Rank(r, Matching) < offset
    BY DEF Slipped, Insert
  <2>1. Ahead(r, Matching) \subseteq Matching'
    BY DEF Ahead, Matching, MatchingIn, Insert
  <2> QED
    BY <1>3, <1>7, <2>1, CountedRows, RankMonotone
<1>17. Cardinality(Slipped') <= Cardinality(left')
  <2>1. Cardinality(Slipped') \in Nat /\ Cardinality(Slipped') <= Cardinality(Slipped)
    BY <1>16, CountedRows, FS_Subset, FS_CardinalityType
  <2>2. left' = left
    BY DEF Insert
  <2> QED
    BY <2>1, <2>2, CountedRows DEF CountInv
<1> QED
  BY <1>1, <1>5, <1>13, <1>14, <1>15, <1>17 DEF CountInv

\* At most k rows have a rank among k in a row.
LEMMA RanksAmong ==
    ASSUME NEW S, IsFiniteSet(S), S \subseteq Row, UniqueIds(S), NEW off \in Nat, NEW k \in Nat
    PROVE  LET some == {r \in S : Rank(r, S) >= off /\ Rank(r, S) < off + k}
           IN  IsFiniteSet(some) /\ Cardinality(some) \in Nat /\ Cardinality(some) <= k
<1> DEFINE some == {r \in S : Rank(r, S) >= off /\ Rank(r, S) < off + k}
           places == off .. off + k - 1
           f == [r \in some |-> Rank(r, S)]
<1>1. IsFiniteSet(places) /\ Cardinality(places) = k
  <2>1. off \in Int /\ off + k - 1 \in Int
    OBVIOUS
  <2> QED
    BY <2>1, FS_Interval
<1>2. \A r \in S : Rank(r, S) \in Nat
  BY RankType
<1>3. f \in [some -> places]
  BY <1>2
<1>4. f \in Injection(some, places)
  <2>1. \A t, u \in some : f[t] = f[u] => t = u
    BY RankInjective
  <2> QED
    BY <1>3, <2>1 DEF Injection, IsInjective
<1>5. IsFiniteSet(some) /\ Cardinality(some) \in Nat
  BY FS_Subset, FS_CardinalityType
<1> QED
  BY <1>1, <1>4, <1>5, FS_Injection

LEMMA DisjointUnion ==
    ASSUME NEW S, NEW T, IsFiniteSet(S), IsFiniteSet(T), S \cap T = {}
    PROVE  Cardinality(S \cup T) = Cardinality(S) + Cardinality(T)
<1>1. Cardinality(S \cap T) = 0
  BY FS_EmptySet
<1>2. Cardinality(S) \in Nat /\ Cardinality(T) \in Nat
  BY FS_CardinalityType
<1>3. Cardinality(S \cup T) = Cardinality(S) + Cardinality(T) - Cardinality(S \cap T)
  BY FS_Union
<1> QED
  BY <1>1, <1>2, <1>3

\* As many rows as leave can slip under the offset.
LEMMA DepartCount ==
    ASSUME CountInv, Depart, Inv', Matching' \subseteq Matching, table' \subseteq table,
           state = "paging", UNCHANGED <<nextId, offset, state, seen, repeats, inserts>>
    PROVE  CountInv'
<1>1. IsFiniteSet(Matching')
  BY CountedRows, FS_Subset
<1>2. Pending' \subseteq Pending
  <2> SUFFICES ASSUME NEW r \in Pending' PROVE r \in Pending
    OBVIOUS
  <2>1. r \in Matching /\ r \in seen /\ Rank(r, Matching') >= offset
    BY DEF Pending
  <2>2. Ahead(r, Matching') \subseteq Matching
    BY DEF Ahead
  <2>3. /\ Rank(r, Matching') \in Nat /\ Rank(r, Matching) \in Nat
        /\ Rank(r, Matching') <= Rank(r, Matching)
    BY <1>1, <2>2, CountedRows, RankMonotone
  <2> QED
    BY <2>1, <2>3, CountedRows DEF Pending
<1>3. Cardinality(Pending') \in Nat /\ Cardinality(Pending') <= Cardinality(Pending)
  BY <1>2, CountedRows, FS_Subset, FS_CardinalityType
<1>4. repeats \in Nat /\ inserts \in Nat
  BY PagingAssumption DEF CountInv, Inv, PagingTypeOK
<1>5. RepeatsAreInserts' /\ (state' = "paging" => repeats' + Cardinality(Pending') <= inserts')
  BY <1>3, <1>4, CountedRows DEF CountInv, RepeatsAreInserts
<1> DEFINE gone == Matching \ Matching'
           low == {r \in Matching : Rank(r, Matching) >= offset
                                      /\ Rank(r, Matching) < offset + Cardinality(gone)}
<1>6. IsFiniteSet(gone) /\ Cardinality(gone) \in Nat
  BY CountedRows, FS_Subset, FS_CardinalityType
<1>7. IsFiniteSet(low) /\ Cardinality(low) \in Nat /\ Cardinality(low) <= Cardinality(gone)
  BY <1>6, CountedRows, RanksAmong
<1>8. Slipped' \subseteq Slipped \cup low
  <2> SUFFICES ASSUME NEW r \in kept, r \notin seen, Rank(r, Matching') < offset
               PROVE  Rank(r, Matching) < offset + Cardinality(gone)
    BY CountedRows DEF Slipped, Depart
  <2>1. /\ IsFiniteSet(Ahead(r, Matching')) /\ IsFiniteSet(Ahead(r, gone))
        /\ Cardinality(Ahead(r, Matching')) \in Nat /\ Cardinality(Ahead(r, gone)) \in Nat
        /\ Cardinality(Ahead(r, gone)) <= Cardinality(gone)
    BY <1>1, <1>6, FS_Subset, FS_CardinalityType DEF Ahead
  <2>2. /\ Ahead(r, Matching) = Ahead(r, Matching') \cup Ahead(r, gone)
        /\ Ahead(r, Matching') \cap Ahead(r, gone) = {}
    BY DEF Ahead
  <2>3. Cardinality(Ahead(r, Matching))
          = Cardinality(Ahead(r, Matching')) + Cardinality(Ahead(r, gone))
    BY <2>1, <2>2, DisjointUnion
  <2> QED
    BY <1>6, <2>1, <2>3, CountedRows DEF Rank
<1>9. /\ IsFiniteSet(Slipped') /\ Cardinality(Slipped') \in Nat
      /\ Cardinality(Slipped') <= Cardinality(Slipped) + Cardinality(gone)
  <2>1. /\ IsFiniteSet(Slipped \cup low) /\ IsFiniteSet(Slipped \cap low)
        /\ Cardinality(Slipped \cup low)
             = Cardinality(Slipped) + Cardinality(low) - Cardinality(Slipped \cap low)
    BY <1>7, CountedRows, FS_Union, FS_Intersection
  <2>2. Cardinality(Slipped \cap low) \in Nat /\ Cardinality(Slipped \cup low) \in Nat
    BY <2>1, FS_CardinalityType
  <2>3. /\ IsFiniteSet(Slipped') /\ Cardinality(Slipped') \in Nat
        /\ Cardinality(Slipped') <= Cardinality(Slipped \cup low)
    BY <1>8, <2>1, FS_Subset, FS_CardinalityType
  <2> QED
    BY <1>6, <1>7, <2>1, <2>2, <2>3, CountedRows
<1>10. Cardinality(left') = Cardinality(left) + Cardinality(gone)
  <2>1. left' = left \cup gone /\ left \cap gone = {}
    BY DEF Depart, CountInv
  <2>2. IsFiniteSet(left) /\ IsFiniteSet(gone)
    BY <1>6, CountedRows
  <2> QED
    BY <2>1, <2>2, DisjointUnion
<1>11. Cardinality(Slipped') <= Cardinality(left')
  BY <1>6, <1>9, <1>10, CountedRows DEF CountInv
<1>12. (left \cap Matching)' = {}
  BY DEF CountInv, Depart
<1>13. UniqueIds(table') /\ \A r \in seen' \cup left' : r.id < nextId'
  BY DEF CountInv, Inv, PagingTypeOK, UniqueIds, Depart, Matching, MatchingIn
<1>14. NothingMissed' /\ MissesAreDepartures'
  BY DEF NothingMissed, MissesAreDepartures
<1> QED
  BY <1>5, <1>11, <1>12, <1>13, <1>14 DEF CountInv, UniqueIds

LEMMA PruneCount == \A cutoff \in Time : CountInv /\ Prune(cutoff) => CountInv'
<1> SUFFICES ASSUME NEW cutoff \in Time, CountInv, Prune(cutoff) PROVE CountInv'
  OBVIOUS
<1>1. Inv'
  BY PruneInv DEF CountInv
<1>2. Matching' \subseteq Matching /\ table' \subseteq table
  BY DEF Prune, Matching, MatchingIn
<1> QED
  BY <1>1, <1>2, DepartCount DEF Prune

LEMMA ClockCount == \A cutoff \in [query -> Time] : CountInv /\ ClockMoves(cutoff) => CountInv'
<1> SUFFICES ASSUME NEW cutoff \in [query -> Time], CountInv, ClockMoves(cutoff)
             PROVE  CountInv'
  OBVIOUS
<1>1. Inv'
  BY ClockInv DEF CountInv
<1>2. Matching' \subseteq Matching
  <2> SUFFICES ASSUME NEW r \in table, NEW a \in r.fits, r.ts >= cutoff[a] PROVE r.ts >= floor[a]
    BY DEF ClockMoves, Matching, MatchingIn
  <2>1. r.ts \in Int
    BY RowNumbers DEF CountInv, Inv, PagingTypeOK
  <2>2. a \in query /\ floor[a] \in Int /\ cutoff[a] \in Int /\ cutoff[a] >= floor[a]
    BY PagingAssumption DEF CountInv, Inv, PagingTypeOK, ClockMoves
  <2> QED
    BY <2>1, <2>2
<1>3. table' \subseteq table
  BY DEF ClockMoves
<1> QED
  BY <1>1, <1>2, <1>3, DepartCount DEF ClockMoves

LEMMA CountNext == CountInv /\ [Next]_vars => CountInv'
<1> SUFFICES ASSUME CountInv, [Next]_vars PROVE CountInv'
  OBVIOUS
<1>1. CASE Request
  BY <1>1, RequestCount
<1>2. CASE \E ts \in Time, fits \in Fits : Insert(ts, fits)
  BY <1>2, InsertCount
<1>3. CASE \E ts \in Time : Prune(ts)
  BY <1>3, PruneCount
<1>4. CASE \E cutoff \in [query -> Time] : ClockMoves(cutoff)
  BY <1>4, ClockCount
<1>5. CASE UNCHANGED vars
  <2>1. Inv' /\ Matching' = Matching
    BY <1>5, InvNext DEF CountInv, vars, Matching
  <2>2. Pending' = Pending /\ Slipped' = Slipped
    BY <1>5, <2>1 DEF vars, Pending, Slipped
  <2> QED
    BY <1>5, <2>1, <2>2
       DEF vars, CountInv, RepeatsAreInserts, NothingMissed, MissesAreDepartures, Overtaken,
           OneRange
<1> QED
  BY <1>1, <1>2, <1>3, <1>4, <1>5 DEF Next

\* Once a page comes back short, the client has every row that was there from
\* its first request to its last, but for those of a query with OR that a
\* newer row slipped under the offset when it left.
THEOREM NothingMissedHolds == Spec => []NothingMissed
<1>1. CountInv => NothingMissed
  BY DEF CountInv
<1> QED
  BY <1>1, CountInit, CountNext, PTL DEF Spec

\* In a query with OR the client misses at most as many rows that were there
\* all along as left the result while it paged.
THEOREM MissesAreDeparturesHolds == Spec => []MissesAreDepartures
<1>1. CountInv => MissesAreDepartures
  BY DEF CountInv
<1> QED
  BY <1>1, CountInit, CountNext, PTL DEF Spec

\* A row comes a second time only because of an insert, and at most once for
\* each of them.
THEOREM RepeatsAreInsertsHolds == Spec => []RepeatsAreInserts
<1>1. CountInv => RepeatsAreInserts
  BY DEF CountInv
<1> QED
  BY <1>1, CountInit, CountNext, PTL DEF Spec
=============================================================================
