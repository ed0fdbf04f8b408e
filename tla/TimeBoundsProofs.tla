-------------------------- MODULE TimeBoundsProofs --------------------------
(***************************************************************************)
(* Windows of time over rows of any shapes, for any clock, any machine     *)
(* widths and any fineness of the fractions.                               *)
(***************************************************************************)
EXTENDS TimeBounds, TLAPS

(* Whole seconds and fractions. *)

LEMMA DivMod ==
    ASSUME NEW a \in Int, NEW d \in Nat \ {0}
    PROVE  /\ a \div d \in Int /\ a % d \in 0 .. d - 1
           /\ a = d * (a \div d) + (a % d)
OBVIOUS

LEMMA NextMultiple ==
    ASSUME NEW p \in Int, NEW q \in Int, NEW d \in Nat \ {0}, p < q
    PROVE  d * p + d <= d * q
<1>1. p + 1 <= q
  OBVIOUS
<1>2. d * (p + 1) <= d * q
  BY <1>1
<1>3. d * (p + 1) = d * p + d
  OBVIOUS
<1> QED BY <1>2, <1>3

LEMMA DivModOrder ==
    ASSUME NEW i \in Int, NEW j \in Int, NEW d \in Nat \ {0}, i <= j
    PROVE  i \div d < j \div d \/ (i \div d = j \div d /\ i % d <= j % d)
<1>1. PICK p \in Int, r \in 0 .. d - 1, m \in Int : p = i \div d /\ r = i % d /\ m = d * p /\ i = m + r
  BY DivMod
<1>2. PICK q \in Int, s \in 0 .. d - 1, n \in Int : q = j \div d /\ s = j % d /\ n = d * q /\ j = n + s
  BY DivMod
<1>3. ~(q < p)
  <2>1. q < p => n + d <= m
    BY <1>1, <1>2, NextMultiple
  <2> QED BY <1>1, <1>2, <2>1
<1>4. p = q => r <= s
  <2>1. p = q => m = n
    BY <1>1, <1>2
  <2> QED BY <1>1, <1>2, <2>1
<1> QED BY <1>1, <1>2, <1>3, <1>4

-----------------------------------------------------------------------------
(* Rows and cutoffs. *)

TimeTypes == now \in Nat /\ stored \subseteq Timestamp

LEMMA TimeTypesHold == Spec => []TimeTypes
<1>1. Init => TimeTypes
  BY DEF Init, TimeTypes
<1>2. TimeTypes /\ [Next]_vars => TimeTypes'
  BY DEF TimeTypes, Next, vars, Tick, Ingest, PruneBefore, PruneOlderThan
<1> QED BY <1>1, <1>2, PTL DEF Spec

LEMMA RowTypes ==
    ASSUME NEW t \in Timestamp
    PROVE  /\ t.local \in Nat /\ t.local > 0 /\ t.rest \in Rests /\ Order[t.rest] \in Nat
           /\ Offset[t.rest] \in Int /\ Fraction[t.rest] \in 0 .. Ticks - 1 /\ Instant(t) \in Int
<1>1. t.local \in Locals /\ t.rest \in Rests
  BY DEF Timestamp
<1>2. /\ t.local \in Nat /\ t.local > 0 /\ Order[t.rest] \in Nat
      /\ Offset[t.rest] \in Int /\ Fraction[t.rest] \in 0 .. Ticks - 1 /\ Ticks \in Nat
  <2>1. t.local \in Nat /\ t.local > 0 /\ Ticks \in Nat
    <3>1. Locals \subseteq Nat \ {0} /\ Ticks \in Nat
      BY TimeAssumption
    <3>2. t.local \in Nat /\ t.local # 0
      BY <1>1, <3>1
    <3>3. \A l \in Nat : l # 0 => l > 0
      OBVIOUS
    <3> QED BY <3>1, <3>2, <3>3
  <2>2. Order[t.rest] \in Nat
    BY <1>1, TimeAssumption
  <2>3. Offset[t.rest] \in Int
    BY <1>1, TimeAssumption
  <2>4. Fraction[t.rest] \in 0 .. Ticks - 1
    BY <1>1, TimeAssumption
  <2> QED BY <2>1, <2>2, <2>3, <2>4
<1>3. Instant(t) \in Int
  <2>1. PICK o \in Int, f \in Int : o = t.local - Offset[t.rest] /\ f = Fraction[t.rest]
    BY <1>2
  <2>2. Ticks * o + f \in Int
    BY <1>2
  <2> QED BY <2>1, <2>2 DEF Instant
<1> QED BY <1>1, <1>2, <1>3

\* An earlier cutoff is written as one that no row is before and not before the
\* later one.
LEMMA EarlierCutoff ==
    ASSUME NEW i \in Int, NEW j \in Int, i <= j, NEW t \in Timestamp,
           TextLess(t, ToRfc3339(i))
    PROVE  TextLess(t, ToRfc3339(j))
<1>1. PICK d \in Nat \ {0} : d = Ticks
  BY TimeAssumption
<1>2. PICK p \in Int, q \in Int, r \in 0 .. d - 1, s \in 0 .. d - 1 :
          /\ p = i \div d /\ q = j \div d /\ r = i % d /\ s = j % d
          /\ p < q \/ (p = q /\ r <= s)
  <2>1. i \div d \in Int /\ j \div d \in Int /\ i % d \in 0 .. d - 1 /\ j % d \in 0 .. d - 1
    BY DivMod
  <2> QED BY <2>1, DivModOrder
<1>3. PICK m \in Nat, n \in Nat : /\ m = Order[UtcRest[r]] /\ n = Order[UtcRest[s]]
                                  /\ r <= s => m <= n
  BY <1>1, TimeAssumption
<1>4. PICK l \in Nat, o \in Nat : l = t.local /\ o = Order[t.rest]
  BY RowTypes
<1>5. l < p \/ (l = p /\ o < m)
  BY <1>1, <1>2, <1>3, <1>4 DEF TextLess, ToRfc3339
<1>6. l < q \/ (l = q /\ o < n)
  BY <1>2, <1>3, <1>5
<1> QED BY <1>1, <1>2, <1>3, <1>4, <1>6 DEF TextLess, ToRfc3339

\* Nothing is before the epoch.
LEMMA EpochShowsAll ==
    ASSUME NEW t \in Timestamp
    PROVE  ~TextLess(t, ToRfc3339(0))
<1>1. 0 \div Ticks = 0
  BY TimeAssumption
<1>2. ToRfc3339(0).local = 0
  BY <1>1 DEF ToRfc3339
<1>3. t.local \in Nat /\ t.local > 0
  BY RowTypes
<1> QED BY <1>2, <1>3 DEF TextLess

-----------------------------------------------------------------------------
(* The cutoff of `last`. *)

LEMMA CappedSeconds ==
    ASSUME NEW amount \in Amounts, NEW unit \in Units
    PROVE  /\ Seconds(amount, unit) \in Nat
           /\ Capped(Capped(amount) * UnitSeconds[unit]) = Capped(Seconds(amount, unit))
<1>1. PICK a \in Nat, u \in Nat, c \in Nat, s \in Nat :
          a = amount /\ u = UnitSeconds[unit] /\ c = I64Max /\ s = a * u
  <2>1. amount \in Nat /\ UnitSeconds[unit] \in Nat /\ I64Max \in Nat
    BY TimeAssumption
  <2>2. amount * UnitSeconds[unit] \in Nat
    BY <2>1
  <2> QED BY <2>1, <2>2
<1>2. Seconds(amount, unit) = s
  BY <1>1 DEF Seconds
<1>3. CASE a <= c
  <2>1. Capped(amount) = a
    BY <1>1, <1>3 DEF Capped
  <2> QED BY <1>1, <1>2, <2>1
<1>4. CASE a > c /\ u = 0
  <2>1. s = 0 /\ c * u = 0
    BY <1>1, <1>4
  <2>2. Capped(amount) = c
    BY <1>1, <1>4 DEF Capped
  <2> QED BY <1>1, <1>2, <2>1, <2>2
<1>5. CASE a > c /\ u # 0
  <2>1. PICK v \in Nat : u = v + 1
    <3>1. u - 1 \in Nat /\ u = (u - 1) + 1
      BY <1>5
    <3> QED BY <3>1
  <2>2. a * (v + 1) = a * v + a /\ c * (v + 1) = c * v + c /\ a * v \in Nat /\ c * v \in Nat
    OBVIOUS
  <2>3. s > c /\ c * u >= c
    BY <1>1, <1>5, <2>1, <2>2
  <2>4. Capped(amount) = c /\ Capped(s) = c
    BY <1>1, <1>5, <2>3 DEF Capped
  <2>5. Capped(c * u) = c
    BY <1>1, <2>3 DEF Capped
  <2> QED BY <1>1, <1>2, <2>4, <2>5
<1> QED BY <1>1, <1>2, <1>3, <1>4, <1>5

\* Its seconds, which do not depend on the clock; where it leads, that is Edge.
Edge(at, secs) == IF at - Ticks * secs < InstantMin THEN 0 ELSE at - Ticks * secs

LEMMA LastCutoff ==
    ASSUME NEW amount \in Amounts, NEW unit \in Units, NEW secs, secs = Capped(Seconds(amount, unit))
    PROVE  /\ secs \in Nat
           /\ Answers(amount, unit) <=> secs <= DeltaMax
           /\ Answers(amount, unit) => SelectedByLast(amount, unit) = SelectedFrom(ToRfc3339(Edge(now, secs)))
<1>1. Seconds(amount, unit) \in Nat /\ Capped(Capped(amount) * UnitSeconds[unit]) = secs
  BY CappedSeconds
<1>2. secs \in Nat
  BY <1>1, TimeAssumption DEF Capped
<1>3. ComputeLastCutoff(amount, unit) = IF secs > DeltaMax THEN Panic ELSE Cutoff(Edge(now, secs))
  BY <1>1 DEF ComputeLastCutoff, Edge
<1>4. Panic.result # "cutoff" /\ \A i : Cutoff(i).result = "cutoff" /\ Cutoff(i).at = i
  BY DEF Panic, Cutoff
<1>5. secs > DeltaMax <=> ~(secs <= DeltaMax)
  BY <1>2, TimeAssumption
<1>6. Answers(amount, unit) <=> secs <= DeltaMax
  BY <1>3, <1>4, <1>5 DEF Answers
<1>7. ASSUME Answers(amount, unit)
      PROVE  SelectedByLast(amount, unit) = SelectedFrom(ToRfc3339(Edge(now, secs)))
  <2>1. ComputeLastCutoff(amount, unit) = Cutoff(Edge(now, secs))
    BY <1>3, <1>5, <1>6, <1>7
  <2> QED BY <1>4, <2>1 DEF SelectedByLast
<1> QED BY <1>2, <1>6, <1>7

\* A row that is not before the edge of a window is not before the edge of a
\* longer one, nor of one that is looked at earlier.
LEMMA EdgesInOrder ==
    ASSUME NEW x \in Nat, NEW y \in Nat, NEW r \in Nat, NEW s \in Nat, y <= x, r <= s,
           NEW t \in Timestamp, TextLess(t, ToRfc3339(Edge(y, s)))
    PROVE  TextLess(t, ToRfc3339(Edge(x, r)))
<1>1. PICK d \in Nat, m \in Int, a \in Nat, b \in Nat :
          d = Ticks /\ m = InstantMin /\ a = d * r /\ b = d * s /\ a <= b
  <2>1. Ticks \in Nat /\ InstantMin \in Int
    BY TimeAssumption
  <2>2. Ticks * r \in Nat /\ Ticks * s \in Nat /\ Ticks * r <= Ticks * s
    BY <2>1
  <2> QED BY <2>1, <2>2
<1>2. Edge(x, r) = (IF x - a < m THEN 0 ELSE x - a) /\ Edge(y, s) = (IF y - b < m THEN 0 ELSE y - b)
  BY <1>1 DEF Edge
<1>3. ~(y - b < m)
  BY <1>2, EpochShowsAll
<1>4. y - b <= x - a /\ ~(x - a < m) /\ y - b \in Int /\ x - a \in Int
  BY <1>1, <1>3
<1> QED BY <1>2, <1>3, <1>4, EarlierCutoff

-----------------------------------------------------------------------------
(* The theorems. *)

LEMMA LongerWindows ==
    ASSUME TimeTypes
    PROVE  LongerShowsMore
<1> SUFFICES ASSUME NEW a \in Amounts, NEW b \in Amounts, NEW u \in Units, NEW v \in Units,
                    Answers(a, u), Answers(b, v), Seconds(a, u) <= Seconds(b, v)
             PROVE  SelectedByLast(a, u) \subseteq SelectedByLast(b, v)
  BY DEF LongerShowsMore
<1>1. PICK r \in Nat : r = Capped(Seconds(a, u)) /\ SelectedByLast(a, u) = SelectedFrom(ToRfc3339(Edge(now, r)))
  BY LastCutoff
<1>2. PICK s \in Nat : s = Capped(Seconds(b, v)) /\ SelectedByLast(b, v) = SelectedFrom(ToRfc3339(Edge(now, s)))
  BY LastCutoff
<1>3. r <= s
  <2>1. Seconds(a, u) \in Nat /\ Seconds(b, v) \in Nat /\ I64Max \in Nat
    BY CappedSeconds, TimeAssumption
  <2> QED BY <1>1, <1>2, <2>1 DEF Capped
<1>4. now \in Nat /\ now <= now /\ stored \subseteq Timestamp
  BY DEF TimeTypes
<1>5. \A t \in Timestamp : TextLess(t, ToRfc3339(Edge(now, s))) => TextLess(t, ToRfc3339(Edge(now, r)))
  BY <1>3, <1>4, EdgesInOrder
<1> QED BY <1>1, <1>2, <1>4, <1>5 DEF SelectedFrom

LEMMA WrongOnlyWithin ==
    ASSUME TimeTypes
    PROVE  WrongOnlyWithinASecond
<1> SUFFICES ASSUME NEW t \in stored, NEW u \in Timestamp, NEW second, second = Instant(u) \div Ticks,
                    Offset[t.rest] = 0, t.local # second
             PROVE  t \in SelectedFrom(SinceText(u)) <=> Instant(t) >= Instant(u)
  BY DEF WrongOnlyWithinASecond
<1>1. PICK d \in Nat \ {0} : d = Ticks
  BY TimeAssumption
<1>2. PICK i \in Int, q \in Int, r \in 0 .. d - 1, m \in Int :
          i = Instant(u) /\ q = second /\ m = d * q /\ i = m + r
  <2>1. Instant(u) \in Int
    BY RowTypes
  <2>2. PICK i \in Int : i = Instant(u)
    BY <2>1
  <2>3. i \div d \in Int /\ i % d \in 0 .. d - 1 /\ i = d * (i \div d) + (i % d)
    BY DivMod
  <2>4. d * (i \div d) \in Int
    BY <2>3
  <2> QED BY <1>1, <2>2, <2>3, <2>4
<1>3. PICK l \in Nat, f \in 0 .. d - 1, n \in Int : l = t.local /\ n = d * l /\ Instant(t) = n + f /\ l # q
  <2>1. t \in Timestamp
    BY DEF TimeTypes
  <2>2. t.local \in Nat /\ Fraction[t.rest] \in 0 .. d - 1
    BY <1>1, <2>1, RowTypes
  <2>3. t.local - Offset[t.rest] = t.local /\ d * t.local \in Int
    BY <2>2
  <2> QED BY <1>1, <1>2, <2>2, <2>3 DEF Instant
<1>4. SinceText(u).local = q
  BY <1>2 DEF SinceText, ToRfc3339
<1>5. TextLess(t, SinceText(u)) <=> l < q
  BY <1>3, <1>4 DEF TextLess
<1>6. t \in SelectedFrom(SinceText(u)) <=> ~(l < q)
  BY <1>5 DEF SelectedFrom
<1>7. l < q => ~(n + f >= m + r)
  <2>1. l < q => n + d <= m
    BY <1>2, <1>3, NextMultiple
  <2> QED BY <2>1
<1>8. q < l => n + f >= m + r
  <2>1. q < l => m + d <= n
    BY <1>2, <1>3, NextMultiple
  <2> QED BY <2>1
<1>9. l < q \/ q < l
  BY <1>3
<1> QED BY <1>2, <1>3, <1>6, <1>7, <1>8, <1>9

\* A longer `last` shows no less, also where it is too long for a date and falls
\* back to the epoch, and `since` is wrong about a row in UTC in the second of
\* its cutoff at most (compute_last_cutoff, parse_datetime and the comparison as
\* text).
THEOREM WindowsAreOrderedHolds == Spec => []WindowsAreOrdered
<1>1. TimeTypes => WindowsAreOrdered
  BY LongerWindows, WrongOnlyWithin DEF WindowsAreOrdered
<1> QED BY <1>1, TimeTypesHold, PTL

\* As the clock goes on no row comes back into a window of `last`, whatever is
\* ingested and pruned meanwhile.
THEOREM AgedOutStaysOutHolds == Spec => AgedOutStaysOut
<1>1. TimeTypes /\ TimeTypes' /\ [Next]_vars =>
        [\A amount \in Amounts, unit \in Units :
            Answers(amount, unit) =>
                (stored \ SelectedByLast(amount, unit)) \cap SelectedByLast(amount, unit)' = {}]_vars
  <2> SUFFICES ASSUME TimeTypes, TimeTypes', Next, NEW amount \in Amounts, NEW unit \in Units,
                      Answers(amount, unit),
                      NEW t \in stored, t \notin SelectedByLast(amount, unit), t \in SelectedByLast(amount, unit)'
               PROVE  FALSE
    OBVIOUS
  <2>1. PICK secs \in Nat : secs = Capped(Seconds(amount, unit))
    BY LastCutoff
  <2>2. SelectedByLast(amount, unit) = SelectedFrom(ToRfc3339(Edge(now, secs)))
    BY <2>1, LastCutoff
  <2>3. SelectedByLast(amount, unit)' = SelectedFrom(ToRfc3339(Edge(now, secs)))'
    <3>1. Capped(Capped(amount) * UnitSeconds[unit]) = secs /\ secs <= DeltaMax
      BY <2>1, CappedSeconds, LastCutoff
    <3>2. ~(secs > DeltaMax)
      BY <3>1, TimeAssumption
    <3>3. ComputeLastCutoff(amount, unit)' = Cutoff(Edge(now', secs))
      BY <3>1, <3>2 DEF ComputeLastCutoff, Edge
    <3>4. Cutoff(Edge(now', secs)).result = "cutoff" /\ Cutoff(Edge(now', secs)).at = Edge(now', secs)
      BY DEF Cutoff
    <3>5. SelectedByLast(amount, unit)' = SelectedFrom(ToRfc3339(ComputeLastCutoff(amount, unit).at))'
      BY <3>3, <3>4 DEF SelectedByLast
    <3> QED BY <3>3, <3>4, <3>5 DEF SelectedFrom, ToRfc3339, Edge
  <2>4. t \in Timestamp /\ now \in Nat /\ now' \in Nat
    BY DEF TimeTypes
  <2>5. now <= now'
    <3>1. now' = now \/ now' = now + 1
      BY DEF Next, Tick, Ingest, PruneBefore, PruneOlderThan
    <3> QED BY <2>4, <3>1
  <2>6. TextLess(t, ToRfc3339(Edge(now, secs)))
    BY <2>2 DEF SelectedFrom
  <2>7. TextLess(t, ToRfc3339(Edge(now', secs)))
    <3>1. secs <= secs
      OBVIOUS
    <3> QED BY <2>4, <2>5, <2>6, <3>1, EdgesInOrder
  <2>8. ~TextLess(t, ToRfc3339(Edge(now', secs)))
    BY <2>3 DEF SelectedFrom, ToRfc3339, Edge, TextLess
  <2> QED BY <2>7, <2>8
<1>2. Spec => []TimeTypes
  BY TimeTypesHold
<1> QED BY <1>1, <1>2, PTL DEF Spec, AgedOutStaysOut

\* `prune` deletes what the query of the same time does not show, and no more
\* (resolve_older_than against compute_last_cutoff).
THEOREM PruneKeepsTheWindowHolds == Spec => PruneKeepsTheWindow
<1>1. TimeTypes /\ [Next]_vars =>
        [/\ \A t \in Timestamp : PruneBefore(t) => stored' = SelectedFrom(SinceText(t))
         /\ \A amount \in Amounts, unit \in Units :
               PruneOlderThan(amount, unit) => SelectedByLast(amount, unit) \subseteq stored']_vars
  <2> SUFFICES ASSUME TimeTypes
               PROVE  /\ \A t \in Timestamp : PruneBefore(t) => stored' = SelectedFrom(SinceText(t))
                      /\ \A amount \in Amounts, unit \in Units :
                            PruneOlderThan(amount, unit) => SelectedByLast(amount, unit) \subseteq stored'
    OBVIOUS
  <2>1. \A t \in Timestamp : PruneBefore(t) => stored' = SelectedFrom(SinceText(t))
    BY DEF PruneBefore, SelectedFrom, DeletedBefore
  <2>2. ASSUME NEW amount \in Amounts, NEW unit \in Units, PruneOlderThan(amount, unit)
        PROVE  SelectedByLast(amount, unit) \subseteq stored'
    <3>1. /\ ResolveOlderThan(amount, unit).result = "cutoff"
          /\ stored' = stored \ DeletedBefore(ToRfc3339(ResolveOlderThan(amount, unit).at))
      BY <2>2 DEF PruneOlderThan
    <3>2. PICK s \in Nat : s = Seconds(amount, unit) /\ s = amount * UnitSeconds[unit]
      BY CappedSeconds DEF Seconds
    <3>3. PICK c \in Nat, m \in Nat, n \in Int, d \in Nat :
              c = I64Max /\ m = DeltaMax /\ m <= c /\ n = now - d * s /\ d = Ticks /\ amount \in Nat
      <4>1. I64Max \in Nat /\ DeltaMax \in 0 .. I64Max /\ Ticks \in Nat /\ amount \in Nat /\ now \in Nat
        BY TimeAssumption DEF TimeTypes
      <4>2. now - Ticks * s \in Int
        BY <4>1
      <4> QED BY <4>1, <4>2
    <3>4. TooLarge.result # "cutoff" /\ Panic.result # "cutoff"
      BY DEF TooLarge, Panic
    <3>5. /\ ~(s > c) /\ ~(amount > c) /\ ~(s > m) /\ ~(n < InstantMin)
          /\ ResolveOlderThan(amount, unit) = Cutoff(n)
      <4>1. ~(s > c \/ amount > c)
        BY <3>1, <3>2, <3>3, <3>4 DEF ResolveOlderThan
      <4>2. s <= c /\ amount <= c
        BY <3>3, <4>1
      <4>3. ~(s > m)
        BY <3>1, <3>2, <3>3, <3>4, <4>1, <4>2 DEF ResolveOlderThan
      <4>4. ResolveOlderThan(amount, unit) = IF n < InstantMin THEN TooLarge ELSE Cutoff(n)
        BY <3>2, <3>3, <4>1, <4>2, <4>3 DEF ResolveOlderThan
      <4> QED BY <3>1, <3>4, <4>1, <4>3, <4>4
    <3>6. Capped(s) = s /\ s <= DeltaMax
      BY <3>3, <3>5 DEF Capped
    <3>7. Edge(now, s) = n
      BY <3>3, <3>5 DEF Edge
    <3>8. SelectedByLast(amount, unit) = SelectedFrom(ToRfc3339(n))
      BY <3>2, <3>6, <3>7, LastCutoff
    <3>9. Cutoff(n).at = n
      BY DEF Cutoff
    <3> QED BY <3>1, <3>5, <3>8, <3>9 DEF SelectedFrom, DeletedBefore
  <2> QED BY <2>1, <2>2
<1> QED BY <1>1, TimeTypesHold, PTL DEF Spec, PruneKeepsTheWindow
=============================================================================
