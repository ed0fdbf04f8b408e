----------------------------- MODULE TimeBounds -----------------------------
(***************************************************************************)
(* Time arithmetic and the comparison of timestamps as text: the cutoffs   *)
(* of `last` and `since` (executor.rs) and of `prune` (prune_cmd.rs) over  *)
(* rows whose timestamps their logs have written in several ISO-8601       *)
(* shapes.  A timestamp is [local, rest]: the date and time to the second, *)
(* as a number, and what is written behind them (fraction, offset).        *)
(* Instants are ticks, Ticks to the second, from the Unix epoch on.  Rows  *)
(* are from behind its first second, and years have four digits.  Chrono   *)
(* writes the fractions of a second in the order of their bytes.  The      *)
(* numbers of the machine keep their widths as I64Max and DeltaMax.        *)
(***************************************************************************)
EXTENDS Integers, FiniteSets

CONSTANTS
    Ticks,
    Rests,          \* endings of a timestamp
    Order,          \* place of an ending in the order of bytes
    Fraction,       \* its fraction of a second, in ticks
    Offset,         \* its offset from UTC in seconds, 0 if it names none
    UtcRest, ZuluRest,      \* endings "+00:00" and "Z" with each fraction
    Locals,         \* local times of rows
    Amounts, Units, UnitSeconds,
    I64Max,
    DeltaMax,       \* the most seconds that a chrono::Duration holds
    InstantMin,     \* the earliest DateTime<Utc>
    MaxNow, MaxRows \* bounds on the clock and the number of rows

ASSUME TimeAssumption ==
    /\ Ticks \in Nat \ {0} /\ UtcRest \in [0 .. Ticks - 1 -> Rests]
    /\ Order \in [Rests -> Nat] /\ Fraction \in [Rests -> 0 .. Ticks - 1] /\ Offset \in [Rests -> Int]
    /\ \A f \in 0 .. Ticks - 1 : Fraction[UtcRest[f]] = f /\ Offset[UtcRest[f]] = 0
    /\ \A f, g \in 0 .. Ticks - 1 : f <= g => Order[UtcRest[f]] <= Order[UtcRest[g]]
    /\ Locals \subseteq Nat \ {0} /\ Amounts \subseteq Nat /\ UnitSeconds \in [Units -> Nat]
    /\ I64Max \in Nat /\ DeltaMax \in 0 .. I64Max /\ InstantMin \in Int /\ InstantMin < 0

VARIABLES now, stored

vars == <<now, stored>>

Timestamp == [local : Locals, rest : Rests]

Instant(t) == Ticks * (t.local - Offset[t.rest]) + Fraction[t.rest]

\* SQLite compares column and cutoff byte by byte.
TextLess(t, u) == t.local < u.local \/ (t.local = u.local /\ Order[t.rest] < Order[u.rest])

-----------------------------------------------------------------------------
(* Cutoffs. *)

\* Fault: UTC is written as Z.
ToRfc3339Zulu(i) == [local |-> i \div Ticks, rest |-> ZuluRest[i % Ticks]]

\* chrono writes a DateTime<Utc> with +00:00 and a fraction only if there is one.
ToRfc3339(i) == [local |-> i \div Ticks, rest |-> UtcRest[i % Ticks]]

Cutoff(i) == [result |-> "cutoff", at |-> i]
Panic == [result |-> "panic"]
TooLarge == [result |-> "too large"]

Capped(n) == IF n > I64Max THEN I64Max ELSE n

\* Fault: what is out of range is now.
ComputeLastCutoffNow(amount, unit) ==
    LET secs == Capped(Capped(amount) * UnitSeconds[unit])
    IN  IF secs > DeltaMax THEN Panic
        ELSE Cutoff(IF now - Ticks * secs < InstantMin THEN now ELSE now - Ticks * secs)

\* chrono::Duration::seconds panics beyond DeltaMax.
ComputeLastCutoff(amount, unit) ==
    LET secs == Capped(Capped(amount) * UnitSeconds[unit])
    IN  IF secs > DeltaMax THEN Panic
        ELSE Cutoff(IF now - Ticks * secs < InstantMin THEN 0 ELSE now - Ticks * secs)

ResolveOlderThan(amount, unit) ==
    LET secs == amount * UnitSeconds[unit]
    IN  CASE secs > I64Max \/ amount > I64Max -> TooLarge
          [] secs <= I64Max /\ amount <= I64Max /\ secs > DeltaMax -> Panic
          [] OTHER -> IF now - Ticks * secs < InstantMin THEN TooLarge ELSE Cutoff(now - Ticks * secs)

\* Fault: the offset of the user's datetime is kept.
SinceTextKept(t) == t

\* parse_datetime and resolve_before: without an offset it is UTC.
SinceText(t) == ToRfc3339(Instant(t))

SelectedFrom(text) == {t \in stored : ~TextLess(t, text)}

SelectedByLast(amount, unit) ==
    LET cutoff == ComputeLastCutoff(amount, unit)
    IN  IF cutoff.result = "cutoff" THEN SelectedFrom(ToRfc3339(cutoff.at)) ELSE {}

-----------------------------------------------------------------------------
Init == now \in 0 .. MaxNow /\ stored = {}

Tick == now < MaxNow /\ now' = now + 1 /\ UNCHANGED stored

Ingest(t) ==
    /\ Cardinality(stored) < MaxRows
    /\ stored' = stored \cup {t}
    /\ UNCHANGED now

\* Fault: a row at the cutoff goes too.
DeletedBeforeIncluding(text) == {t \in stored : ~TextLess(text, t)}

DeletedBefore(text) == {t \in stored : TextLess(t, text)}

\* prune --older-than; without a cutoff the command ends.
PruneOlderThan(amount, unit) ==
    LET cutoff == ResolveOlderThan(amount, unit)
    IN  /\ cutoff.result = "cutoff"
        /\ stored' = stored \ DeletedBefore(ToRfc3339(cutoff.at))
        /\ UNCHANGED now

\* prune --before.
PruneBefore(t) ==
    /\ stored' = stored \ DeletedBefore(SinceText(t))
    /\ UNCHANGED now

Next ==
    \/ Tick
    \/ \E t \in Timestamp : Ingest(t) \/ PruneBefore(t)
    \/ \E amount \in Amounts, unit \in Units : PruneOlderThan(amount, unit)

Spec == Init /\ [][Next]_vars

-----------------------------------------------------------------------------
Answers(amount, unit) == ComputeLastCutoff(amount, unit).result = "cutoff"
Seconds(amount, unit) == amount * UnitSeconds[unit]

\* A longer window shows no less: also where `last` is too long for a date and
\* falls back to the epoch, and whatever shape the timestamps have.
LongerShowsMore ==
    \A a, b \in Amounts, u, v \in Units :
        (Answers(a, u) /\ Answers(b, v) /\ Seconds(a, u) <= Seconds(b, v)) =>
            SelectedByLast(a, u) \subseteq SelectedByLast(b, v)

\* A row without an offset, or in UTC, is on the right side of every `since`
\* unless it is in the very second of the cutoff.
WrongOnlyWithinASecond ==
    \A t \in stored, u \in Timestamp :
        LET second == Instant(u) \div Ticks
        IN  (Offset[t.rest] = 0 /\ t.local # second) =>
                (t \in SelectedFrom(SinceText(u)) <=> Instant(t) >= Instant(u))

\* What a window shows is ordered by its length and, but for the second of its
\* cutoff, by time.
WindowsAreOrdered == LongerShowsMore /\ WrongOnlyWithinASecond

\* A row that has left the window of a `last` does not come back into it as
\* the clock goes on ('+' is before '.').
AgedOutStaysOut ==
    [][\A amount \in Amounts, unit \in Units :
          Answers(amount, unit) =>
              (stored \ SelectedByLast(amount, unit)) \cap SelectedByLast(amount, unit)' = {}]_vars

\* `prune --before D` leaves what `since D` shows, and `prune --older-than 30d`
\* takes nothing that `last 30d` shows.
PruneKeepsTheWindow ==
    [][/\ \A t \in Timestamp : PruneBefore(t) => stored' = SelectedFrom(SinceText(t))
       /\ \A amount \in Amounts, unit \in Units :
             PruneOlderThan(amount, unit) => SelectedByLast(amount, unit) \subseteq stored']_vars

\* The test at executor.rs:1322 says that a large `last` saturates and must not
\* panic.
LargeLastSaturates ==
    \A amount \in Amounts, unit \in Units : ComputeLastCutoff(amount, unit) # Panic
=============================================================================
