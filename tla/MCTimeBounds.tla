--------------------------- MODULE MCTimeBounds ---------------------------
(***************************************************************************)
(* Seconds of two ticks, an offset of one second on either side of UTC, a  *)
(* clock over four seconds, and machine numbers small enough for durations *)
(* to be too early for a date, too long for a Duration and for an i64.     *)
(***************************************************************************)
EXTENDS TimeBounds, Sequences

\* In the order of their bytes.
MCEndings == <<"", "+00:00", "+01:00", "-01:00", ".5+00:00", ".5Z", "Z">>
MCRests == {MCEndings[i] : i \in DOMAIN MCEndings}
MCOrder == [r \in MCRests |-> CHOOSE i \in DOMAIN MCEndings : MCEndings[i] = r]
MCFraction == [r \in MCRests |-> IF r \in {".5+00:00", ".5Z"} THEN 1 ELSE 0]
MCOffset == [r \in MCRests |-> CASE r = "+01:00" -> 1 [] r = "-01:00" -> -1 [] OTHER -> 0]
MCUtcRest == [f \in 0 .. 1 |-> IF f = 0 THEN "+00:00" ELSE ".5+00:00"]
MCZuluRest == [f \in 0 .. 1 |-> IF f = 0 THEN "Z" ELSE ".5Z"]

MCLocals == 1 .. 4
MCAmounts == {0, 1, 2, 4, 7, 9, 13, 30}
MCUnits == {"m", "h"}
MCUnitSeconds == [u \in MCUnits |-> IF u = "m" THEN 1 ELSE 3]
MCInstantMin == -6
=============================================================================
