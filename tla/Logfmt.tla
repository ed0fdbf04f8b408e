------------------------------- MODULE Logfmt -------------------------------
(***************************************************************************)
(* The logfmt scanner (parsers/logfmt.rs): a line becomes pairs of key and *)
(* value, both texts.  A malformed token is skipped up to the next white   *)
(* space; a quoted value that is never closed makes the whole line         *)
(* malformed.  The loops are recursive functions over the position, and an *)
(* Option is a set: empty, or with the one value.                          *)
(***************************************************************************)
EXTENDS Characters

KeyStart == Letter
KeyContinue == Letter \cup Digit \cup {"-", "."}
True == <<"t", "r", "u", "e">>

SkipToWhitespace(s, i) == NextOf(s, i, Space)
AtWordEnd(s, i) == i > Len(s) \/ s[i] \in Space

\* Fault: a backslash escapes the quote only.
ReadQuotedValueOneEscape(s, i) ==
    LET body[j \in i .. Len(s) + 2] ==
            LET with(text, next) == {[v EXCEPT !.text = text \o @] : v \in body[next]}
            IN  CASE j > Len(s) -> {}
                  [] At(s, j, {"\""}) -> {[text |-> <<>>, next |-> j + 1]}
                  [] At(s, j, {"\\"}) /\ At(s, j + 1, {"\""}) -> with(<<"\"">>, j + 2)
                  [] OTHER -> with(<<s[j]>>, j + 1)
    IN  body[i]

\* From behind the opening quote: the value and the place behind the closing
\* one.  Only a quote and a backslash can be escaped; any other backslash stays.
ReadQuotedValue(s, i) ==
    LET body[j \in i .. Len(s) + 2] ==
            LET with(text, next) == {[v EXCEPT !.text = text \o @] : v \in body[next]}
            IN  CASE j > Len(s) -> {}
                  [] At(s, j, {"\""}) -> {[text |-> <<>>, next |-> j + 1]}
                  [] At(s, j, {"\\"}) /\ At(s, j + 1, {"\"", "\\"}) -> with(<<s[j + 1]>>, j + 2)
                  [] At(s, j, {"\\"}) /\ ~At(s, j + 1, {"\"", "\\"}) ->
                        IF j = Len(s) THEN {} ELSE with(<<s[j], s[j + 1]>>, j + 2)
                  [] OTHER -> with(<<s[j]>>, j + 1)
    IN  body[i]

\* The value from i on, behind the "=": none, bare, or quoted and closed.
ValueAt(s, i) ==
    LET end == SkipToWhitespace(s, i)
    IN  IF At(s, i, {"\""}) THEN ReadQuotedValue(s, i + 1)
        ELSE {[text |-> SubSeq(s, i, end - 1), next |-> end]}

\* The token that begins at i: a pair or none, and where the scan goes on.
PairAt(s, i) ==
    LET stop == RunEnd(s, i, KeyContinue)
        flag == AtWordEnd(s, stop)
        values == IF flag THEN {[text |-> True, next |-> stop]} ELSE ValueAt(s, stop + 1)
    IN  IF s[i] \notin KeyStart \/ ~(flag \/ s[stop] = "=")
          THEN {[pairs |-> <<>>, next |-> SkipToWhitespace(s, stop)]}
          ELSE {[pairs |-> <<[key |-> SubSeq(s, i, stop - 1), value |-> v.text]>>, next |-> v.next] : v \in values}

\* Fault: the scan ends at a malformed token.
ParsePairsUpToMalformed(s) ==
    LET scan[i \in 1 .. Len(s) + 1] ==
            CASE i > Len(s) -> {<<>>}
              [] At(s, i, Space) -> scan[i + 1]
              [] OTHER -> UNION {IF t.pairs = <<>> THEN {<<>>} ELSE {t.pairs \o rest : rest \in scan[t.next]} :
                                    t \in PairAt(s, i)}
    IN  scan[1]

ParsePairs(s) ==
    LET scan[i \in 1 .. Len(s) + 1] ==
            CASE i > Len(s) -> {<<>>}
              [] At(s, i, Space) -> scan[i + 1]
              [] OTHER -> UNION {{t.pairs \o rest : rest \in scan[t.next]} : t \in PairAt(s, i)}
    IN  scan[1]
=============================================================================
