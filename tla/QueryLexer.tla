----------------------------- MODULE QueryLexer -----------------------------
(***************************************************************************)
(* The tokenizer of the query language (query.rs).  A token covers the     *)
(* characters from .. next - 1; a quoted string's quotes belong to it.     *)
(* The loop is a recursive function over the position.                     *)
(***************************************************************************)
EXTENDS Characters

Signs == {"=", ">", "<", "(", ")"}

IsIdentContinuation(c) == c \in Digit \cup Letter \cup {".", "-", ":"}

WordEnd(s, i) == Min({j \in i .. Len(s) + 1 : j <= Len(s) => ~IsIdentContinuation(s[j])})

Span(kind, from, next) == [kind |-> kind, from |-> from, next |-> next]
Unexpected(i) == Span("error", i, i)

\* Digits and at most one dot, which has a digit behind it.
NumberEnd(s, i) ==
    LET dot == RunEnd(s, i, Digit)
    IN  IF At(s, dot, {"."}) /\ At(s, dot + 1, Digit) THEN RunEnd(s, dot + 1, Digit) ELSE dot

\* Fault: a dash anywhere in the run makes a word of it.
DigitLedIfAnyDash(s, i) ==
    IF \E j \in i .. WordEnd(s, i) - 1 : s[j] \in {"-", ":"} THEN Span("ident", i, WordEnd(s, i))
    ELSE Span("number", i, NumberEnd(s, i))

\* Fault: a second dot ends the number.
DigitLedTwoDots(s, i) ==
    LET number == NumberEnd(s, i)
    IN  IF At(s, number, {"-", ":"}) THEN Span("ident", i, WordEnd(s, number))
        ELSE Span("number", i, number)

\* A number, or a datetime or version that begins like one.
DigitLed(s, i) ==
    LET number == NumberEnd(s, i)
    IN  IF At(s, number, {"-", ":", "."}) THEN Span("ident", i, WordEnd(s, number))
        ELSE Span("number", i, number)

Quoted(s, i) ==
    LET close == {j \in i + 1 .. Len(s) : s[j] = "\""}
    IN  IF close = {} THEN Unexpected(i) ELSE Span("quoted", i, Min(close) + 1)

TokenAt(s, i) ==
    CASE s[i] = "!" -> IF At(s, i + 1, {"="}) THEN Span("!=", i, i + 2) ELSE Unexpected(i)
      [] s[i] \in Signs -> Span(s[i], i, i + 1)
      [] s[i] = "\"" -> Quoted(s, i)
      [] s[i] \in Digit -> DigitLed(s, i)
      [] s[i] \in Letter -> Span("ident", i, WordEnd(s, i))
      [] OTHER -> Unexpected(i)

\* Fault: the place behind a token is skipped as if it were a space.
TokenizeSkipping(s) ==
    LET lex[i \in 1 .. Len(s) + 2] ==
            CASE i > Len(s) -> <<>>
              [] At(s, i, Space) -> lex[i + 1]
              [] OTHER -> LET t == TokenAt(s, i)
                          IN  <<t>> \o (IF t.kind = "error" THEN <<>> ELSE lex[t.next + 1])
    IN  lex[1]

\* All tokens, the last of which may be the error that ends the scan.
Tokenize(s) ==
    LET lex[i \in 1 .. Len(s) + 1] ==
            CASE i > Len(s) -> <<>>
              [] At(s, i, Space) -> lex[i + 1]
              [] OTHER -> LET t == TokenAt(s, i)
                          IN  <<t>> \o (IF t.kind = "error" THEN <<>> ELSE lex[t.next])
    IN  lex[1]
=============================================================================
