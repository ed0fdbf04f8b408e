----------------------------- MODULE TextProofs -----------------------------
(***************************************************************************)
(* What the tokenizer and the logfmt scanner make of a text, for all       *)
(* characters and texts of any length.  Their loops are recursive          *)
(* functions; that there is one, and what holds of it, is proved from the  *)
(* end of the text backwards, by way of the least of a set of numbers.     *)
(***************************************************************************)
EXTENDS QueryLexing, LineTyping, FiniteSetTheorems, SequenceTheorems, WellFoundedInduction, TLAPS

(* Least numbers and induction. *)

LEMMA Smallest ==
    ASSUME NEW T \in SUBSET Nat, T # {}
    PROVE  \E x \in T : \A y \in T : x <= y
<1>1. PICK x \in T : \A y \in T : ~(<<y, x>> \in OpToRel(<, Nat))
  BY NatLessThanWellFounded, WFMin
<1>2. \A y \in T : ~(y < x)
  BY <1>1 DEF OpToRel
<1> QED BY <1>2

LEMMA MinIs ==
    ASSUME NEW T \in SUBSET Nat, T # {}
    PROVE  Min(T) \in T /\ \A y \in T : Min(T) <= y
BY Smallest DEF Min

\* What holds of a place if it holds of all places behind it holds of all places.
LEMMA FromTheEnd ==
    ASSUME NEW n \in Nat, NEW Good,
           \A i \in 1 .. n : (\A j \in i + 1 .. n : j \in Good) => i \in Good
    PROVE  \A i \in 1 .. n : i \in Good
<1> DEFINE T == {k \in 0 .. n - 1 : n - k \notin Good}
<1>1. ASSUME NEW i \in 1 .. n, i \notin Good PROVE FALSE
  <2>1. n - i \in T /\ T \in SUBSET Nat
    <3>1. n - i \in 0 .. n - 1 /\ n - (n - i) = i
      OBVIOUS
    <3> QED BY <1>1, <3>1
  <2>2. PICK k \in T : \A m \in T : k <= m
    BY <2>1, Smallest
  <2>3. ASSUME NEW j \in n - k + 1 .. n PROVE j \in Good
    <3>1. n - j \in 0 .. n - 1 /\ n - j < k /\ n - (n - j) = j
      BY <2>3
    <3> QED BY <2>2, <3>1
  <2>4. n - k \in 1 .. n /\ n - k \notin Good
    BY <2>2
  <2> QED BY <2>3, <2>4
<1> QED BY <1>1

-----------------------------------------------------------------------------
(* Runs of characters. *)

LEMMA RunEndIs ==
    ASSUME NEW S, NEW s \in Seq(S), NEW i \in 1 .. Len(s) + 1, NEW chars
    PROVE  /\ RunEnd(s, i, chars) \in i .. Len(s) + 1
           /\ \A j \in i .. RunEnd(s, i, chars) - 1 : s[j] \in chars
           /\ RunEnd(s, i, chars) <= Len(s) => s[RunEnd(s, i, chars)] \notin chars
<1> DEFINE T == {j \in i .. Len(s) + 1 : ~At(s, j, chars)}
<1>1. PICK n \in Nat : n = Len(s)
  OBVIOUS
<1>2. T \in SUBSET Nat /\ n + 1 \in T
  BY <1>1 DEF At
<1>3. PICK m \in Nat : m = RunEnd(s, i, chars) /\ m \in T /\ \A j \in T : m <= j
  BY <1>2, MinIs DEF RunEnd
<1>4. ASSUME NEW j \in i .. m - 1 PROVE s[j] \in chars
  <2>1. j \in i .. n + 1 /\ ~(m <= j)
    BY <1>1, <1>3
  <2> QED BY <1>1, <1>3, <2>1 DEF At
<1>5. m <= n => s[m] \notin chars
  BY <1>1, <1>3 DEF At
<1> QED BY <1>1, <1>3, <1>4, <1>5

LEMMA WordEndIs ==
    ASSUME NEW S, NEW s \in Seq(S), NEW i \in 1 .. Len(s) + 1
    PROVE  /\ WordEnd(s, i) \in i .. Len(s) + 1
           /\ \A j \in i .. WordEnd(s, i) - 1 : IsIdentContinuation(s[j])
           /\ WordEnd(s, i) <= Len(s) => ~IsIdentContinuation(s[WordEnd(s, i)])
<1> DEFINE T == {j \in i .. Len(s) + 1 : j <= Len(s) => ~IsIdentContinuation(s[j])}
<1>1. PICK n \in Nat : n = Len(s)
  OBVIOUS
<1>2. T \in SUBSET Nat /\ n + 1 \in T
  BY <1>1
<1>3. PICK m \in Nat : m = WordEnd(s, i) /\ m \in T /\ \A j \in T : m <= j
  BY <1>2, MinIs DEF WordEnd
<1>4. ASSUME NEW j \in i .. m - 1 PROVE IsIdentContinuation(s[j])
  <2>1. j \in i .. n + 1 /\ ~(m <= j)
    BY <1>1, <1>3
  <2> QED BY <1>1, <1>3, <2>1
<1>5. m <= n => ~IsIdentContinuation(s[m])
  BY <1>1, <1>3
<1> QED BY <1>1, <1>3, <1>4, <1>5

\* A number ends behind a digit.
LEMMA NumberEndIs ==
    ASSUME NEW S, NEW s \in Seq(S), NEW i \in 1 .. Len(s), s[i] \in Digit
    PROVE  /\ NumberEnd(s, i) \in i + 1 .. Len(s) + 1
           /\ s[NumberEnd(s, i) - 1] \in Digit
<1>1. PICK n \in Nat : n = Len(s)
  OBVIOUS
<1>2. PICK dot \in i .. n + 1 : /\ dot = RunEnd(s, i, Digit)
                                /\ \A j \in i .. dot - 1 : s[j] \in Digit
                                /\ dot <= n => s[dot] \notin Digit
  <2>1. i \in 1 .. Len(s) + 1
    OBVIOUS
  <2> QED BY <1>1, <2>1, RunEndIs
<1>3. dot # i
  BY <1>1, <1>2
<1>4. CASE At(s, dot, {"."}) /\ At(s, dot + 1, Digit)
  <2>1. dot + 1 <= n /\ s[dot + 1] \in Digit /\ NumberEnd(s, i) = RunEnd(s, dot + 1, Digit)
    BY <1>1, <1>2, <1>4 DEF At, NumberEnd
  <2>2. PICK end \in dot + 1 .. n + 1 : /\ end = RunEnd(s, dot + 1, Digit)
                                        /\ \A j \in dot + 1 .. end - 1 : s[j] \in Digit
                                        /\ end <= n => s[end] \notin Digit
    <3>1. dot + 1 \in 1 .. Len(s) + 1
      BY <1>1, <1>2, <2>1
    <3> QED BY <1>1, <3>1, RunEndIs
  <2>3. end # dot + 1
    BY <2>1, <2>2
  <2>4. end \in i + 1 .. n + 1 /\ end - 1 \in dot + 1 .. end - 1
    BY <1>2, <2>2, <2>3
  <2> QED BY <1>1, <2>1, <2>2, <2>4
<1>5. CASE ~(At(s, dot, {"."}) /\ At(s, dot + 1, Digit))
  <2>1. NumberEnd(s, i) = dot
    BY <1>2, <1>5 DEF NumberEnd
  <2>2. dot \in i + 1 .. n + 1 /\ dot - 1 \in i .. dot - 1
    BY <1>2, <1>3
  <2> QED BY <1>1, <1>2, <2>1, <2>2
<1> QED BY <1>4, <1>5

-----------------------------------------------------------------------------
(* Tokens. *)

LEMMA CharsApart ==
    ASSUME NEW c
    PROVE  /\ c \in Digit \cup Letter \cup Space => c \notin Signs /\ c # "!" /\ c # "\"" /\ c \notin {".", "-", ":"}
           /\ c \in Digit => c \notin Letter /\ c \notin Space
           /\ c \in Letter => c \notin Space
           /\ c \in Signs => c # "!" /\ c # "\"" /\ c \notin {".", "-", ":"}
BY CharactersAssumption DEF Signs

LEMMA TokenCases ==
    ASSUME NEW s, NEW i
    PROVE  /\ s[i] = "!" /\ At(s, i + 1, {"="}) => TokenAt(s, i) = Span("!=", i, i + 2)
           /\ s[i] = "!" /\ ~At(s, i + 1, {"="}) => TokenAt(s, i) = Unexpected(i)
           /\ s[i] \in Signs => TokenAt(s, i) = Span(s[i], i, i + 1)
           /\ s[i] = "\"" => TokenAt(s, i) = Quoted(s, i)
           /\ s[i] \in Digit => TokenAt(s, i) = DigitLed(s, i)
           /\ s[i] \in Letter => TokenAt(s, i) = Span("ident", i, WordEnd(s, i))
           /\ s[i] \notin {"!", "\""} \cup Signs \cup Digit \cup Letter => TokenAt(s, i) = Unexpected(i)
<1> DEFINE c == s[i]
<1>1. ASSUME c = "!" PROVE c \notin Signs /\ c # "\"" /\ c \notin Digit /\ c \notin Letter
  BY <1>1, CharsApart DEF Signs
<1>2. ASSUME c \in Signs PROVE c # "!" /\ c # "\"" /\ c \notin Digit /\ c \notin Letter
  BY <1>2, CharsApart
<1>3. ASSUME c = "\"" PROVE c # "!" /\ c \notin Signs /\ c \notin Digit /\ c \notin Letter
  BY <1>3, CharsApart DEF Signs
<1>4. ASSUME c \in Digit PROVE c # "!" /\ c # "\"" /\ c \notin Signs /\ c \notin Letter
  BY <1>4, CharsApart
<1>5. ASSUME c \in Letter PROVE c # "!" /\ c # "\"" /\ c \notin Signs /\ c \notin Digit
  BY <1>5, CharsApart
<1> HIDE DEF c
<1>6. TokenAt(s, i) = CASE c = "!" -> IF At(s, i + 1, {"="}) THEN Span("!=", i, i + 2) ELSE Unexpected(i)
      [] c \in Signs -> Span(c, i, i + 1)
      [] c = "\"" -> Quoted(s, i)
      [] c \in Digit -> DigitLed(s, i)
      [] c \in Letter -> Span("ident", i, WordEnd(s, i))
      [] OTHER -> Unexpected(i)
  BY Zenon DEF TokenAt, c
<1>7. c = "!" /\ At(s, i + 1, {"="}) => TokenAt(s, i) = Span("!=", i, i + 2)
  BY <1>1, <1>6, Zenon
<1>8. c = "!" /\ ~At(s, i + 1, {"="}) => TokenAt(s, i) = Unexpected(i)
  BY <1>1, <1>6, Zenon
<1>9. c \in Signs => TokenAt(s, i) = Span(c, i, i + 1)
  BY <1>2, <1>6, Zenon
<1>10. c = "\"" => TokenAt(s, i) = Quoted(s, i)
  BY <1>3, <1>6, Zenon
<1>11. c \in Digit => TokenAt(s, i) = DigitLed(s, i)
  BY <1>4, <1>6, Zenon
<1>12. c \in Letter => TokenAt(s, i) = Span("ident", i, WordEnd(s, i))
  BY <1>5, <1>6, Zenon
<1>13. c \notin {"!", "\""} \cup Signs \cup Digit \cup Letter => TokenAt(s, i) = Unexpected(i)
  BY <1>6, Zenon
<1> QED BY <1>7, <1>8, <1>9, <1>10, <1>11, <1>12, <1>13 DEF c

\* A token is not empty and within the text, but for an error.
LEMMA TokenAtIs ==
    ASSUME NEW S, NEW s \in Seq(S), NEW i \in 1 .. Len(s)
    PROVE  LET t == TokenAt(s, i)
           IN  /\ t.from = i /\ t.next \in i .. Len(s) + 1
               /\ t.kind # "error" => t.next > i
<1> DEFINE t == TokenAt(s, i)
<1>1. PICK n \in Nat : n = Len(s) /\ i \in 1 .. n
  OBVIOUS
<1>2. ASSUME NEW kind, NEW next PROVE Span(kind, i, next).from = i /\ Span(kind, i, next).next = next /\ Span(kind, i, next).kind = kind
  BY DEF Span
<1>3. CASE t = Unexpected(i)
  BY <1>1, <1>2, <1>3 DEF Unexpected
<1>4. CASE \E kind : \E next \in i + 1 .. n + 1 : t = Span(kind, i, next)
  <2>1. PICK kind : \E next \in i + 1 .. n + 1 : t = Span(kind, i, next)
    BY <1>4
  <2>2. PICK next \in i + 1 .. n + 1 : t = Span(kind, i, next)
    BY <2>1
  <2>3. t.from = i /\ t.next = next
    BY <1>2, <2>2
  <2> QED BY <1>1, <2>3
<1>5. CASE s[i] = "!" /\ At(s, i + 1, {"="})
  <2>1. i + 2 \in i + 1 .. n + 1
    BY <1>1, <1>5 DEF At
  <2>2. t = Span("!=", i, i + 2)
    BY <1>5, TokenCases
  <2> QED BY <1>4, <2>1, <2>2
<1>6. CASE s[i] = "!" /\ ~At(s, i + 1, {"="})
  BY <1>3, <1>6, TokenCases
<1>7. CASE s[i] \in Signs
  <2>1. i + 1 \in i + 1 .. n + 1
    BY <1>1
  <2>2. t = Span(s[i], i, i + 1)
    BY <1>7, TokenCases
  <2> QED BY <1>4, <2>1, <2>2
<1>8. CASE s[i] = "\""
  <2>1. t = Quoted(s, i)
    BY <1>8, TokenCases
  <2> DEFINE close == {j \in i + 1 .. Len(s) : s[j] = "\""}
  <2>2. CASE close = {}
    BY <1>3, <2>1, <2>2 DEF Quoted
  <2>3. CASE close # {}
    <3>1. \A j \in close : j \in i + 1 .. n
      BY <1>1
    <3>2. t = Span("quoted", i, Min(close) + 1)
      BY <2>1, <2>3 DEF Quoted
    <3> HIDE DEF close
    <3>3. close \in SUBSET Nat
      BY <1>1, <3>1
    <3>4. PICK m \in i + 1 .. n : m = Min(close)
      BY <2>3, <3>1, <3>3, MinIs
    <3>5. m + 1 \in i + 1 .. n + 1 /\ t = Span("quoted", i, m + 1)
      BY <1>1, <3>2, <3>4
    <3> QED BY <1>4, <3>5
  <2> QED BY <2>2, <2>3
<1>9. CASE s[i] \in Digit
  <2>1. t = DigitLed(s, i)
    BY <1>9, TokenCases
  <2>2. NumberEnd(s, i) \in i + 1 .. n + 1
    BY <1>1, <1>9, NumberEndIs
  <2>3. CASE At(s, NumberEnd(s, i), {"-", ":", "."})
    <3>1. NumberEnd(s, i) \in 1 .. Len(s) + 1
      BY <1>1, <2>2
    <3>2. WordEnd(s, NumberEnd(s, i)) \in NumberEnd(s, i) .. n + 1
      BY <1>1, <3>1, WordEndIs
    <3>3. WordEnd(s, NumberEnd(s, i)) \in i + 1 .. n + 1
      BY <1>1, <2>2, <3>2
    <3> QED BY <1>4, <2>1, <2>3, <3>3 DEF DigitLed
  <2>4. CASE ~At(s, NumberEnd(s, i), {"-", ":", "."})
    BY <1>4, <2>1, <2>2, <2>4 DEF DigitLed
  <2> QED BY <2>3, <2>4
<1>10. CASE s[i] \in Letter
  <2>1. t = Span("ident", i, WordEnd(s, i))
    BY <1>10, TokenCases
  <2>2. i \in 1 .. Len(s) + 1 /\ IsIdentContinuation(s[i])
    BY <1>1, <1>10 DEF IsIdentContinuation
  <2>3. WordEnd(s, i) \in i .. n + 1 /\ (WordEnd(s, i) <= n => ~IsIdentContinuation(s[WordEnd(s, i)]))
    BY <1>1, <2>2, WordEndIs
  <2>4. WordEnd(s, i) \in i + 1 .. n + 1
    BY <1>1, <2>2, <2>3
  <2> QED BY <1>4, <2>1, <2>4
<1>11. CASE s[i] \notin {"!", "\""} \cup Signs \cup Digit \cup Letter
  BY <1>3, <1>11, TokenCases
<1> QED BY <1>5, <1>6, <1>7, <1>8, <1>9, <1>10, <1>11

LexFrom(s, lex, i) ==
    CASE i > Len(s) -> <<>>
      [] At(s, i, Space) -> lex[i + 1]
      [] OTHER -> LET t == TokenAt(s, i)
                  IN  <<t>> \o (IF t.kind = "error" THEN <<>> ELSE lex[t.next])
IsLex(s, lex) == lex = [i \in 1 .. Len(s) + 1 |-> LexFrom(s, lex, i)]

LEMMA LexCases ==
    ASSUME NEW S, NEW s \in Seq(S), NEW lex, NEW i \in 1 .. Len(s) + 1
    PROVE  /\ i > Len(s) => LexFrom(s, lex, i) = <<>>
           /\ i <= Len(s) /\ s[i] \in Space => LexFrom(s, lex, i) = lex[i + 1]
           /\ i <= Len(s) /\ s[i] \notin Space /\ TokenAt(s, i).kind = "error" =>
                LexFrom(s, lex, i) = <<TokenAt(s, i)>>
           /\ i <= Len(s) /\ s[i] \notin Space /\ TokenAt(s, i).kind # "error" =>
                LexFrom(s, lex, i) = <<TokenAt(s, i)>> \o lex[TokenAt(s, i).next]
<1> DEFINE n == Len(s)
           t == TokenAt(s, i)
           rest == IF t.kind = "error" THEN <<>> ELSE lex[t.next]
           spaced == At(s, i, Space)
           beyond == i > n
<1>1. n \in Nat /\ i \in Nat
  OBVIOUS
<1>2. spaced <=> i <= n /\ s[i] \in Space
  BY DEF At
<1>3. (beyond => ~spaced) /\ (i <= n <=> ~beyond)
  BY <1>1, <1>2
<1>4. LexFrom(s, lex, i) = CASE beyond -> <<>> [] spaced -> lex[i + 1] [] OTHER -> <<t>> \o rest
  BY Zenon DEF LexFrom
<1> HIDE DEF n, t, rest, spaced, beyond
<1>5. beyond => LexFrom(s, lex, i) = <<>>
  BY <1>3, <1>4, Zenon
<1>6. spaced => LexFrom(s, lex, i) = lex[i + 1]
  BY <1>3, <1>4, Zenon
<1>7. ~beyond /\ ~spaced => LexFrom(s, lex, i) = <<t>> \o rest
  BY <1>4, Zenon
<1>8. /\ t.kind = "error" => <<t>> \o rest = <<t>>
      /\ t.kind # "error" => rest = lex[t.next]
  <2>1. <<t>> \o <<>> = <<t>>
    OBVIOUS
  <2> QED BY <2>1 DEF rest
<1> QED BY <1>2, <1>3, <1>5, <1>6, <1>7, <1>8 DEF n, t, beyond

\* It looks at places further behind only.
LEMMA LexAgrees ==
    ASSUME NEW S, NEW s \in Seq(S), NEW g, NEW h, NEW i \in 1 .. Len(s) + 1,
           \A j \in i + 1 .. Len(s) + 1 : g[j] = h[j]
    PROVE  LexFrom(s, g, i) = LexFrom(s, h, i)
<1>1. PICK n \in Nat : n = Len(s) /\ i \in 1 .. n + 1
  OBVIOUS
<1>2. CASE i > n
  BY <1>1, <1>2, LexCases
<1>3. CASE i <= n /\ s[i] \in Space
  <2>1. i + 1 \in i + 1 .. n + 1
    BY <1>1, <1>3
  <2>2. g[i + 1] = h[i + 1]
    BY <1>1, <2>1
  <2>3. LexFrom(s, g, i) = g[i + 1] /\ LexFrom(s, h, i) = h[i + 1]
    BY <1>1, <1>3, LexCases
  <2> QED BY <2>2, <2>3
<1>4. CASE i <= n /\ s[i] \notin Space /\ TokenAt(s, i).kind = "error"
  <2>1. LexFrom(s, g, i) = <<TokenAt(s, i)>> /\ LexFrom(s, h, i) = <<TokenAt(s, i)>>
    BY <1>1, <1>4, LexCases
  <2> QED BY <2>1
<1>5. CASE i <= n /\ s[i] \notin Space /\ TokenAt(s, i).kind # "error"
  <2>1. i \in 1 .. Len(s)
    BY <1>1, <1>5
  <2>2. TokenAt(s, i).next \in i .. n + 1 /\ TokenAt(s, i).next > i
    BY <1>1, <1>5, <2>1, TokenAtIs
  <2>3. TokenAt(s, i).next \in i + 1 .. n + 1
    BY <1>1, <2>2
  <2>4. g[TokenAt(s, i).next] = h[TokenAt(s, i).next]
    BY <1>1, <2>3
  <2>5. /\ LexFrom(s, g, i) = <<TokenAt(s, i)>> \o g[TokenAt(s, i).next]
        /\ LexFrom(s, h, i) = <<TokenAt(s, i)>> \o h[TokenAt(s, i).next]
    BY <1>1, <1>5, LexCases
  <2> QED BY <2>4, <2>5
<1> QED BY <1>1, <1>2, <1>3, <1>4, <1>5

\* The recursion is one: it looks at places further behind only.
LEMMA LexExists ==
    ASSUME NEW S, NEW s \in Seq(S)
    PROVE  \E lex : IsLex(s, lex)
<1>1. PICK n \in Nat : n = Len(s)
  OBVIOUS
<1> DEFINE Solves(g, i) == \A j \in i .. n + 1 : g[j] = LexFrom(s, g, j)
           Good == {i \in 1 .. n + 1 : \E g : Solves(g, i)}
<1>2. ASSUME NEW i \in 1 .. n + 1, \A j \in i + 1 .. n + 1 : j \in Good
      PROVE  i \in Good
  <2>1. PICK g : \A j \in i + 1 .. n + 1 : g[j] = LexFrom(s, g, j)
    <3>1. CASE i = n + 1
      BY <3>1
    <3>2. CASE i # n + 1
      <4>1. i + 1 \in i + 1 .. n + 1
        BY <3>2
      <4> QED BY <1>2, <4>1
    <3> QED BY <3>1, <3>2
  <2> DEFINE h == [j \in i .. n + 1 |-> IF j = i THEN LexFrom(s, g, i) ELSE g[j]]
  <2>2. \A j \in i + 1 .. n + 1 : h[j] = g[j]
    OBVIOUS
  <2>3. ASSUME NEW j \in i .. n + 1 PROVE LexFrom(s, h, j) = LexFrom(s, g, j)
    <3> HIDE DEF h
    <3>1. j \in 1 .. Len(s) + 1 /\ \A k \in j + 1 .. Len(s) + 1 : h[k] = g[k]
      BY <1>1, <2>2
    <3> QED BY <3>1, LexAgrees
  <2>4. \A j \in i .. n + 1 : h[j] = IF j = i THEN LexFrom(s, g, i) ELSE g[j]
    OBVIOUS
  <2> HIDE DEF h
  <2>5. ASSUME NEW j \in i .. n + 1 PROVE h[j] = LexFrom(s, h, j)
    <3>1. j = i \/ j \in i + 1 .. n + 1
      OBVIOUS
    <3> QED BY <2>1, <2>3, <2>4, <3>1
  <2> QED BY <2>5
<1>3. 1 \in Good
  <2> HIDE DEF Good
  <2>1. n + 1 \in Nat /\ 1 \in 1 .. n + 1
    OBVIOUS
  <2> QED BY <1>2, <2>1, FromTheEnd
<1>4. PICK g : \A j \in 1 .. n + 1 : g[j] = LexFrom(s, g, j)
  BY <1>3
<1> DEFINE f == [j \in 1 .. n + 1 |-> g[j]]
<1>5. ASSUME NEW j \in 1 .. n + 1 PROVE LexFrom(s, f, j) = LexFrom(s, g, j)
  <2>1. \A k \in 1 .. n + 1 : f[k] = g[k]
    OBVIOUS
  <2> HIDE DEF f
  <2>2. j \in 1 .. Len(s) + 1 /\ \A k \in j + 1 .. Len(s) + 1 : f[k] = g[k]
    BY <1>1, <2>1
  <2> QED BY <2>2, LexAgrees
<1>6. f = [j \in 1 .. n + 1 |-> LexFrom(s, f, j)]
  <2>1. \A j \in 1 .. n + 1 : g[j] = LexFrom(s, f, j)
    <3> HIDE DEF f
    <3> QED BY <1>4, <1>5
  <2> HIDE DEF f
  <2>2. f = [j \in 1 .. n + 1 |-> g[j]]
    BY DEF f
  <2> QED BY <2>1, <2>2
<1> HIDE DEF f
<1> QED BY <1>1, <1>6 DEF IsLex

LEMMA TokenizeIs ==
    ASSUME NEW S, NEW s \in Seq(S)
    PROVE  \E lex : /\ IsLex(s, lex)
                    /\ Tokenize(s) = lex[1]
<1>1. \E lex : IsLex(s, lex)
  BY LexExists
<1> QED BY <1>1 DEF Tokenize, IsLex, LexFrom

-----------------------------------------------------------------------------
(* The tokens of a text. *)

FoundIn(s) == {TokenAt(s, i) : i \in 1 .. Len(s)}
Covered(ts, j) == \E k \in DOMAIN ts : ts[k].from <= j /\ j < ts[k].next
Refused(ts, j) == ts # <<>> /\ Last(ts).kind = "error" /\ Last(ts).from <= j

\* ts are the tokens from place i on.
Lexed(s, i, ts) ==
    /\ ts \in Seq(FoundIn(s))
    /\ \A k \in DOMAIN ts : ts[k].from >= i /\ s[ts[k].from] \notin Space
    /\ \A k, m \in DOMAIN ts : k < m => ts[k].next <= ts[m].from
    /\ \A k \in DOMAIN ts : ts[k].kind = "error" => k = Len(ts)
    /\ \A j \in i .. Len(s) : Covered(ts, j) \/ s[j] \in Space \/ Refused(ts, j)

LEMMA FoundIs ==
    ASSUME NEW S, NEW s \in Seq(S), NEW t \in FoundIn(s)
    PROVE  /\ t.from \in 1 .. Len(s) /\ t = TokenAt(s, t.from)
           /\ t.next \in t.from .. Len(s) + 1 /\ (t.kind # "error" => t.next > t.from)
<1>1. PICK i \in 1 .. Len(s) : t = TokenAt(s, i)
  BY DEF FoundIn
<1> QED BY <1>1, TokenAtIs

LEMMA Prepended ==
    ASSUME NEW S, NEW t \in S, NEW rest \in Seq(S)
    PROVE  /\ <<t>> \o rest \in Seq(S) /\ Len(<<t>> \o rest) = Len(rest) + 1
           /\ DOMAIN (<<t>> \o rest) = 1 .. Len(rest) + 1 /\ (<<t>> \o rest)[1] = t
           /\ \A k \in 1 .. Len(rest) : (<<t>> \o rest)[k + 1] = rest[k]
           /\ \A k \in 2 .. Len(rest) + 1 : k - 1 \in 1 .. Len(rest) /\ (<<t>> \o rest)[k] = rest[k - 1]
<1>1. <<t>> \in Seq(S) /\ Len(<<t>>) = 1 /\ <<t>>[1] = t
  OBVIOUS
<1>2. <<t>> \o rest \in Seq(S) /\ Len(<<t>> \o rest) = Len(rest) + 1 /\ DOMAIN (<<t>> \o rest) = 1 .. Len(rest) + 1
  BY <1>1
<1>3. (<<t>> \o rest)[1] = t
  BY <1>1
<1>4. \A k \in 2 .. Len(rest) + 1 : k - 1 \in 1 .. Len(rest) /\ (<<t>> \o rest)[k] = rest[k - 1]
  BY <1>1
<1>5. \A k \in 1 .. Len(rest) : (<<t>> \o rest)[k + 1] = rest[k]
  BY <1>1
<1> QED BY <1>2, <1>3, <1>4, <1>5

LEMMA LexedPrepend ==
    ASSUME NEW S, NEW s \in Seq(S), NEW i \in 1 .. Len(s), s[i] \notin Space,
           NEW t, t = TokenAt(s, i), t.kind # "error",
           NEW rest, Lexed(s, t.next, rest)
    PROVE  Lexed(s, i, <<t>> \o rest)
<1> DEFINE ts == <<t>> \o rest
<1>1. t \in FoundIn(s) /\ rest \in Seq(FoundIn(s)) /\ t.from = i /\ t.next \in i + 1 .. Len(s) + 1
  <2>1. t.from = i /\ t.next \in i .. Len(s) + 1 /\ t.next > i
    BY TokenAtIs
  <2> QED BY <2>1 DEF FoundIn, Lexed
<1>2. PICK l \in Nat, n \in Nat, q \in Nat : l = Len(rest) /\ n = Len(s) /\ q = t.next /\ q \in i + 1 .. n + 1
  BY <1>1
<1>3. /\ ts \in Seq(FoundIn(s)) /\ Len(ts) = l + 1 /\ DOMAIN ts = 1 .. l + 1 /\ ts[1] = t
      /\ \A k \in 1 .. l : ts[k + 1] = rest[k]
      /\ \A k \in 2 .. l + 1 : k - 1 \in 1 .. l /\ ts[k] = rest[k - 1]
      /\ DOMAIN rest = 1 .. l
  BY <1>1, <1>2, Prepended
<1> HIDE DEF ts
<1>4. \A k \in 1 .. l + 1 : k = 1 \/ k \in 2 .. l + 1
  OBVIOUS
<1>5. \A k \in 1 .. l : rest[k].from \in Nat /\ rest[k].from >= q /\ s[rest[k].from] \notin Space
  <2> SUFFICES ASSUME NEW k \in 1 .. l PROVE rest[k].from \in Nat /\ rest[k].from >= q /\ s[rest[k].from] \notin Space
    OBVIOUS
  <2>1. rest[k] \in FoundIn(s)
    BY <1>1, <1>2
  <2>2. rest[k].from \in Nat
    BY <2>1, FoundIs
  <2> QED BY <1>2, <1>3, <2>2 DEF Lexed
<1>6. ASSUME NEW k \in DOMAIN ts PROVE ts[k].from >= i /\ s[ts[k].from] \notin Space
  <2>1. CASE k = 1
    BY <1>1, <1>3, <2>1
  <2>2. CASE k \in 2 .. l + 1
    <3>1. ts[k] = rest[k - 1] /\ rest[k - 1].from \in Nat /\ rest[k - 1].from >= q
      BY <1>3, <1>5, <2>2
    <3>2. rest[k - 1].from >= i
      BY <1>2, <3>1
    <3> QED BY <1>3, <1>5, <2>2, <3>1, <3>2
  <2> QED BY <1>3, <1>4, <2>1, <2>2
<1>7. ASSUME NEW k \in DOMAIN ts, NEW m \in DOMAIN ts, k < m PROVE ts[k].next <= ts[m].from
  <2>1. m \in 2 .. l + 1
    BY <1>3, <1>7
  <2>2. CASE k = 1
    BY <1>2, <1>3, <1>5, <2>1, <2>2
  <2>3. CASE k \in 2 .. l + 1
    <3>1. k - 1 < m - 1 /\ k - 1 \in 1 .. l /\ m - 1 \in 1 .. l
      BY <1>7, <2>1, <2>3
    <3>2. k - 1 \in DOMAIN rest /\ m - 1 \in DOMAIN rest
      BY <1>3, <3>1
    <3>3. rest[k - 1].next <= rest[m - 1].from
      BY <3>1, <3>2 DEF Lexed
    <3>4. ts[k] = rest[k - 1] /\ ts[m] = rest[m - 1]
      BY <1>3, <2>1, <2>3
    <3> QED BY <3>3, <3>4
  <2> QED BY <1>3, <1>4, <2>2, <2>3
<1>8. ASSUME NEW k \in DOMAIN ts, ts[k].kind = "error" PROVE k = Len(ts)
  <2>1. k \in 2 .. l + 1
    BY <1>3, <1>4, <1>8
  <2>2. k - 1 = l
    BY <1>2, <1>3, <1>8, <2>1 DEF Lexed
  <2> QED BY <1>3, <2>1, <2>2
<1>9. ASSUME NEW j \in i .. Len(s) PROVE Covered(ts, j) \/ s[j] \in Space \/ Refused(ts, j)
  <2>1. CASE j < q
    <3>1. 1 \in DOMAIN ts /\ ts[1].from <= j /\ j < ts[1].next
      BY <1>1, <1>2, <1>3, <1>9, <2>1
    <3> QED BY <3>1 DEF Covered
  <2>2. CASE j >= q
    <3>1. j \in q .. n
      BY <1>2, <1>9, <2>2
    <3>2. Covered(rest, j) \/ s[j] \in Space \/ Refused(rest, j)
      BY <1>2, <3>1 DEF Lexed
    <3>3. Covered(rest, j) => Covered(ts, j)
      <4>1. SUFFICES ASSUME NEW k \in 1 .. l, rest[k].from <= j, j < rest[k].next PROVE Covered(ts, j)
        BY <1>3 DEF Covered
      <4>2. k + 1 \in DOMAIN ts /\ ts[k + 1] = rest[k]
        BY <1>3
      <4> QED BY <4>1, <4>2 DEF Covered
    <3>4. Refused(rest, j) => Refused(ts, j)
      <4>1. SUFFICES ASSUME Refused(rest, j) PROVE Refused(ts, j)
        OBVIOUS
      <4>2. l \in 1 .. l /\ ts # <<>>
        <5>1. l # 0
          BY <1>1, <1>2, <4>1 DEF Refused
        <5>2. Len(ts) # 0
          BY <1>3
        <5> QED BY <5>1, <5>2
      <4>3. Last(ts) = Last(rest)
        BY <1>2, <1>3, <4>2 DEF Last
      <4> QED BY <4>1, <4>2, <4>3 DEF Refused
    <3> QED BY <3>2, <3>3, <3>4
  <2> QED BY <1>2, <1>9, <2>1, <2>2
<1> QED BY <1>3, <1>6, <1>7, <1>8, <1>9 DEF Lexed, ts

\* From every place on, the recursion finds the tokens that are there.
LEMMA LexIsLexed ==
    ASSUME NEW S, NEW s \in Seq(S), NEW lex, IsLex(s, lex)
    PROVE  \A i \in 1 .. Len(s) + 1 : Lexed(s, i, lex[i])
<1>1. PICK n \in Nat : n = Len(s)
  OBVIOUS
<1>3. \A i \in 1 .. n + 1 : lex[i] = LexFrom(s, lex, i)
  BY <1>1 DEF IsLex
<1> DEFINE Good == {i \in 1 .. n + 1 : Lexed(s, i, lex[i])}
<1>4. ASSUME NEW i \in 1 .. n + 1, \A j \in i + 1 .. n + 1 : j \in Good PROVE i \in Good
  <2>1. i \in 1 .. Len(s) + 1 /\ lex[i] = LexFrom(s, lex, i)
    BY <1>1, <1>3
  <2>2. CASE i > n
    <3>1. lex[i] = <<>>
      BY <1>1, <2>1, <2>2, LexCases
    <3>2. Lexed(s, i, <<>>)
      <4>1. <<>> \in Seq(FoundIn(s)) /\ DOMAIN <<>> = {} /\ i .. Len(s) = {}
        BY <1>1, <2>2
      <4> QED BY <4>1 DEF Lexed
    <3> QED BY <3>1, <3>2
  <2>3. CASE i <= n /\ s[i] \in Space
    <3>1. lex[i] = lex[i + 1]
      BY <1>1, <2>1, <2>3, LexCases
    <3>2. i + 1 \in i + 1 .. n + 1
      BY <2>3
    <3>3. Lexed(s, i + 1, lex[i])
      BY <1>4, <3>1, <3>2
    <3> DEFINE ts == lex[i]
    <3> HIDE DEF ts
    <3>4. Lexed(s, i + 1, ts)
      BY <3>3 DEF ts
    <3>5. \A k \in DOMAIN ts : ts[k].from >= i
      <4> SUFFICES ASSUME NEW k \in DOMAIN ts PROVE ts[k].from >= i
        OBVIOUS
      <4>1. ts[k] \in FoundIn(s) /\ ts[k].from >= i + 1
        BY <3>4 DEF Lexed
      <4>2. ts[k].from \in Nat
        BY <4>1, FoundIs
      <4> QED BY <4>1, <4>2
    <3>6. \A j \in i .. Len(s) : j = i \/ j \in i + 1 .. Len(s)
      OBVIOUS
    <3>7. Lexed(s, i, ts)
      BY <2>3, <3>4, <3>5, <3>6 DEF Lexed
    <3> QED BY <3>7 DEF ts
  <2>4. CASE i <= n /\ s[i] \notin Space
    <3> DEFINE t == TokenAt(s, i)
    <3> HIDE DEF t
    <3>1. i \in 1 .. Len(s) /\ t = TokenAt(s, i)
      BY <1>1, <2>4 DEF t
    <3>2. t.from = i /\ t.next \in i .. n + 1 /\ (t.kind # "error" => t.next > i) /\ t \in FoundIn(s)
      BY <1>1, <3>1, TokenAtIs DEF FoundIn
    <3>3. CASE t.kind # "error"
      <4>1. t.next \in i + 1 .. n + 1
        BY <3>2, <3>3
      <4>2. lex[i] = <<t>> \o lex[t.next] /\ Lexed(s, t.next, lex[t.next])
        BY <1>1, <1>4, <2>1, <2>4, <3>1, <3>3, <4>1, LexCases
      <4> QED BY <2>4, <3>1, <3>3, <4>2, LexedPrepend
    <3>4. CASE t.kind = "error"
      <4>1. lex[i] = <<t>>
        BY <1>1, <2>1, <2>4, <3>1, <3>4, LexCases
      <4>2. <<t>> \in Seq(FoundIn(s)) /\ DOMAIN <<t>> = {1} /\ <<t>>[1] = t /\ Len(<<t>>) = 1 /\ <<t>> # <<>>
        BY <3>2
      <4>3. \A j \in i .. Len(s) : Refused(<<t>>, j)
        BY <3>2, <3>4, <4>2 DEF Refused, Last
      <4>4. Lexed(s, i, <<t>>)
        BY <2>4, <3>2, <4>2, <4>3 DEF Lexed
      <4> QED BY <4>1, <4>4
    <3> QED BY <3>3, <3>4
  <2> QED BY <2>2, <2>3, <2>4
<1>5. \A i \in 1 .. n + 1 : i \in Good
  <2> HIDE DEF Good
  <2>1. n + 1 \in Nat
    OBVIOUS
  <2> QED BY <1>4, <2>1, FromTheEnd
<1> QED BY <1>1, <1>5

\* What Tokenize returns are the tokens of the whole text.
LEMMA TokensLexed ==
    ASSUME NEW S, NEW s \in Seq(S)
    PROVE  Lexed(s, 1, Tokenize(s))
<1>1. PICK lex : IsLex(s, lex) /\ Tokenize(s) = lex[1]
  BY TokenizeIs
<1>2. 1 \in 1 .. Len(s) + 1
  OBVIOUS
<1> QED BY <1>1, <1>2, LexIsLexed

\* A token that is not the last one ends in front of what it cannot go on with.
LEMMA TokenStops ==
    ASSUME NEW S, NEW s \in Seq(S), NEW i \in 1 .. Len(s), NEW t, t = TokenAt(s, i),
           t.kind # "error", t.next <= Len(s), IsIdentContinuation(s[t.next - 1])
    PROVE  s[t.next] \notin {".", "-", ":"}
<1>1. PICK n \in Nat : n = Len(s) /\ i \in 1 .. n
  OBVIOUS
<1>2. ASSUME NEW kind, NEW next PROVE Span(kind, i, next).next = next /\ Span(kind, i, next).kind = kind
  BY DEF Span
<1>3. t # Unexpected(i)
  BY DEF Unexpected, Span
<1>4. \A c : IsIdentContinuation(c) => c \notin Signs /\ c # "!" /\ c # "\"" /\ c # "="
  BY CharsApart DEF IsIdentContinuation, Signs
<1>5. CASE s[i] = "!" /\ At(s, i + 1, {"="})
  <2>1. t = Span("!=", i, i + 2)
    BY <1>5, TokenCases
  <2>2. t.next = i + 2 /\ (i + 2) - 1 = i + 1
    BY <1>1, <1>2, <2>1
  <2>3. s[i + 1] = "="
    BY <1>5 DEF At
  <2> QED BY <1>4, <2>2, <2>3
<1>6. CASE s[i] = "!" /\ ~At(s, i + 1, {"="})
  BY <1>3, <1>6, TokenCases
<1>7. CASE s[i] \in Signs
  <2>1. t = Span(s[i], i, i + 1)
    BY <1>7, TokenCases
  <2>2. t.next = i + 1 /\ (i + 1) - 1 = i
    BY <1>1, <1>2, <2>1
  <2> QED BY <1>4, <1>7, <2>2
<1>8. CASE s[i] = "\""
  <2>1. t = Quoted(s, i)
    BY <1>8, TokenCases
  <2> DEFINE close == {j \in i + 1 .. Len(s) : s[j] = "\""}
  <2>2. close # {} /\ t = Span("quoted", i, Min(close) + 1)
    BY <1>3, <2>1 DEF Quoted
  <2>3. \A j \in close : j \in i + 1 .. n
    BY <1>1
  <2>4. \A j \in close : s[j] = "\""
    OBVIOUS
  <2> HIDE DEF close
  <2>5. close \in SUBSET Nat
    BY <1>1, <2>3
  <2>6. PICK m \in i + 1 .. n : m = Min(close) /\ m \in close
    BY <2>2, <2>3, <2>5, MinIs
  <2>7. t = Span("quoted", i, m + 1)
    BY <2>2, <2>6
  <2>8. t.next = m + 1
    BY <1>2, <2>7
  <2>9. s[m] = "\""
    BY <2>4, <2>6
  <2>10. (m + 1) - 1 = m
    OBVIOUS
  <2> QED BY <1>4, <2>8, <2>9, <2>10
<1>9. CASE s[i] \in Digit
  <2>1. t = DigitLed(s, i)
    BY <1>9, TokenCases
  <2>2. PICK number \in i + 1 .. n + 1 : number = NumberEnd(s, i)
    BY <1>1, <1>9, NumberEndIs
  <2>3. CASE At(s, number, {"-", ":", "."})
    <3>1. t.next = WordEnd(s, number)
      BY <1>2, <2>1, <2>2, <2>3 DEF DigitLed
    <3>2. number \in 1 .. Len(s) + 1
      BY <1>1, <2>2
    <3>3. ~IsIdentContinuation(s[t.next])
      BY <3>1, <3>2, WordEndIs
    <3> QED BY <3>3 DEF IsIdentContinuation
  <2>4. CASE ~At(s, number, {"-", ":", "."})
    <3>1. t.next = number
      BY <1>2, <2>1, <2>2, <2>4 DEF DigitLed
    <3> QED BY <2>4, <3>1 DEF At
  <2> QED BY <2>3, <2>4
<1>10. CASE s[i] \in Letter
  <2>4. t = Span("ident", i, WordEnd(s, i))
    BY <1>10, TokenCases
  <2>1. t.next = WordEnd(s, i)
    BY <1>2, <2>4
  <2>2. i \in 1 .. Len(s) + 1
    BY <1>1
  <2>3. ~IsIdentContinuation(s[t.next])
    BY <2>1, <2>2, WordEndIs
  <2> QED BY <2>3 DEF IsIdentContinuation
<1>11. CASE s[i] \notin {"!", "\""} \cup Signs \cup Digit \cup Letter
  BY <1>3, <1>11, TokenCases
<1> QED BY <1>5, <1>6, <1>7, <1>8, <1>9, <1>10, <1>11

-----------------------------------------------------------------------------
(* The theorem. *)

Typed == session \in DOMAIN Sessions /\ input \in Seq(Sessions[session].alphabet)

LEMMA InputTyped == Spec => []Typed
<1>1. Init => Typed
  BY DEF Init, Typed
<1>2. Typed /\ [Next]_vars => Typed'
  <2> SUFFICES ASSUME Typed, [Next]_vars PROVE Typed'
    OBVIOUS
  <2>1. CASE Next
    <3>1. PICK c \in Sessions[session].alphabet : input' = Append(input, c) /\ session' = session
      BY <2>1 DEF Next
    <3>2. input \in Seq(Sessions[session].alphabet)
      BY DEF Typed
    <3>3. input' \in Seq(Sessions[session].alphabet)
      BY <3>1, <3>2
    <3> QED BY <3>1, <3>3 DEF Typed
  <2>2. CASE UNCHANGED vars
    BY <2>2 DEF vars, Typed
  <2> QED BY <2>1, <2>2
<1> QED BY <1>1, <1>2, PTL DEF Spec

LEMMA Covers ==
    ASSUME Typed
    PROVE  TokensCoverInput
<1> DEFINE tokens == Tokenize(input)
           covered == UNION {tokens[i].from .. tokens[i].next - 1 : i \in DOMAIN tokens}
           end == IF Accepted(tokens) THEN Len(input) ELSE Last(tokens).from - 1
<1>1. PICK S : input \in Seq(S)
  BY DEF Typed
<1>2. Lexed(input, 1, tokens)
  BY <1>1, TokensLexed
<1>3. \A i, j \in DOMAIN tokens : i < j => tokens[i].next <= tokens[j].from
  BY <1>2 DEF Lexed
<1>4. ASSUME NEW i \in 1 .. end, i \notin covered PROVE input[i] \in Space
  <2>1. PICK n \in Nat : n = Len(input)
    BY <1>1
  <2> HIDE DEF tokens
  <2>2. \A k \in DOMAIN tokens : tokens[k] \in FoundIn(input)
    BY <1>2 DEF Lexed
  <2>3. i \in 1 .. n /\ ~Refused(tokens, i)
    <3>1. CASE Accepted(tokens)
      BY <2>1, <3>1 DEF Accepted, Refused
    <3>2. CASE ~Accepted(tokens)
      <4>1. Len(tokens) \in DOMAIN tokens
        <5>1. tokens # <<>> /\ tokens \in Seq(FoundIn(input))
          BY <1>2, <3>2 DEF Accepted, Lexed
        <5> QED BY <5>1
      <4>2. Last(tokens).from \in 1 .. n
        BY <1>1, <2>1, <2>2, <4>1, FoundIs DEF Last
      <4>3. i \in 1 .. Last(tokens).from - 1
        BY <3>2
      <4> QED BY <4>2, <4>3 DEF Refused
    <3> QED BY <3>1, <3>2
  <2>4. ~Covered(tokens, i)
    <3>1. SUFFICES ASSUME NEW k \in DOMAIN tokens, tokens[k].from <= i, i < tokens[k].next PROVE FALSE
      BY DEF Covered
    <3>2. PICK from \in Nat, next \in Nat : from = tokens[k].from /\ next = tokens[k].next
      <4>1. tokens[k].from \in 1 .. n /\ tokens[k].next \in tokens[k].from .. n + 1
        BY <1>1, <2>1, <2>2, FoundIs
      <4> QED BY <4>1
    <3>3. i \in from .. next - 1
      BY <2>3, <3>1, <3>2
    <3>4. i \in tokens[k].from .. tokens[k].next - 1
      BY <3>2, <3>3
    <3> QED BY <1>4, <3>4
  <2> QED BY <1>2, <2>1, <2>3, <2>4 DEF Lexed
<1> QED BY <1>3, <1>4 DEF TokensCoverInput

LEMMA NeverInAWord ==
    ASSUME Typed
    PROVE  WordsAreNotRefused
<1> DEFINE tokens == Tokenize(input)
           at == Last(tokens).from
<1> SUFFICES ASSUME ~Accepted(tokens), at > 1, IsIdentContinuation(input[at]), IsIdentContinuation(input[at - 1])
             PROVE  FALSE
  BY DEF WordsAreNotRefused
<1>1. PICK S : input \in Seq(S)
  BY DEF Typed
<1>2. Lexed(input, 1, tokens)
  BY <1>1, TokensLexed
<1> HIDE DEF tokens
<1>3. PICK n \in Nat, l \in Nat : n = Len(input) /\ l = Len(tokens)
  BY <1>1, <1>2 DEF Lexed
<1>4. l \in DOMAIN tokens /\ DOMAIN tokens = 1 .. l /\ tokens[l].kind = "error"
  <2>1. tokens # <<>> /\ tokens \in Seq(FoundIn(input)) /\ Last(tokens).kind = "error"
    BY <1>2 DEF Accepted, Lexed
  <2> QED BY <1>3, <2>1 DEF Last
<1>5. PICK a \in 2 .. n : a = at /\ tokens[l] = TokenAt(input, a)
  <2>1. tokens[l] \in FoundIn(input)
    BY <1>2, <1>4 DEF Lexed
  <2>2. at \in 1 .. n /\ tokens[l] = TokenAt(input, at)
    BY <1>1, <1>3, <2>1, FoundIs DEF Last
  <2> QED BY <2>2
<1>6. input[a] \in {".", "-", ":"}
  <2>1. input[a] \notin Digit
    <3>1. SUFFICES ASSUME input[a] \in Digit PROVE FALSE
      OBVIOUS
    <3>2. tokens[l] = DigitLed(input, a)
      BY <1>5, <3>1, TokenCases
    <3> QED BY <1>4, <3>2 DEF DigitLed, Span
  <2>2. input[a] \notin Letter
    <3>1. SUFFICES ASSUME input[a] \in Letter PROVE FALSE
      OBVIOUS
    <3>2. tokens[l] = Span("ident", a, WordEnd(input, a))
      BY <1>5, <3>1, TokenCases
    <3> QED BY <1>4, <3>2 DEF Span
  <2> QED BY <1>5, <2>1, <2>2 DEF IsIdentContinuation
<1>7. input[a - 1] \notin Space
  BY <1>5, CharsApart, CharactersAssumption DEF IsIdentContinuation
<1>8. PICK k \in DOMAIN tokens : tokens[k].from <= a - 1 /\ a - 1 < tokens[k].next
  <2>1. a - 1 \in 1 .. Len(input) /\ ~(a <= a - 1)
    BY <1>3, <1>5
  <2>2. ~Refused(tokens, a - 1)
    BY <1>5, <2>1 DEF Refused
  <2> QED BY <1>2, <1>7, <2>1, <2>2 DEF Lexed, Covered
<1>9. k < l
  <2>1. k # l
    <3>1. tokens[l].from = a
      BY <1>3, <1>5 DEF Last
    <3> QED BY <1>5, <1>8, <3>1
  <2> QED BY <1>3, <1>4, <2>1
<1>10. tokens[k].next = a
  <2>1. tokens[k].next <= a
    BY <1>2, <1>3, <1>4, <1>5, <1>9 DEF Lexed, Last
  <2>2. tokens[k] \in FoundIn(input)
    BY <1>2 DEF Lexed
  <2>3. tokens[k].from \in 1 .. n /\ tokens[k].next \in tokens[k].from .. n + 1
    BY <1>1, <1>3, <2>2, FoundIs
  <2> QED BY <1>5, <1>8, <2>1, <2>3
<1>11. tokens[k].kind # "error"
  BY <1>2, <1>3, <1>9 DEF Lexed
<1>12. tokens[k].from \in 1 .. Len(input) /\ tokens[k] = TokenAt(input, tokens[k].from)
  <2>1. tokens[k] \in FoundIn(input)
    BY <1>2 DEF Lexed
  <2> QED BY <1>1, <2>1, FoundIs
<1>13. input[a] \notin {".", "-", ":"}
  <2>1. tokens[k].next <= Len(input) /\ IsIdentContinuation(input[tokens[k].next - 1])
    BY <1>3, <1>5, <1>10
  <2>2. input[tokens[k].next] \notin {".", "-", ":"}
    BY <1>1, <1>11, <1>12, <2>1, TokenStops
  <2> QED BY <1>10, <2>2
<1> QED BY <1>6, <1>13

\* Whatever the characters and however long the text: tokens cover it but for
\* white space and what is refused, and words are not refused for what words have.
THEOREM TokensAreWholeHolds == Spec => []TokensAreWhole
<1>1. Typed => TokensAreWhole
  BY Covers, NeverInAWord DEF TokensAreWhole
<1> QED BY <1>1, InputTyped, PTL

-----------------------------------------------------------------------------
(* More is typed. *)

Continues(s, u) == Len(s) <= Len(u) /\ \A j \in 1 .. Len(s) : u[j] = s[j]

LEMMA RunEndStays ==
    ASSUME NEW S, NEW s \in Seq(S), NEW u \in Seq(S), Continues(s, u),
           NEW i \in 1 .. Len(s) + 1, NEW chars, RunEnd(s, i, chars) <= Len(s)
    PROVE  RunEnd(u, i, chars) = RunEnd(s, i, chars)
<1>1. PICK n \in Nat, m \in Nat : n = Len(s) /\ m = Len(u) /\ n <= m /\ \A j \in 1 .. n : u[j] = s[j]
  BY DEF Continues
<1>2. PICK a \in i .. n : a = RunEnd(s, i, chars) /\ s[a] \notin chars /\ \A j \in i .. a - 1 : s[j] \in chars
  BY <1>1, RunEndIs
<1>3. i \in 1 .. Len(u) + 1
  BY <1>1
<1>4. PICK b \in i .. m + 1 : /\ b = RunEnd(u, i, chars) /\ \A j \in i .. b - 1 : u[j] \in chars
                              /\ b <= m => u[b] \notin chars
  BY <1>1, <1>3, RunEndIs
<1>5. a < b => a \in i .. b - 1 /\ a \in 1 .. n
  BY <1>2
<1>6. b < a => b \in i .. a - 1 /\ b \in 1 .. n /\ b <= m
  BY <1>1, <1>2, <1>4
<1>7. ~(a < b)
  BY <1>1, <1>2, <1>4, <1>5
<1>8. ~(b < a)
  BY <1>1, <1>2, <1>4, <1>6
<1> QED BY <1>2, <1>4, <1>7, <1>8

LEMMA WordEndStays ==
    ASSUME NEW S, NEW s \in Seq(S), NEW u \in Seq(S), Continues(s, u),
           NEW i \in 1 .. Len(s) + 1, WordEnd(s, i) <= Len(s)
    PROVE  WordEnd(u, i) = WordEnd(s, i)
<1>1. PICK n \in Nat, m \in Nat : n = Len(s) /\ m = Len(u) /\ n <= m /\ \A j \in 1 .. n : u[j] = s[j]
  BY DEF Continues
<1>2. PICK a \in i .. n : /\ a = WordEnd(s, i) /\ ~IsIdentContinuation(s[a])
                          /\ \A j \in i .. a - 1 : IsIdentContinuation(s[j])
  <2> DEFINE e == WordEnd(s, i)
  <2>1. e \in i .. Len(s) + 1 /\ (e <= Len(s) => ~IsIdentContinuation(s[e]))
        /\ \A j \in i .. e - 1 : IsIdentContinuation(s[j])
    BY WordEndIs
  <2>2. e <= Len(s)
    OBVIOUS
  <2> HIDE DEF e
  <2>3. e \in i .. Len(s)
    <3>1. e \in i .. Len(s) + 1
      BY <2>1
    <3>2. Len(s) \in Nat
      OBVIOUS
    <3> QED BY <2>2, <3>1, <3>2
  <2>4. ~IsIdentContinuation(s[e])
    BY <2>1, <2>2
  <2>5. e = WordEnd(s, i)
    BY DEF e
  <2> QED BY <1>1, <2>1, <2>3, <2>4, <2>5
<1>3. i \in 1 .. Len(u) + 1
  BY <1>1
<1>4. PICK b \in i .. m + 1 : /\ b = WordEnd(u, i) /\ \A j \in i .. b - 1 : IsIdentContinuation(u[j])
                              /\ b <= m => ~IsIdentContinuation(u[b])
  BY <1>1, <1>3, WordEndIs
<1>5. a < b => a \in i .. b - 1 /\ a \in 1 .. n
  BY <1>2
<1>6. b < a => b \in i .. a - 1 /\ b \in 1 .. n /\ b <= m
  BY <1>1, <1>2, <1>4
<1>7. ~(a < b)
  BY <1>1, <1>2, <1>4, <1>5
<1>8. ~(b < a)
  BY <1>1, <1>2, <1>4, <1>6
<1> QED BY <1>2, <1>4, <1>7, <1>8

\* A number in front of the last character stays, unless that is a dot behind it.
LEMMA NumberEndStays ==
    ASSUME NEW S, NEW s \in Seq(S), NEW u \in Seq(S), Continues(s, u),
           NEW i \in 1 .. Len(s), s[i] \in Digit, NumberEnd(s, i) <= Len(s),
           NumberEnd(s, i) = Len(s) => s[Len(s)] # "."
    PROVE  NumberEnd(u, i) = NumberEnd(s, i)
<1>1. PICK n \in Nat, m \in Nat : n = Len(s) /\ m = Len(u) /\ n <= m /\ \A j \in 1 .. n : u[j] = s[j]
  BY DEF Continues
<1>2. i \in 1 .. Len(s) + 1
  OBVIOUS
<1>3. PICK dot \in i .. n + 1 : dot = RunEnd(s, i, Digit)
  BY <1>1, <1>2, RunEndIs
<1>4. CASE At(s, dot, {"."}) /\ At(s, dot + 1, Digit)
  <2>1. dot \in 1 .. n /\ dot + 1 \in 1 .. n /\ dot + 1 \in 1 .. Len(s) + 1
    BY <1>1, <1>3, <1>4 DEF At
  <2>2. NumberEnd(s, i) = RunEnd(s, dot + 1, Digit)
    BY <1>3, <1>4 DEF NumberEnd
  <2>3. RunEnd(u, i, Digit) = dot
    BY <1>1, <1>2, <1>3, <2>1, RunEndStays
  <2>4. RunEnd(u, dot + 1, Digit) = RunEnd(s, dot + 1, Digit)
    BY <2>1, <2>2, RunEndStays
  <2>5. At(u, dot, {"."}) /\ At(u, dot + 1, Digit)
    BY <1>1, <1>4, <2>1 DEF At
  <2> QED BY <2>2, <2>3, <2>4, <2>5 DEF NumberEnd
<1>5. CASE ~(At(s, dot, {"."}) /\ At(s, dot + 1, Digit))
  <2>1. NumberEnd(s, i) = dot /\ dot \in 1 .. n
    BY <1>1, <1>3, <1>5 DEF NumberEnd
  <2>2. RunEnd(u, i, Digit) = dot
    BY <1>1, <1>2, <1>3, <2>1, RunEndStays
  <2>3. ~(At(u, dot, {"."}) /\ At(u, dot + 1, Digit))
    <3>1. CASE s[dot] # "."
      BY <1>1, <2>1, <3>1 DEF At
    <3>2. CASE s[dot] = "."
      <4>1. dot + 1 \in 1 .. n
        BY <1>1, <2>1, <3>2
      <4>2. s[dot + 1] \notin Digit
        BY <1>1, <1>5, <2>1, <3>2, <4>1 DEF At
      <4> QED BY <1>1, <4>1, <4>2 DEF At
    <3> QED BY <3>1, <3>2
  <2> QED BY <2>1, <2>2, <2>3 DEF NumberEnd
<1> QED BY <1>4, <1>5

LEMMA QuotedStays ==
    ASSUME NEW S, NEW s \in Seq(S), NEW u \in Seq(S), Continues(s, u),
           NEW i \in 1 .. Len(s), Quoted(s, i).kind # "error"
    PROVE  Quoted(u, i) = Quoted(s, i)
<1>1. PICK n \in Nat, m \in Nat : n = Len(s) /\ m = Len(u) /\ n <= m /\ \A j \in 1 .. n : u[j] = s[j]
  BY DEF Continues
<1> DEFINE close == {j \in i + 1 .. Len(s) : s[j] = "\""}
           shut == {j \in i + 1 .. Len(u) : u[j] = "\""}
<1>2. close # {} /\ Quoted(s, i) = Span("quoted", i, Min(close) + 1)
  BY DEF Quoted, Unexpected, Span
<1>3. shut # {} => Quoted(u, i) = Span("quoted", i, Min(shut) + 1)
  BY DEF Quoted
<1>4. \A j : j \in close <=> j \in i + 1 .. n /\ s[j] = "\""
  BY <1>1
<1>5. \A j : j \in shut <=> j \in i + 1 .. m /\ u[j] = "\""
  BY <1>1
<1> HIDE DEF close, shut
<1>17. i \in Nat
  OBVIOUS
<1>6. close \subseteq shut
  <2> SUFFICES ASSUME NEW j \in close PROVE j \in shut
    OBVIOUS
  <2>1. j \in i + 1 .. n /\ s[j] = "\""
    BY <1>4
  <2>2. j \in 1 .. n /\ j \in i + 1 .. m
    <3>1. n \in Nat /\ m \in Nat /\ n <= m
      BY <1>1
    <3>2. j \in i + 1 .. n
      BY <2>1
    <3> QED BY <1>17, <3>1, <3>2
  <2>3. u[j] = "\""
    BY <1>1, <2>1, <2>2
  <2> QED BY <1>5, <2>2, <2>3
<1>7. \A j \in shut : j <= n => j \in close
  <2> SUFFICES ASSUME NEW j \in shut, j <= n PROVE j \in close
    OBVIOUS
  <2>1. j \in i + 1 .. m /\ u[j] = "\""
    BY <1>5
  <2>2. j \in 1 .. n /\ j \in i + 1 .. n
    <3>1. n \in Nat /\ m \in Nat /\ j <= n
      BY <1>1
    <3>2. j \in i + 1 .. m
      BY <2>1
    <3> QED BY <1>17, <3>1, <3>2
  <2>3. s[j] = "\""
    BY <1>1, <2>1, <2>2
  <2> QED BY <1>4, <2>2, <2>3
<1>8. close \in SUBSET Nat
  <2>1. \A j \in close : j \in i + 1 .. n
    BY <1>4
  <2> QED BY <1>1, <1>17, <2>1
<1>9. shut \in SUBSET Nat
  <2>1. \A j \in shut : j \in i + 1 .. m
    BY <1>5
  <2> QED BY <1>1, <1>17, <2>1
<1>10. PICK a \in Nat : a = Min(close) /\ a \in close /\ \A j \in close : a <= j
  BY <1>2, <1>8, MinIs
<1>11. PICK b \in Nat : b = Min(shut) /\ b \in shut /\ \A j \in shut : b <= j
  BY <1>2, <1>6, <1>9, MinIs
<1>12. b <= a
  BY <1>6, <1>10, <1>11
<1>13. a \in i + 1 .. n
  BY <1>4, <1>10
<1>14. b <= n
  BY <1>12, <1>13
<1>15. a = b
  BY <1>7, <1>10, <1>11, <1>12, <1>14
<1>16. Min(shut) = Min(close)
  BY <1>10, <1>11, <1>15
<1> QED BY <1>2, <1>3, <1>6, <1>16

\* A token that ends in front of the last character stays as it is.
LEMMA TokenStays ==
    ASSUME NEW S, NEW s \in Seq(S), NEW u \in Seq(S), Continues(s, u),
           NEW i \in 1 .. Len(s), TokenAt(s, i).kind # "error", TokenAt(s, i).next <= Len(s)
    PROVE  TokenAt(u, i) = TokenAt(s, i)
<1> DEFINE t == TokenAt(s, i)
<1>1. PICK n \in Nat, m \in Nat : n = Len(s) /\ m = Len(u) /\ n <= m /\ \A j \in 1 .. n : u[j] = s[j]
  BY DEF Continues
<1>2. ASSUME NEW kind, NEW next PROVE Span(kind, i, next).next = next /\ Span(kind, i, next).kind = kind
  BY DEF Span
<1>3. t # Unexpected(i)
  BY DEF Unexpected, Span
<1>4. u[i] = s[i]
  BY <1>1
<1>5. CASE s[i] = "!" /\ At(s, i + 1, {"="})
  <2>1. At(u, i + 1, {"="})
    BY <1>1, <1>5 DEF At
  <2> QED BY <1>4, <1>5, <2>1, TokenCases
<1>6. CASE s[i] = "!" /\ ~At(s, i + 1, {"="})
  BY <1>3, <1>6, TokenCases
<1>7. CASE s[i] \in Signs
  BY <1>4, <1>7, TokenCases
<1>8. CASE s[i] = "\""
  <2>1. t = Quoted(s, i) /\ TokenAt(u, i) = Quoted(u, i)
    BY <1>4, <1>8, TokenCases
  <2> QED BY <2>1, QuotedStays
<1>9. CASE s[i] \in Digit
  <2>1. t = DigitLed(s, i) /\ TokenAt(u, i) = DigitLed(u, i)
    BY <1>4, <1>9, TokenCases
  <2>2. PICK number \in i + 1 .. n + 1 : number = NumberEnd(s, i)
    BY <1>1, <1>9, NumberEndIs
  <2>3. CASE At(s, number, {"-", ":", "."})
    <3>1. t = Span("ident", i, WordEnd(s, number))
      BY <2>1, <2>2, <2>3 DEF DigitLed
    <3>2. WordEnd(s, number) <= n
      BY <1>1, <1>2, <3>1
    <3>3. number \in 1 .. Len(s) + 1
      BY <1>1, <2>2
    <3>4. WordEnd(s, number) \in number .. n + 1 /\ ~IsIdentContinuation(s[WordEnd(s, number)])
      BY <1>1, <3>2, <3>3, WordEndIs
    <3>5. number \in 1 .. n /\ IsIdentContinuation(s[number])
      BY <1>1, <2>2, <2>3 DEF At, IsIdentContinuation
    <3>6. number # n
      BY <3>2, <3>4, <3>5
    <3>7. NumberEnd(u, i) = number
      BY <1>1, <1>9, <2>2, <3>5, <3>6, NumberEndStays
    <3>8. At(u, number, {"-", ":", "."})
      BY <1>1, <2>3, <3>5 DEF At
    <3>9. WordEnd(u, number) = WordEnd(s, number)
      BY <1>1, <3>2, <3>3, WordEndStays
    <3> QED BY <2>1, <3>1, <3>7, <3>8, <3>9 DEF DigitLed
  <2>4. CASE ~At(s, number, {"-", ":", "."})
    <3>1. t = Span("number", i, number)
      BY <2>1, <2>2, <2>4 DEF DigitLed
    <3>2. number \in 1 .. n
      BY <1>1, <1>2, <2>2, <3>1
    <3>3. s[number] \notin {"-", ":", "."}
      BY <1>1, <2>4, <3>2 DEF At
    <3>4. NumberEnd(u, i) = number
      BY <1>1, <1>9, <2>2, <3>2, <3>3, NumberEndStays
    <3>5. ~At(u, number, {"-", ":", "."})
      BY <1>1, <3>2, <3>3 DEF At
    <3> QED BY <2>1, <3>1, <3>4, <3>5 DEF DigitLed
  <2> QED BY <2>3, <2>4
<1>10. CASE s[i] \in Letter
  <2>1. t = Span("ident", i, WordEnd(s, i)) /\ TokenAt(u, i) = Span("ident", i, WordEnd(u, i))
    BY <1>4, <1>10, TokenCases
  <2>2. WordEnd(s, i) <= Len(s) /\ i \in 1 .. Len(s) + 1
    BY <1>2, <2>1
  <2> QED BY <2>1, <2>2, WordEndStays
<1>11. CASE s[i] \notin {"!", "\""} \cup Signs \cup Digit \cup Letter
  BY <1>3, <1>11, TokenCases
<1> QED BY <1>5, <1>6, <1>7, <1>8, <1>9, <1>10, <1>11

\* No token ends with white space.
LEMMA TokenEnds ==
    ASSUME NEW S, NEW s \in Seq(S), NEW i \in 1 .. Len(s), NEW t, t = TokenAt(s, i),
           t.kind # "error"
    PROVE  s[t.next - 1] \notin Space
<1>1. PICK n \in Nat : n = Len(s) /\ i \in 1 .. n
  OBVIOUS
<1>2. ASSUME NEW kind, NEW next PROVE Span(kind, i, next).next = next /\ Span(kind, i, next).kind = kind
  BY DEF Span
<1>3. t # Unexpected(i)
  BY DEF Unexpected, Span
<1>4. "=" \notin Space /\ "\"" \notin Space /\ (\A c \in Signs : c \notin Space)
  BY CharsApart, CharactersAssumption DEF Signs
<1>5. \A c : IsIdentContinuation(c) => c \notin Space
  BY CharsApart DEF IsIdentContinuation
<1>6. CASE s[i] = "!" /\ At(s, i + 1, {"="})
  <2>1. t = Span("!=", i, i + 2)
    BY <1>6, TokenCases
  <2>2. t.next = i + 2 /\ (i + 2) - 1 = i + 1
    BY <1>1, <1>2, <2>1
  <2>3. s[i + 1] = "="
    BY <1>6 DEF At
  <2> QED BY <1>4, <2>2, <2>3
<1>7. CASE s[i] = "!" /\ ~At(s, i + 1, {"="})
  BY <1>3, <1>7, TokenCases
<1>8. CASE s[i] \in Signs
  <2>1. t = Span(s[i], i, i + 1)
    BY <1>8, TokenCases
  <2>2. t.next = i + 1 /\ (i + 1) - 1 = i
    BY <1>1, <1>2, <2>1
  <2> QED BY <1>4, <1>8, <2>2
<1>9. CASE s[i] = "\""
  <2>1. t = Quoted(s, i)
    BY <1>9, TokenCases
  <2> DEFINE close == {j \in i + 1 .. Len(s) : s[j] = "\""}
  <2>2. close # {} /\ t = Span("quoted", i, Min(close) + 1)
    BY <1>3, <2>1 DEF Quoted
  <2>3. \A j \in close : j \in i + 1 .. n
    BY <1>1
  <2>4. \A j \in close : s[j] = "\""
    OBVIOUS
  <2> HIDE DEF close
  <2>5. close \in SUBSET Nat
    BY <1>1, <2>3
  <2>6. PICK m \in i + 1 .. n : m = Min(close) /\ m \in close
    BY <2>2, <2>3, <2>5, MinIs
  <2>7. t = Span("quoted", i, m + 1)
    BY <2>2, <2>6
  <2>8. t.next = m + 1
    BY <1>2, <2>7
  <2>9. s[m] = "\""
    BY <2>4, <2>6
  <2>10. (m + 1) - 1 = m
    OBVIOUS
  <2> QED BY <1>4, <2>8, <2>9, <2>10
<1>10. CASE s[i] \in Digit
  <2>1. t = DigitLed(s, i)
    BY <1>10, TokenCases
  <2>2. PICK number \in i + 1 .. n + 1 : number = NumberEnd(s, i) /\ s[number - 1] \in Digit
    BY <1>1, <1>10, NumberEndIs
  <2>3. CASE At(s, number, {"-", ":", "."})
    <3>1. number \in 1 .. Len(s) + 1 /\ number \in 1 .. n /\ IsIdentContinuation(s[number])
      BY <1>1, <2>2, <2>3 DEF At, IsIdentContinuation
    <3>2. PICK end \in number .. n + 1 : /\ end = WordEnd(s, number)
                                         /\ \A j \in number .. end - 1 : IsIdentContinuation(s[j])
                                         /\ end <= n => ~IsIdentContinuation(s[end])
      BY <1>1, <3>1, WordEndIs
    <3>3. end # number
      BY <3>1, <3>2
    <3>4. end - 1 \in number .. end - 1
      BY <3>2, <3>3
    <3>5. t = Span("ident", i, end)
      BY <2>1, <2>2, <2>3, <3>2 DEF DigitLed
    <3>6. t.next = end
      BY <1>2, <3>5
    <3> QED BY <1>5, <3>2, <3>4, <3>6
  <2>4. CASE ~At(s, number, {"-", ":", "."})
    <3>1. t = Span("number", i, number)
      BY <2>1, <2>2, <2>4 DEF DigitLed
    <3>2. t.next = number
      BY <1>2, <3>1
    <3> QED BY <2>2, <3>2, CharsApart
  <2> QED BY <2>3, <2>4
<1>11. CASE s[i] \in Letter
  <2>1. t = Span("ident", i, WordEnd(s, i))
    BY <1>11, TokenCases
  <2>2. i \in 1 .. Len(s) + 1 /\ IsIdentContinuation(s[i])
    BY <1>1, <1>11 DEF IsIdentContinuation
  <2>3. PICK end \in i .. n + 1 : /\ end = WordEnd(s, i)
                                  /\ \A j \in i .. end - 1 : IsIdentContinuation(s[j])
                                  /\ end <= n => ~IsIdentContinuation(s[end])
    BY <1>1, <2>2, WordEndIs
  <2>4. end # i
    BY <1>1, <2>2, <2>3
  <2>5. end - 1 \in i .. end - 1
    BY <1>1, <2>3, <2>4
  <2>6. t.next = end
    BY <1>2, <2>1, <2>3
  <2> QED BY <1>5, <2>3, <2>5, <2>6
<1>12. CASE s[i] \notin {"!", "\""} \cup Signs \cup Digit \cup Letter
  BY <1>3, <1>12, TokenCases
<1> QED BY <1>6, <1>7, <1>8, <1>9, <1>10, <1>11, <1>12

\* The tokens ts of s are those of us, but for the last one if s may go on there.
Stays(s, ts, us) ==
    Accepted(ts) =>
        \A k \in DOMAIN ts : s[Len(s)] \in Space \/ k < Len(ts) => k \in DOMAIN us /\ us[k] = ts[k]

LEMMA StaysPrepend ==
    ASSUME NEW s, NEW A, NEW B, NEW t, t \in A, t \in B, NEW ts \in Seq(A), NEW us \in Seq(B),
           Stays(s, ts, us)
    PROVE  Stays(s, <<t>> \o ts, <<t>> \o us)
<1> DEFINE tts == <<t>> \o ts
           tus == <<t>> \o us
<1>1. PICK l \in Nat, m \in Nat : l = Len(ts) /\ m = Len(us) /\ DOMAIN ts = 1 .. l /\ DOMAIN us = 1 .. m
  OBVIOUS
<1>2. /\ Len(tts) = l + 1 /\ DOMAIN tts = 1 .. l + 1 /\ tts[1] = t
      /\ \A k \in 2 .. l + 1 : k - 1 \in 1 .. l /\ tts[k] = ts[k - 1]
  BY <1>1, Prepended
<1>3. /\ DOMAIN tus = 1 .. m + 1 /\ tus[1] = t
      /\ \A k \in 1 .. m : tus[k + 1] = us[k]
  BY <1>1, Prepended
<1> HIDE DEF tts, tus
<1> SUFFICES ASSUME Accepted(tts), NEW k \in 1 .. l + 1, s[Len(s)] \in Space \/ k < l + 1
             PROVE  k \in DOMAIN tus /\ tus[k] = tts[k]
  BY <1>2 DEF Stays, tts, tus
<1>4. CASE k = 1
  BY <1>1, <1>2, <1>3, <1>4
<1>5. CASE k # 1
  <2>1. k \in 2 .. l + 1 /\ k - 1 \in 1 .. l /\ (s[Len(s)] \in Space \/ k - 1 < l)
    BY <1>5
  <2>2. Accepted(ts)
    <3>1. l + 1 \in 2 .. l + 1 /\ (l + 1) - 1 = l
      BY <2>1
    <3>2. tts[l + 1] = ts[l]
      BY <1>2, <3>1
    <3>3. tts # <<>>
      BY <1>2
    <3> QED BY <1>1, <1>2, <3>2, <3>3 DEF Accepted, Last
  <2>3. k - 1 \in 1 .. m /\ us[k - 1] = ts[k - 1]
    BY <1>1, <2>1, <2>2 DEF Stays
  <2>4. k \in 1 .. m + 1 /\ tus[(k - 1) + 1] = us[k - 1] /\ (k - 1) + 1 = k
    BY <1>1, <1>3, <2>1, <2>3
  <2> QED BY <1>2, <1>3, <2>1, <2>3, <2>4
<1> QED BY <1>4, <1>5

\* From every place on, the recursion over the longer text finds what it found.
LEMMA LexStays ==
    ASSUME NEW S, NEW s \in Seq(S), NEW u \in Seq(S), Continues(s, u), Len(s) > 0,
           NEW lex, IsLex(s, lex), NEW wide, IsLex(u, wide)
    PROVE  \A i \in 1 .. Len(s) + 1 : Stays(s, lex[i], wide[i])
<1>1. PICK n \in Nat, m \in Nat : n = Len(s) /\ m = Len(u) /\ n <= m /\ \A j \in 1 .. n : u[j] = s[j]
  BY DEF Continues
<1>2. \A i \in 1 .. n + 1 : lex[i] = LexFrom(s, lex, i) /\ lex[i] \in Seq(FoundIn(s))
  BY <1>1, LexIsLexed DEF IsLex, Lexed
<1>3. \A i \in 1 .. m + 1 : wide[i] = LexFrom(u, wide, i) /\ wide[i] \in Seq(FoundIn(u))
  BY <1>1, LexIsLexed DEF IsLex, Lexed
<1> DEFINE Good == {i \in 1 .. n + 1 : Stays(s, lex[i], wide[i])}
<1>4. ASSUME NEW i \in 1 .. n + 1, \A j \in i + 1 .. n + 1 : j \in Good PROVE i \in Good
  <2>1. i \in 1 .. Len(s) + 1 /\ lex[i] = LexFrom(s, lex, i)
    BY <1>1, <1>2
  <2>2. i \in 1 .. Len(u) + 1 /\ wide[i] = LexFrom(u, wide, i)
    BY <1>1, <1>3
  <2>3. CASE i > n
    <3>1. lex[i] = <<>>
      BY <1>1, <2>1, <2>3, LexCases
    <3>2. DOMAIN lex[i] = {}
      BY <3>1
    <3>3. Stays(s, lex[i], wide[i])
      BY <3>2 DEF Stays
    <3> QED BY <3>3
  <2>4. CASE i <= n /\ s[i] \in Space
    <3>1. u[i] = s[i] /\ i <= m
      BY <1>1, <2>4
    <3>2. lex[i] = lex[i + 1] /\ wide[i] = wide[i + 1]
      BY <1>1, <2>1, <2>2, <2>4, <3>1, LexCases
    <3>3. i + 1 \in i + 1 .. n + 1
      BY <2>4
    <3> QED BY <1>4, <3>2, <3>3
  <2>5. CASE i <= n /\ s[i] \notin Space
    <3> DEFINE t == TokenAt(s, i)
    <3> HIDE DEF t
    <3>1. i \in 1 .. Len(s) /\ t = TokenAt(s, i)
      BY <1>1, <2>5 DEF t
    <3>2. t.next \in i .. n + 1 /\ (t.kind # "error" => t.next > i) /\ t \in FoundIn(s)
      BY <1>1, <3>1, TokenAtIs DEF FoundIn
    <3>3. CASE t.kind = "error"
      <4>1. lex[i] = <<t>>
        BY <1>1, <2>1, <2>5, <3>1, <3>3, LexCases
      <4>2. Len(<<t>>) = 1 /\ <<t>>[1] = t /\ <<t>> # <<>>
        OBVIOUS
      <4>3. ~Accepted(lex[i])
        BY <3>3, <4>1, <4>2 DEF Accepted, Last
      <4>4. Stays(s, lex[i], wide[i])
        BY <4>3 DEF Stays
      <4> QED BY <4>4
    <3>4. CASE t.kind # "error" /\ t.next = n + 1
      <4>1. n + 1 \in 1 .. Len(s) + 1 /\ n + 1 > Len(s) /\ lex[n + 1] = LexFrom(s, lex, n + 1)
        BY <1>1, <1>2
      <4>2. lex[n + 1] = <<>>
        BY <4>1, LexCases
      <4>3. lex[i] = <<t>> \o <<>>
        <5>1. lex[i] = <<t>> \o lex[t.next]
          BY <1>1, <2>1, <2>5, <3>1, <3>4, LexCases
        <5> QED BY <3>4, <4>2, <5>1
      <4>4. lex[i] = <<t>> /\ Len(<<t>>) = 1 /\ DOMAIN <<t>> = {1}
        BY <4>3
      <4>5. s[t.next - 1] \notin Space
        BY <3>1, <3>4, TokenEnds
      <4>6. t.next - 1 = Len(s)
        BY <1>1, <3>4
      <4>7. Stays(s, lex[i], wide[i])
        BY <4>4, <4>5, <4>6 DEF Stays
      <4> QED BY <4>7
    <3>5. CASE t.kind # "error" /\ t.next # n + 1
      <4>1. t.next \in i + 1 .. n + 1 /\ t.next <= Len(s) /\ t.next \in 1 .. n + 1 /\ t.next \in 1 .. m + 1
        BY <1>1, <3>2, <3>5
      <4>2. TokenAt(u, i) = t
        BY <3>1, <3>5, <4>1, TokenStays
      <4>3. u[i] = s[i] /\ i <= m /\ i \in 1 .. m
        BY <1>1, <2>5
      <4>4. lex[i] = <<t>> \o lex[t.next]
        BY <1>1, <2>1, <2>5, <3>1, <3>5, LexCases
      <4>5. wide[i] = <<t>> \o wide[t.next]
        BY <1>1, <2>2, <2>5, <3>5, <4>2, <4>3, LexCases
      <4>6. t \in FoundIn(u)
        BY <1>1, <4>2, <4>3 DEF FoundIn
      <4>7. Stays(s, lex[t.next], wide[t.next])
        BY <1>4, <4>1
      <4>8. lex[t.next] \in Seq(FoundIn(s)) /\ wide[t.next] \in Seq(FoundIn(u))
        BY <1>2, <1>3, <4>1
      <4>9. Stays(s, lex[i], wide[i])
        BY <3>2, <4>4, <4>5, <4>6, <4>7, <4>8, StaysPrepend
      <4> QED BY <4>9
    <3> QED BY <3>3, <3>4, <3>5
  <2> QED BY <2>3, <2>4, <2>5
<1>5. \A i \in 1 .. n + 1 : i \in Good
  <2> HIDE DEF Good
  <2>1. n + 1 \in Nat
    OBVIOUS
  <2> QED BY <1>4, <2>1, FromTheEnd
<1> QED BY <1>1, <1>5

LEMMA PrefixIs ==
    ASSUME NEW S, NEW p \in Seq(S), NEW q \in Seq(S), Len(p) <= Len(q), \A k \in 1 .. Len(p) : p[k] = q[k]
    PROVE  IsPrefix(p, q)
<1>1. SubSeq(p, 1, Len(p)) = p
  OBVIOUS
<1>2. SubSeq(q, 1, Len(p)) \in Seq(S) /\ Len(SubSeq(q, 1, Len(p))) = Len(p)
      /\ \A k \in 1 .. Len(p) : SubSeq(q, 1, Len(p))[k] = q[k]
  OBVIOUS
<1> DEFINE r == SubSeq(q, 1, Len(p))
<1> HIDE DEF r
<1>3. r \in Seq(S) /\ Len(r) = Len(p) /\ \A k \in 1 .. Len(p) : r[k] = p[k]
  BY <1>2 DEF r
<1>4. r = p
  BY <1>3
<1> QED BY <1>1, <1>4 DEF IsPrefix, r

\* A part of the shorter text is the same part of the longer one.
LEMMA SubSeqStays ==
    ASSUME NEW S, NEW s \in Seq(S), NEW u \in Seq(S), Continues(s, u),
           NEW from \in 1 .. Len(s), NEW to \in 0 .. Len(s)
    PROVE  SubSeq(s, from, to) = SubSeq(u, from, to)
<1>1. PICK n \in Nat, m \in Nat, f \in Nat, e \in Nat :
          /\ n = Len(s) /\ m = Len(u) /\ n <= m /\ f = from /\ e = to /\ f \in 1 .. n /\ e <= n
          /\ \A j \in 1 .. n : u[j] = s[j]
  BY DEF Continues
<1>2. SubSeq(s, f, e) = [k \in 1 .. (1 + e - f) |-> s[f + k - 1]]
  BY <1>1 DEF SubSeq
<1>3. SubSeq(u, f, e) = [k \in 1 .. (1 + e - f) |-> u[f + k - 1]]
  BY <1>1 DEF SubSeq
<1>4. ASSUME NEW k \in 1 .. (1 + e - f) PROVE s[f + k - 1] = u[f + k - 1]
  <2>1. f + k - 1 \in 1 .. n
    BY <1>1
  <2> QED BY <1>1, <2>1
<1> QED BY <1>1, <1>2, <1>3, <1>4

TextOf(s, t) == [kind |-> t.kind, text |-> SubSeq(s, t.from, t.next - 1)]

LEMMA TextsAre ==
    ASSUME NEW S, NEW s \in Seq(S), NEW ts, ts = Tokenize(s), NEW R, \A k \in DOMAIN ts : TextOf(s, ts[k]) \in R
    PROVE  /\ Texts(s) \in Seq(R) /\ Len(Texts(s)) = Len(ts) /\ DOMAIN Texts(s) = DOMAIN ts
           /\ \A k \in DOMAIN ts : Texts(s)[k] = TextOf(s, ts[k])
<1>1. ts \in Seq(FoundIn(s))
  BY TokensLexed DEF Lexed
<1>2. PICK l \in Nat : l = Len(ts) /\ DOMAIN ts = 1 .. l
  BY <1>1
<1>3. Texts(s) = [k \in 1 .. l |-> TextOf(s, ts[k])]
  BY <1>2 DEF Texts, TextOf
<1> QED BY <1>2, <1>3

LEMMA TextsStay ==
    ASSUME NEW S, NEW s \in Seq(S), NEW u \in Seq(S), Continues(s, u), Accepted(Texts(s)), Texts(s) # <<>>
    PROVE  IsPrefix(IF Last(s) \in Space THEN Texts(s) ELSE Front(Texts(s)), Texts(u))
<1>1. PICK lex, wide : IsLex(s, lex) /\ Tokenize(s) = lex[1] /\ IsLex(u, wide) /\ Tokenize(u) = wide[1]
  BY TokenizeIs
<1> DEFINE ts == Tokenize(s)
           us == Tokenize(u)
           R == {TextOf(s, ts[k]) : k \in DOMAIN ts} \cup {TextOf(u, us[k]) : k \in DOMAIN us}
<1> HIDE DEF ts, us
<1>2. ts \in Seq(FoundIn(s)) /\ us \in Seq(FoundIn(u))
  BY TokensLexed DEF Lexed, ts, us
<1>3. PICK l \in Nat, m \in Nat : l = Len(ts) /\ m = Len(us) /\ DOMAIN ts = 1 .. l /\ DOMAIN us = 1 .. m
  BY <1>2
<1>4. (\A k \in DOMAIN ts : TextOf(s, ts[k]) \in R) /\ (\A k \in DOMAIN us : TextOf(u, us[k]) \in R)
  OBVIOUS
<1> HIDE DEF R
<1>5. /\ Texts(s) \in Seq(R) /\ Len(Texts(s)) = l
      /\ \A k \in 1 .. l : Texts(s)[k] = TextOf(s, ts[k])
  BY <1>3, <1>4, TextsAre DEF ts
<1>6. /\ Texts(u) \in Seq(R) /\ Len(Texts(u)) = m
      /\ \A k \in 1 .. m : Texts(u)[k] = TextOf(u, us[k])
  BY <1>3, <1>4, TextsAre DEF us
<1>7. l # 0 /\ l \in 1 .. l
  BY <1>5
<1>8. Accepted(ts)
  <2>1. Texts(s)[l].kind # "error" /\ Texts(s)[l] = TextOf(s, ts[l])
    BY <1>5, <1>7 DEF Accepted, Last
  <2>2. ts[l].kind # "error"
    BY <2>1 DEF TextOf
  <2> QED BY <1>3, <2>2 DEF Accepted, Last
<1>9. Len(s) > 0 /\ 1 \in 1 .. Len(s) + 1
  <2>1. ts[l] \in FoundIn(s)
    BY <1>2, <1>3, <1>7
  <2>2. ts[l].from \in 1 .. Len(s)
    BY <2>1, FoundIs
  <2> QED BY <2>2
<1>10. Stays(s, ts, us)
  BY <1>1, <1>9, LexStays DEF ts, us
<1>11. ASSUME NEW k \in 1 .. l, s[Len(s)] \in Space \/ k < l PROVE k \in 1 .. m /\ Texts(s)[k] = Texts(u)[k]
  <2>1. k \in 1 .. m /\ us[k] = ts[k]
    BY <1>3, <1>8, <1>10, <1>11 DEF Stays
  <2>2. ts[k] \in FoundIn(s)
    BY <1>2, <1>3
  <2>3. /\ ts[k].from \in 1 .. Len(s) /\ ts[k].next \in ts[k].from .. Len(s) + 1
    BY <2>2, FoundIs
  <2>4. ts[k].next - 1 \in 0 .. Len(s)
    BY <2>3
  <2>5. SubSeq(s, ts[k].from, ts[k].next - 1) = SubSeq(u, ts[k].from, ts[k].next - 1)
    BY <2>3, <2>4, SubSeqStays
  <2>6. TextOf(s, ts[k]) = TextOf(u, us[k])
    BY <2>1, <2>5 DEF TextOf
  <2> QED BY <1>5, <1>6, <2>1, <2>6
<1>12. CASE Last(s) \in Space
  <2>1. s[Len(s)] \in Space
    BY <1>12 DEF Last
  <2>2. l \in 1 .. m /\ \A k \in 1 .. l : Texts(s)[k] = Texts(u)[k]
    BY <1>7, <1>11, <2>1
  <2>3. Len(Texts(s)) <= Len(Texts(u))
    BY <1>3, <1>5, <1>6, <2>2
  <2>4. \A k \in 1 .. Len(Texts(s)) : Texts(s)[k] = Texts(u)[k]
    BY <1>5, <2>2
  <2>5. Texts(s) \in Seq(R) /\ Texts(u) \in Seq(R)
    BY <1>5, <1>6
  <2>6. IsPrefix(Texts(s), Texts(u))
    BY <2>3, <2>4, <2>5, PrefixIs
  <2> QED BY <1>12, <2>6
<1>13. CASE Last(s) \notin Space
  <2> DEFINE front == Front(Texts(s))
  <2>1. front = SubSeq(Texts(s), 1, l - 1)
    BY <1>5 DEF Front
  <2>2. front \in Seq(R) /\ Len(front) = l - 1 /\ \A k \in 1 .. l - 1 : front[k] = Texts(s)[k]
    BY <1>5, <1>7, <2>1
  <2> HIDE DEF front
  <2>3. \A k \in 1 .. l - 1 : k \in 1 .. m /\ front[k] = Texts(u)[k]
    <3> SUFFICES ASSUME NEW k \in 1 .. l - 1 PROVE k \in 1 .. m /\ front[k] = Texts(u)[k]
      OBVIOUS
    <3>1. k \in 1 .. l /\ k < l
      BY <1>7
    <3> QED BY <1>11, <2>2, <3>1
  <2>4. l - 1 <= m
    <3>1. l - 1 \in 1 .. l - 1 \/ l - 1 = 0
      BY <1>7
    <3> QED BY <2>3, <3>1
  <2>5. IsPrefix(front, Texts(u))
    BY <1>6, <2>2, <2>3, <2>4, PrefixIs
  <2> QED BY <1>13, <2>5 DEF front
<1> QED BY <1>12, <1>13

\* For every set of characters a text is made from, of any length: what is
\* typed behind a query changes its last token only, and none behind a space.
THEOREM EarlierTokensStayHolds == Spec => EarlierTokensStay
<1> DEFINE Stay == About("query") =>
                       LET before == Texts(input)
                           after == Texts(input')
                       IN  Accepted(before) /\ before # <<>> =>
                               IsPrefix(IF Last(input) \in Space THEN before ELSE Front(before), after)
<1>1. Typed /\ [Next]_vars => [Stay]_vars
  <2> SUFFICES ASSUME Typed, Next, Accepted(Texts(input)), Texts(input) # <<>>
               PROVE  IsPrefix(IF Last(input) \in Space THEN Texts(input) ELSE Front(Texts(input)), Texts(input'))
    OBVIOUS
  <2>1. PICK c \in Sessions[session].alphabet : input' = Append(input, c)
    BY DEF Next
  <2>2. input \in Seq(Sessions[session].alphabet)
    BY DEF Typed
  <2>3. input' \in Seq(Sessions[session].alphabet) /\ Continues(input, input')
    BY <2>1, <2>2 DEF Continues
  <2> QED BY <2>2, <2>3, TextsStay
<1>2. [][Next]_vars /\ []Typed => [][Stay]_vars
  BY <1>1, PTL
<1> QED BY <1>2, InputTyped, PTL DEF Spec, EarlierTokensStay

-----------------------------------------------------------------------------
(* Where the runs of the logfmt scanner end. *)

LEMMA NextOfIs ==
    ASSUME NEW S, NEW s \in Seq(S), NEW i \in 1 .. Len(s) + 1, NEW chars
    PROVE  /\ NextOf(s, i, chars) \in i .. Len(s) + 1
           /\ \A j \in i .. NextOf(s, i, chars) - 1 : s[j] \notin chars
           /\ NextOf(s, i, chars) <= Len(s) => s[NextOf(s, i, chars)] \in chars
<1> DEFINE T == {j \in i .. Len(s) + 1 : j <= Len(s) => s[j] \in chars}
<1>1. PICK n \in Nat : n = Len(s)
  OBVIOUS
<1>2. T \in SUBSET Nat /\ n + 1 \in T
  BY <1>1
<1>3. PICK m \in Nat : m = NextOf(s, i, chars) /\ m \in T /\ \A j \in T : m <= j
  BY <1>2, MinIs DEF NextOf
<1>4. ASSUME NEW j \in i .. m - 1 PROVE s[j] \notin chars
  <2>1. j \in i .. n + 1 /\ ~(m <= j)
    BY <1>1, <1>3
  <2> QED BY <1>1, <1>3, <2>1
<1>5. m <= n => s[m] \in chars
  BY <1>1, <1>3
<1> QED BY <1>1, <1>3, <1>4, <1>5

-----------------------------------------------------------------------------
(* A part of a text, with white space or nothing behind it.  The scanner   *)
(* finds the same in the part and in the text, d places further on.        *)

Part(p, s, d) ==
    /\ d + Len(p) <= Len(s)
    /\ \A j \in 1 .. Len(p) : s[j + d] = p[j]
    /\ d + Len(p) < Len(s) => s[d + Len(p) + 1] \in Space
\* How much of the text is behind the part.
Behind(p, s, d) == Len(s) - (d + Len(p))

LEMMA RunEndMoves ==
    ASSUME NEW S, NEW p \in Seq(S), NEW s \in Seq(S), NEW d \in Nat, Part(p, s, d),
           NEW i \in 1 .. Len(p) + 1, NEW chars, chars \cap Space = {}
    PROVE  RunEnd(s, i + d, chars) = RunEnd(p, i, chars) + d
<1>1. PICK n \in Nat, m \in Nat : /\ n = Len(p) /\ m = Len(s) /\ d + n <= m
                                  /\ \A j \in 1 .. n : s[j + d] = p[j]
                                  /\ d + n < m => s[d + n + 1] \in Space
  BY DEF Part
<1>2. PICK a \in i .. n + 1 : /\ a = RunEnd(p, i, chars) /\ \A j \in i .. a - 1 : p[j] \in chars
                              /\ a <= n => p[a] \notin chars
  BY <1>1, RunEndIs
<1>3. i + d \in 1 .. Len(s) + 1
  BY <1>1
<1>4. PICK b \in i + d .. m + 1 : /\ b = RunEnd(s, i + d, chars) /\ \A j \in i + d .. b - 1 : s[j] \in chars
                                  /\ b <= m => s[b] \notin chars
  BY <1>1, <1>3, RunEndIs
<1>5. ~(b < a + d)
  <2> SUFFICES ASSUME b < a + d PROVE FALSE
    OBVIOUS
  <2>1. b - d \in i .. a - 1 /\ b - d \in 1 .. n /\ (b - d) + d = b /\ b <= m
    BY <1>1, <1>2, <1>4
  <2>2. s[b] = p[b - d]
    BY <1>1, <2>1
  <2> QED BY <1>2, <1>4, <2>1, <2>2
<1>6. ~(a + d < b)
  <2> SUFFICES ASSUME a + d < b PROVE FALSE
    OBVIOUS
  <2>1. a + d \in i + d .. b - 1 /\ a + d <= m
    BY <1>1, <1>2, <1>4
  <2>2. s[a + d] \in chars
    BY <1>4, <2>1
  <2>3. CASE a <= n
    <3>1. a \in 1 .. n
      BY <1>2, <2>3
    <3> QED BY <1>1, <1>2, <2>2, <2>3, <3>1
  <2>4. CASE a = n + 1
    <3>1. a + d = d + n + 1 /\ d + n < m
      BY <1>1, <2>1, <2>4
    <3> QED BY <1>1, <2>2, <3>1
  <2>5. a <= n \/ a = n + 1
    BY <1>1, <1>2
  <2> QED BY <2>3, <2>4, <2>5
<1>7. a \in Nat /\ b \in Nat
  BY <1>2, <1>4
<1>8. b = a + d
  BY <1>5, <1>6, <1>7
<1> QED BY <1>2, <1>4, <1>8

LEMMA NextOfMoves ==
    ASSUME NEW S, NEW p \in Seq(S), NEW s \in Seq(S), NEW d \in Nat, Part(p, s, d),
           NEW i \in 1 .. Len(p) + 1
    PROVE  NextOf(s, i + d, Space) = NextOf(p, i, Space) + d
<1>1. PICK n \in Nat, m \in Nat : /\ n = Len(p) /\ m = Len(s) /\ d + n <= m
                                  /\ \A j \in 1 .. n : s[j + d] = p[j]
                                  /\ d + n < m => s[d + n + 1] \in Space
  BY DEF Part
<1>2. PICK a \in i .. n + 1 : /\ a = NextOf(p, i, Space) /\ \A j \in i .. a - 1 : p[j] \notin Space
                              /\ a <= n => p[a] \in Space
  BY <1>1, NextOfIs
<1>3. i + d \in 1 .. Len(s) + 1
  BY <1>1
<1>4. PICK b \in i + d .. m + 1 : /\ b = NextOf(s, i + d, Space) /\ \A j \in i + d .. b - 1 : s[j] \notin Space
                                  /\ b <= m => s[b] \in Space
  BY <1>1, <1>3, NextOfIs
<1>5. ~(b < a + d)
  <2> SUFFICES ASSUME b < a + d PROVE FALSE
    OBVIOUS
  <2>1. b - d \in i .. a - 1 /\ b - d \in 1 .. n /\ (b - d) + d = b /\ b <= m
    BY <1>1, <1>2, <1>4
  <2>2. s[b] = p[b - d]
    BY <1>1, <2>1
  <2> QED BY <1>2, <1>4, <2>1, <2>2
<1>6. ~(a + d < b)
  <2> SUFFICES ASSUME a + d < b PROVE FALSE
    OBVIOUS
  <2>1. a + d \in i + d .. b - 1 /\ a + d <= m
    BY <1>1, <1>2, <1>4
  <2>2. s[a + d] \notin Space
    BY <1>4, <2>1
  <2>3. CASE a <= n
    <3>1. a \in 1 .. n
      BY <1>2, <2>3
    <3> QED BY <1>1, <1>2, <2>2, <2>3, <3>1
  <2>4. CASE a = n + 1
    <3>1. a + d = d + n + 1 /\ d + n < m
      BY <1>1, <2>1, <2>4
    <3> QED BY <1>1, <2>2, <3>1
  <2>5. a <= n \/ a = n + 1
    BY <1>1, <1>2
  <2> QED BY <2>3, <2>4, <2>5
<1>7. a \in Nat /\ b \in Nat
  BY <1>2, <1>4
<1>8. b = a + d
  BY <1>5, <1>6, <1>7
<1> QED BY <1>2, <1>4, <1>8

LEMMA WordEndMoves ==
    ASSUME NEW S, NEW p \in Seq(S), NEW s \in Seq(S), NEW d \in Nat, Part(p, s, d),
           NEW i \in 1 .. Len(p) + 1
    PROVE  AtWordEnd(s, i + d) <=> AtWordEnd(p, i)
<1>1. PICK n \in Nat, m \in Nat : /\ n = Len(p) /\ m = Len(s) /\ d + n <= m
                                  /\ \A j \in 1 .. n : s[j + d] = p[j]
                                  /\ d + n < m => s[d + n + 1] \in Space
  BY DEF Part
<1>2. CASE i <= n
  <2>1. i \in 1 .. n /\ i + d <= m /\ ~(i > n) /\ ~(i + d > m)
    BY <1>1, <1>2
  <2> QED BY <1>1, <2>1 DEF AtWordEnd
<1>3. CASE i = n + 1
  <2>1. i + d = d + n + 1 /\ (d + n < m \/ i + d > m) /\ i > n
    BY <1>1, <1>3
  <2> QED BY <1>1, <2>1 DEF AtWordEnd
<1> QED BY <1>1, <1>2, <1>3

LEMMA SubSeqMoves ==
    ASSUME NEW S, NEW p \in Seq(S), NEW s \in Seq(S), NEW d \in Nat, Part(p, s, d),
           NEW from \in 1 .. Len(p) + 1, NEW to \in 0 .. Len(p)
    PROVE  SubSeq(s, from + d, to + d) = SubSeq(p, from, to) /\ SubSeq(p, from, to) \in Seq(S)
<1>1. PICK n \in Nat, m \in Nat, f \in Nat, e \in Nat :
          /\ n = Len(p) /\ m = Len(s) /\ d + n <= m /\ f = from /\ e = to /\ f \in 1 .. n + 1 /\ e <= n
          /\ \A j \in 1 .. n : s[j + d] = p[j]
  BY DEF Part
<1>2. SubSeq(p, f, e) = [k \in 1 .. (1 + e - f) |-> p[f + k - 1]]
  BY <1>1 DEF SubSeq
<1>3. SubSeq(s, f + d, e + d) = [k \in 1 .. (1 + (e + d) - (f + d)) |-> s[(f + d) + k - 1]]
  BY <1>1 DEF SubSeq
<1>4. 1 + (e + d) - (f + d) = 1 + e - f
  BY <1>1
<1>5. ASSUME NEW k \in 1 .. (1 + e - f) PROVE s[(f + d) + k - 1] = p[f + k - 1] /\ p[f + k - 1] \in S
  <2>1. f + k - 1 \in 1 .. n /\ (f + k - 1) + d = (f + d) + k - 1
    BY <1>1
  <2>2. s[(f + k - 1) + d] = p[f + k - 1]
    BY <1>1, <2>1
  <2> QED BY <1>1, <2>1, <2>2
<1>6. SubSeq(s, f + d, e + d) = SubSeq(p, f, e)
  BY <1>2, <1>3, <1>4, <1>5
<1>7. SubSeq(p, f, e) \in Seq(S)
  <2>1. \A k \in f .. e : p[k] \in S
    BY <1>1
  <2> QED BY <1>1, <2>1, SubSeqProperties
<1> QED BY <1>1, <1>6, <1>7

-----------------------------------------------------------------------------
(* Quoted values. *)

\* A character, or an escape and what is escaped.
Width(s, j) == IF s[j] = "\\" THEN 2 ELSE 1
Chunk(s, j) ==
    IF s[j] # "\\" THEN <<s[j]>> ELSE IF s[j + 1] \in {"\"", "\\"} THEN <<s[j + 1]>> ELSE <<s[j], s[j + 1]>>
With(rest, text) == {[v EXCEPT !.text = text \o @] : v \in rest}

BodyFrom(s, body, j) ==
    LET with(text, next) == {[v EXCEPT !.text = text \o @] : v \in body[next]}
    IN  CASE j > Len(s) -> {}
          [] At(s, j, {"\""}) -> {[text |-> <<>>, next |-> j + 1]}
          [] At(s, j, {"\\"}) /\ At(s, j + 1, {"\"", "\\"}) -> with(<<s[j + 1]>>, j + 2)
          [] At(s, j, {"\\"}) /\ ~At(s, j + 1, {"\"", "\\"}) ->
                IF j = Len(s) THEN {} ELSE with(<<s[j], s[j + 1]>>, j + 2)
          [] OTHER -> with(<<s[j]>>, j + 1)
IsBody(s, i, body) == body = [j \in i .. Len(s) + 2 |-> BodyFrom(s, body, j)]

LEMMA BodyCases ==
    ASSUME NEW S, NEW s \in Seq(S), NEW body, NEW j \in Nat
    PROVE  /\ j > Len(s) => BodyFrom(s, body, j) = {}
           /\ j <= Len(s) /\ s[j] = "\"" => BodyFrom(s, body, j) = {[text |-> <<>>, next |-> j + 1]}
           /\ j <= Len(s) /\ s[j] # "\"" /\ j + Width(s, j) > Len(s) + 1 => BodyFrom(s, body, j) = {}
           /\ j <= Len(s) /\ s[j] # "\"" /\ j + Width(s, j) <= Len(s) + 1 =>
                BodyFrom(s, body, j) = With(body[j + Width(s, j)], Chunk(s, j))
<1> DEFINE beyond == j > Len(s)
           quote == At(s, j, {"\""})
           escape == At(s, j, {"\\"})
           escaped == At(s, j + 1, {"\"", "\\"})
           one == With(body[j + 2], <<s[j + 1]>>)
           two == IF j = Len(s) THEN {} ELSE With(body[j + 2], <<s[j], s[j + 1]>>)
           plain == With(body[j + 1], <<s[j]>>)
           end == {[text |-> <<>>, next |-> j + 1]}
<1>1. PICK n \in Nat : n = Len(s)
  OBVIOUS
<1>2. BodyFrom(s, body, j) =
          CASE beyond -> {} [] quote -> end [] escape /\ escaped -> one [] escape /\ ~escaped -> two
            [] OTHER -> plain
  BY Zenon DEF BodyFrom, With
<1>3. /\ beyond <=> ~(j <= n)
      /\ quote <=> j <= n /\ s[j] = "\""
      /\ escape <=> j <= n /\ s[j] = "\\"
      /\ escaped <=> j + 1 <= n /\ s[j + 1] \in {"\"", "\\"}
  BY <1>1 DEF At
<1> DEFINE w == Width(s, j)
           c == Chunk(s, j)
           body0 == BodyFrom(s, body, j)
<1>4. /\ escape => w = 2
      /\ j <= n /\ ~escape => w = 1 /\ c = <<s[j]>>
      /\ escape /\ escaped => c = <<s[j + 1]>>
      /\ escape /\ ~escaped /\ j + 1 <= n => c = <<s[j], s[j + 1]>>
  BY <1>3 DEF Width, Chunk
<1>5. (j = n => two = {}) /\ (j # n => two = With(body[j + 2], <<s[j], s[j + 1]>>))
  BY <1>1
<1>6. s[j] = "\\" => s[j] # "\""
  OBVIOUS
<1> HIDE DEF beyond, quote, escape, escaped, one, two, plain, end, w, c, body0
<1>7. (beyond => ~quote /\ ~escape) /\ (quote => ~escape)
  BY <1>3, <1>6
<1>8. beyond => body0 = {}
  BY <1>2, <1>7, Zenon DEF body0
<1>9. quote => body0 = end
  BY <1>2, <1>7, Zenon DEF body0
<1>10. escape /\ escaped => body0 = one
  BY <1>2, <1>7, Zenon DEF body0
<1>11. escape /\ ~escaped => body0 = two
  BY <1>2, <1>7, Zenon DEF body0
<1>12. ~beyond /\ ~quote /\ ~escape => body0 = plain
  BY <1>2, Zenon DEF body0
<1>13. ASSUME escape /\ escaped PROVE j + w <= n + 1 /\ body0 = With(body[j + w], c)
  <2>1. w = 2 /\ j + 1 <= n
    BY <1>3, <1>4, <1>13
  <2>2. j + w <= n + 1
    BY <1>1, <2>1
  <2>3. body0 = With(body[j + 2], c)
    BY <1>4, <1>10, <1>13, Zenon DEF one
  <2> QED BY <2>1, <2>2, <2>3
<1>14. ASSUME escape /\ ~escaped /\ j = n PROVE j + w > n + 1 /\ body0 = {}
  <2>1. w = 2
    BY <1>4, <1>14
  <2>2. j + w > n + 1
    BY <1>1, <1>14, <2>1
  <2>3. body0 = {}
    BY <1>5, <1>11, <1>14
  <2> QED BY <2>2, <2>3
<1>15. ASSUME escape /\ ~escaped /\ j # n PROVE j + w <= n + 1 /\ body0 = With(body[j + w], c)
  <2>1. w = 2 /\ j <= n
    BY <1>3, <1>4, <1>15
  <2>2. j + 1 <= n /\ j + w <= n + 1
    BY <1>1, <1>15, <2>1
  <2>3. body0 = With(body[j + 2], c)
    BY <1>4, <1>5, <1>11, <1>15, <2>2, Zenon
  <2> QED BY <2>1, <2>2, <2>3
<1>16. ASSUME ~beyond /\ ~quote /\ ~escape PROVE j + w <= n + 1 /\ body0 = With(body[j + w], c)
  <2>1. w = 1 /\ j <= n
    BY <1>3, <1>4, <1>16
  <2>2. j + w <= n + 1
    BY <1>1, <2>1
  <2>3. body0 = With(body[j + 1], c)
    BY <1>3, <1>4, <1>12, <1>16, <2>1, Zenon DEF plain
  <2> QED BY <2>1, <2>2, <2>3
<1>17. j + w <= n + 1 => ~(j + w > n + 1)
  <2>1. w \in Nat
    BY DEF w, Width
  <2> QED BY <1>1, <2>1
<1>18. ~(j <= n) <=> j > n
  BY <1>1
<1>19. j > n => body0 = {}
  BY <1>3, <1>8, <1>18
<1>20. j <= n /\ s[j] = "\"" => body0 = end
  BY <1>3, <1>9
<1>21. j <= n /\ s[j] # "\"" => ~beyond /\ ~quote
  BY <1>3
<1>22. j <= n /\ s[j] # "\"" /\ j + w > n + 1 => body0 = {}
  BY <1>13, <1>14, <1>15, <1>16, <1>17, <1>21, Zenon
<1>23. j <= n /\ s[j] # "\"" /\ j + w <= n + 1 => body0 = With(body[j + w], c)
  BY <1>13, <1>14, <1>15, <1>16, <1>17, <1>21, Zenon
<1> QED BY <1>1, <1>19, <1>20, <1>22, <1>23, Zenon DEF w, c, body0, end

LEMMA WidthIs == ASSUME NEW s, NEW j PROVE Width(s, j) \in 1 .. 2
BY DEF Width

LEMMA BodyAgrees ==
    ASSUME NEW S, NEW s \in Seq(S), NEW g, NEW h, NEW j \in Nat,
           \A k \in j + 1 .. Len(s) + 2 : g[k] = h[k]
    PROVE  BodyFrom(s, g, j) = BodyFrom(s, h, j)
<1>1. PICK n \in Nat : n = Len(s)
  OBVIOUS
<1>2. CASE j > n
  BY <1>1, <1>2, BodyCases
<1>3. CASE j <= n /\ s[j] = "\""
  <2>1. BodyFrom(s, g, j) = {[text |-> <<>>, next |-> j + 1]} /\ BodyFrom(s, h, j) = {[text |-> <<>>, next |-> j + 1]}
    BY <1>1, <1>3, BodyCases
  <2> QED BY <2>1
<1>4. CASE j <= n /\ s[j] # "\"" /\ j + Width(s, j) > n + 1
  <2>1. BodyFrom(s, g, j) = {} /\ BodyFrom(s, h, j) = {}
    BY <1>1, <1>4, BodyCases
  <2> QED BY <2>1
<1>5. CASE j <= n /\ s[j] # "\"" /\ j + Width(s, j) <= n + 1
  <2>1. j + Width(s, j) \in j + 1 .. n + 2
    <3>1. PICK w \in 1 .. 2 : w = Width(s, j)
      BY WidthIs
    <3>2. j + w <= n + 1
      BY <1>5, <3>1
    <3>3. j + w \in j + 1 .. n + 2
      BY <1>1, <3>1, <3>2
    <3> QED BY <3>1, <3>3
  <2>2. g[j + Width(s, j)] = h[j + Width(s, j)]
    BY <1>1, <2>1
  <2>3. /\ BodyFrom(s, g, j) = With(g[j + Width(s, j)], Chunk(s, j))
        /\ BodyFrom(s, h, j) = With(h[j + Width(s, j)], Chunk(s, j))
    BY <1>1, <1>5, BodyCases
  <2> QED BY <2>2, <2>3
<1>6. j + Width(s, j) > n + 1 \/ j + Width(s, j) <= n + 1
  <2>1. PICK w \in 1 .. 2 : w = Width(s, j)
    BY WidthIs
  <2>2. j + w > n + 1 \/ j + w <= n + 1
    BY <1>1, <2>1
  <2> QED BY <2>1, <2>2
<1>7. j > n \/ j <= n
  BY <1>1
<1> QED BY <1>2, <1>3, <1>4, <1>5, <1>6, <1>7

LEMMA BodyExists ==
    ASSUME NEW S, NEW s \in Seq(S), NEW i \in 1 .. Len(s) + 2
    PROVE  \E body : IsBody(s, i, body)
<1>1. PICK n \in Nat : n = Len(s) + 2
  OBVIOUS
<1> DEFINE Solves(g, k) == \A j \in k .. n : g[j] = BodyFrom(s, g, j)
           Good == {k \in 1 .. n : \E g : Solves(g, k)}
<1>2. ASSUME NEW k \in 1 .. n, \A j \in k + 1 .. n : j \in Good
      PROVE  k \in Good
  <2>1. PICK g : \A j \in k + 1 .. n : g[j] = BodyFrom(s, g, j)
    <3>1. CASE k = n
      BY <3>1
    <3>2. CASE k # n
      <4>1. k + 1 \in k + 1 .. n
        BY <3>2
      <4> QED BY <1>2, <4>1
    <3> QED BY <3>1, <3>2
  <2> DEFINE h == [j \in k .. n |-> IF j = k THEN BodyFrom(s, g, k) ELSE g[j]]
  <2>2. \A j \in k + 1 .. n : h[j] = g[j]
    OBVIOUS
  <2>3. ASSUME NEW j \in k .. n PROVE BodyFrom(s, h, j) = BodyFrom(s, g, j)
    <3> HIDE DEF h
    <3>1. j \in Nat /\ \A l \in j + 1 .. Len(s) + 2 : h[l] = g[l]
      BY <1>1, <2>2
    <3> QED BY <3>1, BodyAgrees
  <2>4. \A j \in k .. n : h[j] = IF j = k THEN BodyFrom(s, g, k) ELSE g[j]
    OBVIOUS
  <2> HIDE DEF h
  <2>5. ASSUME NEW j \in k .. n PROVE h[j] = BodyFrom(s, h, j)
    <3>1. j = k \/ j \in k + 1 .. n
      OBVIOUS
    <3> QED BY <2>1, <2>3, <2>4, <3>1
  <2> QED BY <2>5
<1>3. i \in Good
  <2> HIDE DEF Good
  <2>1. n \in Nat /\ i \in 1 .. n
    BY <1>1
  <2> QED BY <1>2, <2>1, FromTheEnd
<1>4. PICK g : \A j \in i .. n : g[j] = BodyFrom(s, g, j)
  BY <1>3
<1> DEFINE f == [j \in i .. n |-> g[j]]
<1>5. ASSUME NEW j \in i .. n PROVE BodyFrom(s, f, j) = BodyFrom(s, g, j)
  <2>1. \A k \in i .. n : f[k] = g[k]
    OBVIOUS
  <2> HIDE DEF f
  <2>2. j \in Nat /\ \A k \in j + 1 .. Len(s) + 2 : f[k] = g[k]
    BY <1>1, <2>1
  <2> QED BY <2>2, BodyAgrees
<1>6. f = [j \in i .. n |-> BodyFrom(s, f, j)]
  <2>1. \A j \in i .. n : g[j] = BodyFrom(s, f, j)
    <3> HIDE DEF f
    <3> QED BY <1>4, <1>5
  <2> HIDE DEF f
  <2>2. f = [j \in i .. n |-> g[j]]
    BY DEF f
  <2> QED BY <2>1, <2>2
<1> HIDE DEF f
<1> QED BY <1>1, <1>6 DEF IsBody

LEMMA ReadIs ==
    ASSUME NEW S, NEW s \in Seq(S), NEW i \in 1 .. Len(s) + 2
    PROVE  \E body : IsBody(s, i, body) /\ ReadQuotedValue(s, i) = body[i]
<1>1. \E body : IsBody(s, i, body)
  BY BodyExists
<1> QED BY <1>1 DEF ReadQuotedValue, IsBody, BodyFrom

\* There is one value, the same in the text, or none, and then none in the text
\* if it ends there.
Values(S) == [text : Seq(S), next : Nat]
Shifted(v, d) == [v EXCEPT !.next = @ + d]
Moved(found, moved, d, behind) ==
    /\ \A v \in found : moved = {Shifted(v, d)}
    /\ behind = 0 /\ found = {} => moved = {}

LEMMA ValueFields ==
    ASSUME NEW a, NEW k, NEW b, NEW l, NEW v, v = [text |-> a, next |-> k]
    PROVE  /\ [v EXCEPT !.text = b] = [text |-> b, next |-> k]
           /\ [v EXCEPT !.next = l] = [text |-> a, next |-> l]
           /\ v.text = a /\ v.next = k
OBVIOUS

LEMMA TextChanged ==
    ASSUME NEW a, NEW k, NEW text, NEW v, v = [text |-> a, next |-> k]
    PROVE  [v EXCEPT !.text = text \o @] = [text |-> text \o a, next |-> k]
<1> DEFINE x == text \o a
           y == text \o v.text
<1>1. x = y
  BY ValueFields
<1>2. [v EXCEPT !.text = y] = [text |-> y, next |-> k]
  <2> HIDE DEF y
  <2> QED BY ValueFields
<1> QED BY <1>1, <1>2

LEMMA NextChanged ==
    ASSUME NEW a, NEW k, NEW d, NEW v, v = [text |-> a, next |-> k]
    PROVE  Shifted(v, d) = [text |-> a, next |-> k + d]
<1> DEFINE x == k + d
           y == v.next + d
<1>1. x = y
  BY ValueFields
<1>2. [v EXCEPT !.next = y] = [text |-> a, next |-> y]
  <2> HIDE DEF y
  <2> QED BY ValueFields
<1> QED BY <1>1, <1>2 DEF Shifted

LEMMA WithMoved ==
    ASSUME NEW S, NEW found, found \in SUBSET Values(S), NEW moved, NEW d \in Nat, NEW behind,
           Moved(found, moved, d, behind), NEW text \in Seq(S)
    PROVE  Moved(With(found, text), With(moved, text), d, behind) /\ With(found, text) \in SUBSET Values(S)
<1>1. ASSUME NEW v \in Values(S)
      PROVE  /\ [v EXCEPT !.text = text \o @] \in Values(S)
             /\ [v EXCEPT !.text = text \o @].next = v.next
             /\ Shifted([v EXCEPT !.text = text \o @], d) = [Shifted(v, d) EXCEPT !.text = text \o @]
  <2>1. PICK a \in Seq(S), k \in Nat : v = [text |-> a, next |-> k]
    BY DEF Values
  <2>2. [v EXCEPT !.text = text \o @] = [text |-> text \o a, next |-> k]
    BY <2>1, TextChanged
  <2>3. Shifted(v, d) = [text |-> a, next |-> k + d]
    BY <2>1, NextChanged
  <2>4. [Shifted(v, d) EXCEPT !.text = text \o @] = [text |-> text \o a, next |-> k + d]
    <3> DEFINE u == Shifted(v, d)
    <3>1. u = [text |-> a, next |-> k + d]
      BY <2>3
    <3> HIDE DEF u
    <3>2. [u EXCEPT !.text = text \o @] = [text |-> text \o a, next |-> k + d]
      BY <3>1, TextChanged
    <3> QED BY <3>2 DEF u
  <2>5. Shifted([v EXCEPT !.text = text \o @], d) = [text |-> text \o a, next |-> k + d]
    BY <2>2, NextChanged
  <2>6. text \o a \in Seq(S)
    OBVIOUS
  <2> QED BY <2>1, <2>2, <2>4, <2>5, <2>6 DEF Values
<1>2. ASSUME NEW w \in With(found, text) PROVE With(moved, text) = {Shifted(w, d)} /\ w \in Values(S)
  <2>1. PICK v \in found : w = [v EXCEPT !.text = text \o @]
    BY DEF With
  <2>2. moved = {Shifted(v, d)} /\ v \in Values(S)
    BY DEF Moved
  <2>3. With(moved, text) = {[Shifted(v, d) EXCEPT !.text = text \o @]}
    BY <2>2 DEF With
  <2> QED BY <1>1, <2>1, <2>2, <2>3
<1>3. behind = 0 /\ With(found, text) = {} => With(moved, text) = {}
  <2>1. CASE found = {}
    BY <2>1 DEF With, Moved
  <2>2. CASE found # {}
    BY <2>2 DEF With
  <2> QED BY <2>1, <2>2
<1> QED BY <1>2, <1>3 DEF Moved

LEMMA ChunkMoves ==
    ASSUME NEW S, NEW p \in Seq(S), NEW s \in Seq(S), NEW d \in Nat, Part(p, s, d),
           NEW j \in 1 .. Len(p)
    PROVE  /\ s[j + d] = p[j] /\ Width(s, j + d) = Width(p, j)
           /\ j + Width(p, j) <= Len(p) + 1 => Chunk(s, j + d) = Chunk(p, j) /\ Chunk(p, j) \in Seq(S)
<1>1. s[j + d] = p[j] /\ p[j] \in S
  BY DEF Part
<1>2. CASE p[j] # "\\"
  BY <1>1, <1>2 DEF Width, Chunk
<1>3. CASE p[j] = "\\"
  <2>1. Width(p, j) = 2 /\ Width(s, j + d) = 2
    BY <1>1, <1>3 DEF Width
  <2>2. ASSUME j + 2 <= Len(p) + 1 PROVE Chunk(s, j + d) = Chunk(p, j) /\ Chunk(p, j) \in Seq(S)
    <3>1. j + 1 \in 1 .. Len(p) /\ (j + 1) + d = (j + d) + 1
      BY <2>2
    <3>2. s[(j + d) + 1] = p[j + 1] /\ p[j + 1] \in S
      BY <3>1 DEF Part
    <3> DEFINE c == p[j + 1]
    <3>3. Chunk(p, j) = IF c \in {"\"", "\\"} THEN <<c>> ELSE <<p[j], c>>
      BY <1>3 DEF Chunk
    <3>4. Chunk(s, j + d) = IF c \in {"\"", "\\"} THEN <<c>> ELSE <<p[j], c>>
      BY <1>1, <1>3, <3>2 DEF Chunk
    <3>5. <<c>> \in Seq(S) /\ <<p[j], c>> \in Seq(S)
      BY <1>1, <3>2
    <3> HIDE DEF c
    <3>6. CASE c \in {"\"", "\\"}
      BY <3>3, <3>4, <3>5, <3>6, Zenon
    <3>7. CASE c \notin {"\"", "\\"}
      BY <3>3, <3>4, <3>5, <3>7, Zenon
    <3> QED BY <3>6, <3>7
  <2> QED BY <1>1, <2>1, <2>2
<1> QED BY <1>2, <1>3

LEMMA BodyMoves ==
    ASSUME NEW S, NEW p \in Seq(S), NEW s \in Seq(S), NEW d \in Nat, Part(p, s, d),
           NEW i \in 1 .. Len(p) + 1,
           NEW body, IsBody(p, i, body), NEW moved, IsBody(s, i + d, moved)
    PROVE  \A j \in i .. Len(p) + 1 :
               /\ Moved(body[j], moved[j + d], d, Behind(p, s, d)) /\ body[j] \in SUBSET Values(S)
               /\ \A v \in body[j] : v.next \in j + 1 .. Len(p) + 1
<1>1. PICK n \in Nat, m \in Nat : n = Len(p) /\ m = Len(s) /\ d + n <= m /\ Behind(p, s, d) = m - (d + n)
  BY DEF Part, Behind
<1> DEFINE behind == Behind(p, s, d)
<1> HIDE DEF behind
<1>2. behind = 0 <=> d + n = m
  BY <1>1 DEF behind
<1> DEFINE Good == {j \in 1 .. n + 1 : j >= i =>
                       /\ Moved(body[j], moved[j + d], d, behind) /\ body[j] \in SUBSET Values(S)
                       /\ \A v \in body[j] : v.next \in j + 1 .. n + 1}
<1>3. ASSUME NEW j \in 1 .. n + 1, \A k \in j + 1 .. n + 1 : k \in Good PROVE j \in Good
  <2> SUFFICES ASSUME j >= i
               PROVE  /\ Moved(body[j], moved[j + d], d, behind) /\ body[j] \in SUBSET Values(S)
                      /\ \A v \in body[j] : v.next \in j + 1 .. n + 1
    OBVIOUS
  <2>1. body[j] = BodyFrom(p, body, j)
    <3>1. j \in i .. Len(p) + 2
      BY <1>1
    <3> QED BY <3>1 DEF IsBody
  <2>2. moved[j + d] = BodyFrom(s, moved, j + d)
    <3>1. j + d \in i + d .. Len(s) + 2
      BY <1>1
    <3> QED BY <3>1 DEF IsBody
  <2>3. CASE j = n + 1
    <3>1. body[j] = {}
      <4>1. j > Len(p) /\ j \in Nat
        BY <1>1, <2>3
      <4> QED BY <2>1, <4>1, BodyCases
    <3>2. behind = 0 => moved[j + d] = {}
      <4>1. behind = 0 => j + d > m /\ j + d \in Nat
        BY <1>1, <1>2, <2>3
      <4> QED BY <1>1, <2>2, <4>1, BodyCases
    <3> QED BY <3>1, <3>2 DEF Moved
  <2>4. CASE j <= n
    <3> DEFINE w == Width(p, j)
               c == Chunk(p, j)
    <3> HIDE DEF w, c
    <3>1. j \in 1 .. Len(p)
      BY <1>1, <2>4
    <3>2. s[j + d] = p[j] /\ Width(s, j + d) = w /\ (j + w <= n + 1 => Chunk(s, j + d) = c /\ c \in Seq(S))
      <4>1. /\ s[j + d] = p[j] /\ Width(s, j + d) = Width(p, j)
            /\ j + Width(p, j) <= Len(p) + 1 => Chunk(s, j + d) = Chunk(p, j) /\ Chunk(p, j) \in Seq(S)
        BY <3>1, ChunkMoves
      <4> QED BY <1>1, <4>1 DEF w, c
    <3>3. w \in 1 .. 2
      BY WidthIs DEF w
    <3>4. j + d \in Nat /\ j \in Nat /\ j + d <= m
      BY <1>1, <2>4
    <3>5. CASE p[j] = "\""
      <4>1. body[j] = {[text |-> <<>>, next |-> j + 1]}
        BY <1>1, <2>1, <2>4, <3>4, <3>5, BodyCases
      <4>2. moved[j + d] = {[text |-> <<>>, next |-> (j + d) + 1]}
        BY <1>1, <2>2, <3>2, <3>4, <3>5, BodyCases
      <4>3. (j + d) + 1 = (j + 1) + d /\ j + 1 \in j + 1 .. n + 1 /\ j + 1 \in Nat
        BY <2>4
      <4>4. Shifted([text |-> <<>>, next |-> j + 1], d) = [text |-> <<>>, next |-> (j + d) + 1]
        BY <4>3 DEF Shifted
      <4>5. [text |-> <<>>, next |-> j + 1] \in Values(S)
        BY <4>3 DEF Values
      <4> QED BY <4>1, <4>2, <4>3, <4>4, <4>5 DEF Moved
    <3>6. CASE p[j] # "\"" /\ j + w > n + 1
      <4>1. body[j] = {}
        BY <1>1, <2>1, <2>4, <3>4, <3>6, BodyCases DEF w
      <4>4. j + w > n + 1
        BY <3>6
      <4>2. behind = 0 => (j + d) + w > m + 1
        BY <1>1, <1>2, <3>3, <3>4, <4>4
      <4>3. behind = 0 => moved[j + d] = {}
        BY <1>1, <2>2, <3>2, <3>4, <3>6, <4>2, BodyCases
      <4> QED BY <4>1, <4>3 DEF Moved
    <3>7. CASE p[j] # "\"" /\ j + w <= n + 1
      <4>1. body[j] = With(body[j + w], c)
        BY <1>1, <2>1, <2>4, <3>4, <3>7, BodyCases DEF w, c
      <4>8. j + w <= n + 1
        BY <3>7
      <4>9. c \in Seq(S) /\ Chunk(s, j + d) = c
        BY <3>2, <4>8
      <4>2. (j + d) + w <= m + 1 /\ (j + d) + w = (j + w) + d
        BY <1>1, <3>3, <3>4, <4>8
      <4>3. moved[j + d] = With(moved[(j + w) + d], c)
        BY <1>1, <2>2, <3>2, <3>4, <3>7, <4>2, <4>9, BodyCases
      <4>4. j + w \in j + 1 .. n + 1 /\ j + w >= i
        <5>1. i \in Nat
          OBVIOUS
        <5> QED BY <1>1, <3>3, <3>4, <4>8, <5>1
      <4>5. /\ Moved(body[j + w], moved[(j + w) + d], d, behind) /\ body[j + w] \in SUBSET Values(S)
            /\ \A v \in body[j + w] : v.next \in (j + w) + 1 .. n + 1
        BY <1>3, <4>4
      <4>6. Moved(body[j], moved[j + d], d, behind) /\ body[j] \in SUBSET Values(S)
        <5> DEFINE found == body[j + w]
                   there == moved[(j + w) + d]
        <5>1. found \in SUBSET Values(S) /\ Moved(found, there, d, behind)
          BY <4>5
        <5>2. body[j] = With(found, c) /\ moved[j + d] = With(there, c)
          BY <4>1, <4>3
        <5> HIDE DEF found, there
        <5>3. Moved(With(found, c), With(there, c), d, behind) /\ With(found, c) \in SUBSET Values(S)
          BY <1>2, <4>9, <5>1, WithMoved
        <5> QED BY <5>2, <5>3
      <4>7. ASSUME NEW v \in body[j] PROVE v.next \in j + 1 .. n + 1
        <5>1. PICK u \in body[j + w] : v = [u EXCEPT !.text = c \o @]
          BY <4>1 DEF With
        <5>2. u \in Values(S) /\ u.next \in (j + w) + 1 .. n + 1
          BY <4>5
        <5>3. v.next = u.next
          BY <5>1, <5>2 DEF Values
        <5> QED BY <3>3, <5>2, <5>3
      <4> QED BY <4>6, <4>7
    <3>8. j + w > n + 1 \/ j + w <= n + 1
      BY <3>3
    <3> QED BY <3>5, <3>6, <3>7, <3>8
  <2> QED BY <2>3, <2>4
<1>4. \A j \in 1 .. n + 1 : j \in Good
  <2> HIDE DEF Good
  <2>1. n + 1 \in Nat
    OBVIOUS
  <2> QED BY <1>3, <2>1, FromTheEnd
<1>5. ASSUME NEW j \in i .. Len(p) + 1
      PROVE  /\ Moved(body[j], moved[j + d], d, behind) /\ body[j] \in SUBSET Values(S)
             /\ \A v \in body[j] : v.next \in j + 1 .. Len(p) + 1
  <2>1. j \in 1 .. n + 1 /\ j >= i
    BY <1>1
  <2>2. j \in Good
    BY <1>4, <2>1
  <2> QED BY <1>1, <2>1, <2>2
<1> QED BY <1>5 DEF behind

LEMMA ReadMoves ==
    ASSUME NEW S, NEW p \in Seq(S), NEW s \in Seq(S), NEW d \in Nat, Part(p, s, d),
           NEW i \in 1 .. Len(p) + 1
    PROVE  /\ Moved(ReadQuotedValue(p, i), ReadQuotedValue(s, i + d), d, Behind(p, s, d))
           /\ ReadQuotedValue(p, i) \in SUBSET Values(S)
           /\ \A v \in ReadQuotedValue(p, i) : v.next \in i + 1 .. Len(p) + 1
<1>1. i \in 1 .. Len(p) + 2 /\ i + d \in 1 .. Len(s) + 2 /\ i \in i .. Len(p) + 1
  <2>1. d + Len(p) <= Len(s) /\ Len(p) \in Nat /\ Len(s) \in Nat
    BY DEF Part
  <2> QED BY <2>1
<1>2. PICK body : IsBody(p, i, body) /\ ReadQuotedValue(p, i) = body[i]
  BY <1>1, ReadIs
<1>3. PICK moved : IsBody(s, i + d, moved) /\ ReadQuotedValue(s, i + d) = moved[i + d]
  BY <1>1, ReadIs
<1> QED BY <1>1, <1>2, <1>3, BodyMoves

-----------------------------------------------------------------------------
(* A pair. *)

LEMMA AtMoves ==
    ASSUME NEW S, NEW p \in Seq(S), NEW s \in Seq(S), NEW d \in Nat, Part(p, s, d),
           NEW i \in 1 .. Len(p) + 1, NEW chars, chars \cap Space = {}
    PROVE  At(s, i + d, chars) <=> At(p, i, chars)
<1>1. PICK n \in Nat, m \in Nat : /\ n = Len(p) /\ m = Len(s) /\ d + n <= m
                                  /\ \A j \in 1 .. n : s[j + d] = p[j]
                                  /\ d + n < m => s[d + n + 1] \in Space
  BY DEF Part
<1>2. CASE i <= n
  <2>1. i \in 1 .. n /\ i + d <= m
    BY <1>1, <1>2
  <2> QED BY <1>1, <1>2, <2>1 DEF At
<1>3. CASE i = n + 1
  <2>1. i + d = d + n + 1 /\ (d + n < m \/ ~(i + d <= m)) /\ ~(i <= n)
    BY <1>1, <1>3
  <2> QED BY <1>1, <2>1 DEF At
<1> QED BY <1>1, <1>2, <1>3

LEMMA ValueMoves ==
    ASSUME NEW S, NEW p \in Seq(S), NEW s \in Seq(S), NEW d \in Nat, Part(p, s, d),
           NEW i \in 1 .. Len(p) + 1
    PROVE  /\ Moved(ValueAt(p, i), ValueAt(s, i + d), d, Behind(p, s, d))
           /\ ValueAt(p, i) \in SUBSET Values(S)
           /\ \A v \in ValueAt(p, i) : v.next \in i .. Len(p) + 1
<1>1. PICK n \in Nat : n = Len(p) /\ i \in 1 .. n + 1
  OBVIOUS
<1>2. At(s, i + d, {"\""}) <=> At(p, i, {"\""})
  <2>1. {"\""} \cap Space = {}
    BY CharactersAssumption
  <2> QED BY <2>1, AtMoves
<1>3. CASE At(p, i, {"\""})
  <2>1. i + 1 \in 1 .. Len(p) + 1 /\ (i + 1) + d = (i + d) + 1
    <3>1. i <= n
      BY <1>1, <1>3 DEF At
    <3> QED BY <1>1, <3>1
  <2>2. ValueAt(p, i) = ReadQuotedValue(p, i + 1) /\ ValueAt(s, i + d) = ReadQuotedValue(s, (i + 1) + d)
    BY <1>2, <1>3, <2>1 DEF ValueAt
  <2>3. /\ Moved(ReadQuotedValue(p, i + 1), ReadQuotedValue(s, (i + 1) + d), d, Behind(p, s, d))
        /\ ReadQuotedValue(p, i + 1) \in SUBSET Values(S)
        /\ \A v \in ReadQuotedValue(p, i + 1) : v.next \in (i + 1) + 1 .. Len(p) + 1
    BY <2>1, ReadMoves
  <2>4. \A next \in (i + 1) + 1 .. Len(p) + 1 : next \in i .. Len(p) + 1
    BY <1>1
  <2> QED BY <2>2, <2>3, <2>4
<1>4. CASE ~At(p, i, {"\""})
  <2>1. PICK end \in i .. n + 1 : end = NextOf(p, i, Space)
    BY <1>1, NextOfIs
  <2>2. NextOf(s, i + d, Space) = end + d
    BY <2>1, NextOfMoves
  <2>3. end - 1 \in 0 .. Len(p) /\ (end - 1) + d = (end + d) - 1 /\ end \in Nat
    BY <1>1, <2>1
  <2>4. /\ SubSeq(s, i + d, (end - 1) + d) = SubSeq(p, i, end - 1)
        /\ SubSeq(p, i, end - 1) \in Seq(S)
    BY <2>3, SubSeqMoves
  <2> DEFINE text == SubSeq(p, i, end - 1)
             v == [text |-> text, next |-> end]
  <2>5. ValueAt(p, i) = {v}
    BY <1>4, <2>1 DEF ValueAt, SkipToWhitespace
  <2>6. ValueAt(s, i + d) = {[text |-> text, next |-> end + d]}
    BY <1>2, <1>4, <2>2, <2>3, <2>4 DEF ValueAt, SkipToWhitespace
  <2>7. text \in Seq(S)
    BY <2>4
  <2> HIDE DEF text
  <2>8. v \in Values(S) /\ v.next = end /\ Shifted(v, d) = [text |-> text, next |-> end + d]
    BY <2>3, <2>7, NextChanged DEF Values
  <2> HIDE DEF v
  <2> QED BY <1>1, <2>1, <2>5, <2>6, <2>8 DEF Moved
<1> QED BY <1>3, <1>4

KeyValues(S) == [key : Seq(S), value : Seq(S)]
Keyed(key, values) == {[pairs |-> <<[key |-> key, value |-> v.text]>>, next |-> v.next] : v \in values}

LEMMA KeyedTyped ==
    ASSUME NEW S, NEW found, found \in SUBSET Values(S), NEW key \in Seq(S), NEW t \in Keyed(key, found)
    PROVE  \E v \in found, pairs \in Seq(KeyValues(S)) :
             /\ t = [pairs |-> pairs, next |-> v.next] /\ v.next \in Nat
             /\ pairs = <<[key |-> key, value |-> v.text]>>
<1>1. PICK v \in found : t = [pairs |-> <<[key |-> key, value |-> v.text]>>, next |-> v.next]
  BY DEF Keyed
<1>2. PICK a \in Seq(S), k \in Nat : v = [text |-> a, next |-> k]
  BY DEF Values
<1>3. v.text = a /\ v.next = k
  BY <1>2
<1> DEFINE kv == [key |-> key, value |-> a]
<1>4. kv \in KeyValues(S)
  BY DEF KeyValues
<1>5. t = [pairs |-> <<kv>>, next |-> v.next] /\ v.next \in Nat /\ kv = [key |-> key, value |-> v.text]
  BY <1>1, <1>3
<1> HIDE DEF kv
<1>6. <<kv>> \in Seq(KeyValues(S))
  BY <1>4
<1> QED BY <1>5, <1>6

LEMMA KeyedMoved ==
    ASSUME NEW S, NEW found, found \in SUBSET Values(S), NEW moved, NEW d \in Nat, NEW behind,
           Moved(found, moved, d, behind), NEW key \in Seq(S)
    PROVE  Moved(Keyed(key, found), Keyed(key, moved), d, behind)
<1>1. ASSUME NEW t \in Keyed(key, found)
      PROVE  Keyed(key, moved) = {Shifted(t, d)}
  <2>1. PICK v \in found, pairs \in Seq(KeyValues(S)) :
          /\ t = [pairs |-> pairs, next |-> v.next] /\ pairs = <<[key |-> key, value |-> v.text]>>
    BY KeyedTyped
  <2>2. PICK a \in Seq(S), k \in Nat : v = [text |-> a, next |-> k]
    BY DEF Values
  <2>3. v.text = a /\ v.next = k
    BY <2>2
  <2> DEFINE u == [text |-> a, next |-> k + d]
  <2>4. moved = {u}
    BY <2>2, NextChanged DEF Moved
  <2>5. u.text = a /\ u.next = k + d
    OBVIOUS
  <2> HIDE DEF u
  <2>6. Keyed(key, moved) = {[pairs |-> pairs, next |-> k + d]}
    BY <2>1, <2>3, <2>4, <2>5 DEF Keyed
  <2>7. t = [pairs |-> pairs, next |-> k]
    BY <2>1, <2>3
  <2>8. Shifted(t, d) = [pairs |-> pairs, next |-> k + d]
    BY <2>7 DEF Shifted
  <2> QED BY <2>6, <2>8
<1>2. behind = 0 /\ Keyed(key, found) = {} => Keyed(key, moved) = {}
  <2>1. CASE found = {}
    BY <2>1 DEF Keyed, Moved
  <2>2. CASE found # {}
    BY <2>2 DEF Keyed
  <2> QED BY <2>1, <2>2
<1> QED BY <1>1, <1>2 DEF Moved

LEMMA PairMoves ==
    ASSUME NEW S, {"t", "r", "u", "e"} \subseteq S,
           NEW p \in Seq(S), NEW s \in Seq(S), NEW d \in Nat, Part(p, s, d),
           NEW i \in 1 .. Len(p), p[i] \notin Space
    PROVE  /\ Moved(PairAt(p, i), PairAt(s, i + d), d, Behind(p, s, d))
           /\ \A t \in PairAt(p, i) : t.pairs \in Seq(KeyValues(S)) /\ t.next \in i + 1 .. Len(p) + 1
<1>1. PICK n \in Nat, m \in Nat : /\ n = Len(p) /\ m = Len(s) /\ d + n <= m /\ i \in 1 .. n
                                  /\ \A j \in 1 .. n : s[j + d] = p[j]
  BY DEF Part
<1>2. i \in 1 .. Len(p) + 1 /\ i \in 1 .. n + 1
  BY <1>1
<1>3. PICK stop \in i .. n + 1 : /\ stop = RunEnd(p, i, KeyContinue)
                                 /\ stop <= n => p[stop] \notin KeyContinue
  BY <1>1, <1>2, RunEndIs
<1>4. RunEnd(s, i + d, KeyContinue) = stop + d
  <2>1. KeyContinue \cap Space = {}
    BY CharactersAssumption DEF KeyContinue
  <2> QED BY <1>2, <1>3, <2>1, RunEndMoves
<1>5. stop \in 1 .. Len(p) + 1 /\ stop \in Nat
  BY <1>1, <1>3
<1>6. PICK end \in stop .. n + 1 : /\ end = NextOf(p, stop, Space) /\ (end <= n => p[end] \in Space)
  BY <1>1, <1>5, NextOfIs
<1>7. NextOf(s, stop + d, Space) = end + d
  BY <1>5, <1>6, NextOfMoves
<1>8. AtWordEnd(s, stop + d) <=> AtWordEnd(p, stop)
  BY <1>5, WordEndMoves
<1>9. s[i + d] = p[i]
  BY <1>1
<1>10. ~AtWordEnd(p, stop) => stop \in 1 .. n /\ s[stop + d] = p[stop]
  <2>1. ~AtWordEnd(p, stop) => ~(stop > n)
    BY <1>1 DEF AtWordEnd
  <2>2. ~(stop > n) => stop \in 1 .. n
    BY <1>5
  <2> QED BY <1>1, <2>1, <2>2
<1> DEFINE bad == p[i] \notin KeyStart \/ ~(AtWordEnd(p, stop) \/ p[stop] = "=")
<1>11. bad <=> s[i + d] \notin KeyStart \/ ~(AtWordEnd(s, stop + d) \/ s[stop + d] = "=")
  BY <1>8, <1>9, <1>10
<1>12. CASE bad
  <2> DEFINE v == [pairs |-> <<>>, next |-> end]
             u == [pairs |-> <<>>, next |-> end + d]
  <2>1. PairAt(p, i) = {v}
    BY <1>3, <1>6, <1>12 DEF PairAt, SkipToWhitespace
  <2>2. PairAt(s, i + d) = {u}
    <3> HIDE DEF bad
    <3>1. s[i + d] \notin KeyStart \/ ~(AtWordEnd(s, stop + d) \/ s[stop + d] = "=")
      BY <1>11, <1>12
    <3> QED BY <1>4, <1>7, <3>1 DEF PairAt, SkipToWhitespace
  <2>3. v.next = end /\ v.pairs = <<>> /\ Shifted(v, d) = u
    BY DEF Shifted
  <2> HIDE DEF v, u
  <2>4. end # i
    BY <1>1, <1>6
  <2>5. end \in i + 1 .. Len(p) + 1
    BY <1>1, <1>3, <1>6, <2>4
  <2>6. Moved(PairAt(p, i), PairAt(s, i + d), d, Behind(p, s, d))
    BY <2>1, <2>2, <2>3 DEF Moved
  <2>7. <<>> \in Seq(KeyValues(S))
    OBVIOUS
  <2> QED BY <2>1, <2>3, <2>5, <2>6, <2>7
<1>13. CASE ~bad
  <2> DEFINE key == SubSeq(p, i, stop - 1)
             found == IF AtWordEnd(p, stop) THEN {[text |-> True, next |-> stop]} ELSE ValueAt(p, stop + 1)
             moved == IF AtWordEnd(s, stop + d) THEN {[text |-> True, next |-> stop + d]}
                      ELSE ValueAt(s, (stop + d) + 1)
  <2>1. SubSeq(s, i + d, (stop + d) - 1) = key /\ key \in Seq(S)
    <3>1. stop - 1 \in 0 .. Len(p) /\ (stop - 1) + d = (stop + d) - 1
      BY <1>1, <1>3
    <3>2. SubSeq(s, i + d, (stop - 1) + d) = key /\ key \in Seq(S)
      BY <1>2, <3>1, SubSeqMoves
    <3> QED BY <3>1, <3>2
  <2>2. PairAt(p, i) = Keyed(key, found)
    BY <1>3, <1>13 DEF PairAt, Keyed
  <2>3. PairAt(s, i + d) = Keyed(key, moved)
    <3> HIDE DEF bad
    <3>1. ~(s[i + d] \notin KeyStart \/ ~(AtWordEnd(s, stop + d) \/ s[stop + d] = "="))
      BY <1>11, <1>13
    <3> HIDE DEF key
    <3> QED BY <1>4, <2>1, <3>1 DEF PairAt, Keyed
  <2>4. stop # i
    <3>1. p[i] \in KeyContinue
      BY <1>13 DEF KeyStart, KeyContinue
    <3> QED BY <1>1, <1>3, <3>1
  <2>5. /\ Moved(found, moved, d, Behind(p, s, d)) /\ found \in SUBSET Values(S)
        /\ \A v \in found : v.next \in i + 1 .. Len(p) + 1
    <3>1. CASE AtWordEnd(p, stop)
      <4> DEFINE v == [text |-> True, next |-> stop]
                 u == [text |-> True, next |-> stop + d]
      <4>1. found = {v} /\ moved = {u}
        BY <1>8, <3>1
      <4>2. v \in Values(S)
        BY <1>5 DEF Values, True
      <4>3. Shifted(v, d) = u /\ v.next = stop
        BY NextChanged
      <4> HIDE DEF v, u, found, moved
      <4>4. stop \in i + 1 .. Len(p) + 1
        BY <1>1, <1>3, <2>4
      <4> QED BY <4>1, <4>2, <4>3, <4>4 DEF Moved
    <3>2. CASE ~AtWordEnd(p, stop)
      <4>1. stop + 1 \in 1 .. Len(p) + 1 /\ (stop + 1) + d = (stop + d) + 1
        BY <1>1, <1>10, <3>2
      <4>2. found = ValueAt(p, stop + 1) /\ moved = ValueAt(s, (stop + 1) + d)
        BY <1>8, <3>2, <4>1
      <4> HIDE DEF found, moved
      <4>3. /\ Moved(found, moved, d, Behind(p, s, d)) /\ found \in SUBSET Values(S)
            /\ \A v \in found : v.next \in stop + 1 .. Len(p) + 1
        BY <4>1, <4>2, ValueMoves
      <4>4. \A next \in stop + 1 .. Len(p) + 1 : next \in i + 1 .. Len(p) + 1
        BY <1>1, <1>3
      <4> QED BY <4>3, <4>4
    <3> QED BY <3>1, <3>2
  <2> HIDE DEF key, found, moved
  <2>6. /\ Moved(PairAt(p, i), PairAt(s, i + d), d, Behind(p, s, d))
        /\ \A t \in PairAt(p, i) : t.pairs \in Seq(KeyValues(S)) /\ \E v \in found : t.next = v.next
    <3> DEFINE behind == Behind(p, s, d)
    <3> HIDE DEF behind
    <3>1. Moved(found, moved, d, behind) /\ found \in SUBSET Values(S) /\ key \in Seq(S)
      BY <2>1, <2>5 DEF behind
    <3>2. Moved(Keyed(key, found), Keyed(key, moved), d, behind)
      BY <3>1, KeyedMoved
    <3>3. ASSUME NEW t \in Keyed(key, found)
          PROVE  t.pairs \in Seq(KeyValues(S)) /\ \E v \in found : t.next = v.next
      <4>1. PICK v \in found, pairs \in Seq(KeyValues(S)) : t = [pairs |-> pairs, next |-> v.next]
        BY <3>1, KeyedTyped
      <4>2. t.pairs = pairs /\ t.next = v.next
        BY <4>1
      <4> QED BY <4>2
    <3> QED BY <2>2, <2>3, <3>2, <3>3 DEF behind
  <2> QED BY <2>5, <2>6
<1> QED BY <1>12, <1>13

-----------------------------------------------------------------------------
(* The scan. *)

ScanFrom(s, scan, i) ==
    CASE i > Len(s) -> {<<>>}
      [] At(s, i, Space) -> scan[i + 1]
      [] OTHER -> UNION {{t.pairs \o rest : rest \in scan[t.next]} : t \in PairAt(s, i)}
IsScan(s, scan) == scan = [i \in 1 .. Len(s) + 1 |-> ScanFrom(s, scan, i)]
After(t, scan) == {t.pairs \o rest : rest \in scan[t.next]}

LEMMA ScanCases ==
    ASSUME NEW S, NEW s \in Seq(S), NEW scan, NEW i \in 1 .. Len(s) + 1
    PROVE  /\ i > Len(s) => ScanFrom(s, scan, i) = {<<>>}
           /\ i <= Len(s) /\ s[i] \in Space => ScanFrom(s, scan, i) = scan[i + 1]
           /\ i <= Len(s) /\ s[i] \notin Space =>
                ScanFrom(s, scan, i) = UNION {After(t, scan) : t \in PairAt(s, i)}
<1> DEFINE n == Len(s)
           rest == UNION {After(t, scan) : t \in PairAt(s, i)}
           spaced == At(s, i, Space)
           beyond == i > n
<1>1. n \in Nat /\ i \in Nat
  OBVIOUS
<1>2. spaced <=> i <= n /\ s[i] \in Space
  BY DEF At
<1>3. (beyond => ~spaced) /\ (i <= n <=> ~beyond)
  BY <1>1, <1>2
<1>4. ScanFrom(s, scan, i) = CASE beyond -> {<<>>} [] spaced -> scan[i + 1] [] OTHER -> rest
  BY Zenon DEF ScanFrom, After
<1> HIDE DEF n, rest, spaced, beyond
<1>5. beyond => ScanFrom(s, scan, i) = {<<>>}
  BY <1>3, <1>4, Zenon
<1>6. spaced => ScanFrom(s, scan, i) = scan[i + 1]
  BY <1>3, <1>4, Zenon
<1>7. ~beyond /\ ~spaced => ScanFrom(s, scan, i) = rest
  BY <1>4, Zenon
<1> QED BY <1>2, <1>3, <1>5, <1>6, <1>7 DEF n, rest, beyond

LEMMA WholePart == ASSUME NEW S, NEW s \in Seq(S) PROVE Part(s, s, 0) /\ Behind(s, s, 0) = 0
<1>1. PICK n \in Nat : n = Len(s)
  OBVIOUS
<1>2. \A j \in 1 .. n : s[j + 0] = s[j]
  OBVIOUS
<1> QED BY <1>1, <1>2 DEF Part, Behind

LEMMA NextPlace ==
    ASSUME NEW S, {"t", "r", "u", "e"} \subseteq S, NEW s \in Seq(S), NEW i \in 1 .. Len(s), s[i] \notin Space,
           NEW t \in PairAt(s, i)
    PROVE  t.next \in i + 1 .. Len(s) + 1 /\ t.pairs \in Seq(KeyValues(S))
BY WholePart, PairMoves

LEMMA ScanAgrees ==
    ASSUME NEW S, {"t", "r", "u", "e"} \subseteq S, NEW s \in Seq(S), NEW g, NEW h, NEW i \in 1 .. Len(s) + 1,
           \A j \in i + 1 .. Len(s) + 1 : g[j] = h[j]
    PROVE  ScanFrom(s, g, i) = ScanFrom(s, h, i)
<1>1. PICK n \in Nat : n = Len(s) /\ i \in 1 .. n + 1
  OBVIOUS
<1>2. CASE i > n
  BY <1>1, <1>2, ScanCases
<1>3. CASE i <= n /\ s[i] \in Space
  <2>1. i + 1 \in i + 1 .. n + 1
    BY <1>1, <1>3
  <2>2. g[i + 1] = h[i + 1]
    BY <1>1, <2>1
  <2>3. ScanFrom(s, g, i) = g[i + 1] /\ ScanFrom(s, h, i) = h[i + 1]
    BY <1>1, <1>3, ScanCases
  <2> QED BY <2>2, <2>3
<1>4. CASE i <= n /\ s[i] \notin Space
  <2>1. i \in 1 .. Len(s)
    BY <1>1, <1>4
  <2>2. ASSUME NEW t \in PairAt(s, i) PROVE After(t, g) = After(t, h)
    <3>1. t.next \in i + 1 .. Len(s) + 1
      BY <1>4, <2>1, NextPlace
    <3>2. g[t.next] = h[t.next]
      BY <3>1
    <3> QED BY <3>2 DEF After
  <2>3. /\ ScanFrom(s, g, i) = UNION {After(t, g) : t \in PairAt(s, i)}
        /\ ScanFrom(s, h, i) = UNION {After(t, h) : t \in PairAt(s, i)}
    BY <1>1, <1>4, ScanCases
  <2> QED BY <2>2, <2>3
<1> QED BY <1>1, <1>2, <1>3, <1>4

LEMMA ScanExists ==
    ASSUME NEW S, {"t", "r", "u", "e"} \subseteq S, NEW s \in Seq(S)
    PROVE  \E scan : IsScan(s, scan)
<1>1. PICK n \in Nat : n = Len(s) + 1 /\ 1 \in 1 .. n
  OBVIOUS
<1> DEFINE Solves(g, i) == \A j \in i .. n : g[j] = ScanFrom(s, g, j)
           Good == {i \in 1 .. n : \E g : Solves(g, i)}
<1>2. ASSUME NEW i \in 1 .. n, \A j \in i + 1 .. n : j \in Good
      PROVE  i \in Good
  <2>1. PICK g : \A j \in i + 1 .. n : g[j] = ScanFrom(s, g, j)
    <3>1. CASE i = n
      BY <3>1
    <3>2. CASE i # n
      <4>1. i + 1 \in i + 1 .. n
        BY <3>2
      <4> QED BY <1>2, <4>1
    <3> QED BY <3>1, <3>2
  <2> DEFINE h == [j \in i .. n |-> IF j = i THEN ScanFrom(s, g, i) ELSE g[j]]
  <2>2. \A j \in i + 1 .. n : h[j] = g[j]
    OBVIOUS
  <2>3. ASSUME NEW j \in i .. n PROVE ScanFrom(s, h, j) = ScanFrom(s, g, j)
    <3> HIDE DEF h
    <3>1. j \in 1 .. Len(s) + 1 /\ \A k \in j + 1 .. Len(s) + 1 : h[k] = g[k]
      BY <1>1, <2>2
    <3> QED BY <3>1, ScanAgrees
  <2>4. \A j \in i .. n : h[j] = IF j = i THEN ScanFrom(s, g, i) ELSE g[j]
    OBVIOUS
  <2> HIDE DEF h
  <2>5. ASSUME NEW j \in i .. n PROVE h[j] = ScanFrom(s, h, j)
    <3>1. j = i \/ j \in i + 1 .. n
      OBVIOUS
    <3> QED BY <2>1, <2>3, <2>4, <3>1
  <2> QED BY <2>5
<1>3. 1 \in Good
  <2> HIDE DEF Good
  <2> QED BY <1>1, <1>2, FromTheEnd
<1>4. PICK g : \A j \in 1 .. n : g[j] = ScanFrom(s, g, j)
  BY <1>3
<1> DEFINE f == [j \in 1 .. n |-> g[j]]
<1>5. ASSUME NEW j \in 1 .. n PROVE ScanFrom(s, f, j) = ScanFrom(s, g, j)
  <2>1. \A k \in 1 .. n : f[k] = g[k]
    OBVIOUS
  <2> HIDE DEF f
  <2>2. j \in 1 .. Len(s) + 1 /\ \A k \in j + 1 .. Len(s) + 1 : f[k] = g[k]
    BY <1>1, <2>1
  <2> QED BY <2>2, ScanAgrees
<1>6. f = [j \in 1 .. n |-> ScanFrom(s, f, j)]
  <2>1. \A j \in 1 .. n : g[j] = ScanFrom(s, f, j)
    <3> HIDE DEF f
    <3> QED BY <1>4, <1>5
  <2> HIDE DEF f
  <2>2. f = [j \in 1 .. n |-> g[j]]
    BY DEF f
  <2> QED BY <2>1, <2>2
<1> HIDE DEF f
<1> QED BY <1>1, <1>6 DEF IsScan

LEMMA ParseIs ==
    ASSUME NEW S, {"t", "r", "u", "e"} \subseteq S, NEW s \in Seq(S)
    PROVE  \E scan : IsScan(s, scan) /\ ParsePairs(s) = scan[1]
<1>1. \E scan : IsScan(s, scan)
  BY ScanExists
<1> QED BY <1>1 DEF ParsePairs, IsScan, ScanFrom

LEMMA PairShape ==
    ASSUME NEW s, NEW i, NEW t \in PairAt(s, i)
    PROVE  \E pairs, next : t = [pairs |-> pairs, next |-> next]
BY DEF PairAt

\* What the scan of a part finds, what the scan of the whole text finds from the
\* same place on, and what the latter finds behind the part.
Before(front, backs) == {front \o back : back \in backs}
Aligned(alone, whole, backs, behind) ==
    /\ \A front \in alone : whole = Before(front, backs)
    /\ behind = 0 /\ alone = {} => whole = {}

Grouped(a, b, c) == (a \o b) \o c = a \o (b \o c)
BeforeBoth(a, b, backs) == {a \o (b \o back) : back \in backs}

LEMMA InOneRow ==
    ASSUME NEW T, NEW a \in Seq(T), NEW b \in Seq(T), NEW c \in Seq(T)
    PROVE  Grouped(a, b, c)
BY ConcatAssociative DEF Grouped

LEMMA BeforeTwice ==
    ASSUME NEW T, NEW a \in Seq(T), NEW b \in Seq(T), NEW backs \in SUBSET Seq(T)
    PROVE  Before(a \o b, backs) = BeforeBoth(a, b, backs)
<1>1. \A back \in backs : back \in Seq(T)
  OBVIOUS
<1>2. \A back \in backs : Grouped(a, b, back)
  BY <1>1, InOneRow
<1>3. \A back \in backs : (a \o b) \o back = a \o (b \o back)
  BY <1>2 DEF Grouped
<1> QED BY <1>3, Zenon DEF Before, BeforeBoth

LEMMA AlignedAfter ==
    ASSUME NEW T, NEW t, NEW pairs \in Seq(T), NEW next \in Nat, t = [pairs |-> pairs, next |-> next],
           NEW d \in Nat, NEW scan, NEW wide, NEW backs \in SUBSET Seq(T), NEW behind,
           scan[next] \in SUBSET Seq(T), Aligned(scan[next], wide[next + d], backs, behind)
    PROVE  /\ Aligned(After(t, scan), After(Shifted(t, d), wide), backs, behind)
           /\ After(t, scan) \in SUBSET Seq(T)
<1> DEFINE u == [pairs |-> pairs, next |-> next + d]
<1>1. Shifted(t, d) = u
  BY DEF Shifted
<1>2. t.pairs = pairs /\ t.next = next /\ u.pairs = pairs /\ u.next = next + d
  OBVIOUS
<1> HIDE DEF u
<1>3. After(t, scan) = {pairs \o rest : rest \in scan[next]}
  BY <1>2 DEF After
<1> DEFINE there == wide[next + d]
           alone == scan[next]
<1>4. After(u, wide) = {pairs \o rest : rest \in there}
  BY <1>2 DEF After
<1>5. alone \in SUBSET Seq(T) /\ Aligned(alone, there, backs, behind)
  OBVIOUS
<1> HIDE DEF there, alone
<1>6. After(t, scan) = {pairs \o rest : rest \in alone}
  BY <1>3 DEF alone
<1>7. ASSUME NEW front \in After(t, scan)
      PROVE  After(u, wide) = Before(front, backs) /\ front \in Seq(T)
  <2>1. PICK rest \in alone : front = pairs \o rest
    BY <1>6
  <2>2. rest \in Seq(T) /\ there = Before(rest, backs)
    BY <1>5, <2>1 DEF Aligned
  <2>3. After(u, wide) = BeforeBoth(pairs, rest, backs)
    BY <1>4, <2>2 DEF Before, BeforeBoth
  <2>4. pairs \in Seq(T) /\ backs \in SUBSET Seq(T)
    OBVIOUS
  <2>5. Before(front, backs) = BeforeBoth(pairs, rest, backs)
    <3>1. Before(pairs \o rest, backs) = BeforeBoth(pairs, rest, backs)
      BY <2>2, <2>4, BeforeTwice
    <3> QED BY <2>1, <3>1
  <2>6. front \in Seq(T)
    BY <2>1, <2>2
  <2> QED BY <2>3, <2>5, <2>6
<1>8. behind = 0 /\ After(t, scan) = {} => After(u, wide) = {}
  <2>1. After(t, scan) = {} => alone = {}
    BY <1>6
  <2>2. behind = 0 /\ alone = {} => there = {}
    BY <1>5 DEF Aligned
  <2> QED BY <1>4, <2>1, <2>2
<1> QED BY <1>1, <1>7, <1>8 DEF Aligned

LEMMA ScanMoves ==
    ASSUME NEW S, {"t", "r", "u", "e"} \subseteq S,
           NEW p \in Seq(S), NEW s \in Seq(S), NEW d \in Nat, Part(p, s, d),
           NEW scan, IsScan(p, scan), NEW wide, IsScan(s, wide),
           wide[d + Len(p) + 1] \in SUBSET Seq(KeyValues(S))
    PROVE  \A j \in 1 .. Len(p) + 1 :
             /\ Aligned(scan[j], wide[j + d], wide[d + Len(p) + 1], Behind(p, s, d))
             /\ scan[j] \in SUBSET Seq(KeyValues(S))
<1>1. PICK n \in Nat, m \in Nat : /\ n = Len(p) /\ m = Len(s) /\ d + n <= m
                                  /\ \A j \in 1 .. n : s[j + d] = p[j]
  BY DEF Part
<1> DEFINE T == KeyValues(S)
           backs == wide[d + Len(p) + 1]
           behind == Behind(p, s, d)
           Fits(j) == Aligned(scan[j], wide[j + d], backs, behind) /\ scan[j] \in SUBSET Seq(T)
           Good == {j \in 1 .. n + 1 : Fits(j)}
<1> HIDE DEF T, behind
<1>2. \A j \in 1 .. n + 1 : /\ scan[j] = ScanFrom(p, scan, j)
                            /\ j + d \in 1 .. m + 1 /\ wide[j + d] = ScanFrom(s, wide, j + d)
  <2>1. \A j \in 1 .. n + 1 : j + d \in 1 .. m + 1
    BY <1>1
  <2>2. \A j \in 1 .. n + 1 : scan[j] = ScanFrom(p, scan, j)
    BY <1>1 DEF IsScan
  <2>3. \A j \in 1 .. m + 1 : wide[j] = ScanFrom(s, wide, j)
    BY <1>1 DEF IsScan
  <2> QED BY <2>1, <2>2, <2>3
<1>3. backs \in SUBSET Seq(T)
  BY DEF T
<1>4. ASSUME NEW j \in 1 .. n + 1, \A k \in j + 1 .. n + 1 : k \in Good
      PROVE  Fits(j)
  <2>1. CASE j = n + 1
    <3>1. scan[j] = {<<>>}
      <4>1. j \in 1 .. Len(p) + 1 /\ j > Len(p)
        BY <1>1, <2>1
      <4>2. ScanFrom(p, scan, j) = {<<>>}
        BY <4>1, ScanCases
      <4> QED BY <1>2, <4>2
    <3>2. wide[j + d] = backs
      <4>1. j + d = d + Len(p) + 1
        BY <1>1, <2>1
      <4> QED BY <4>1
    <3> HIDE DEF backs
    <3>3. \A back \in backs : <<>> \o back = back
      BY <1>3
    <3>4. Before(<<>>, backs) = backs
      BY <3>3 DEF Before
    <3>5. <<>> \in Seq(T)
      OBVIOUS
    <3> QED BY <3>1, <3>2, <3>4, <3>5 DEF Aligned
  <2>2. CASE j <= n /\ p[j] \in Space
    <3>1. j + 1 \in j + 1 .. n + 1 /\ j + 1 \in 1 .. n + 1 /\ j + d <= m /\ (j + d) + 1 = (j + 1) + d
      BY <1>1, <2>2
    <3>2. s[j + d] = p[j]
      BY <1>1, <2>2
    <3>3. scan[j] = scan[j + 1]
      <4>1. j \in 1 .. Len(p) + 1 /\ j <= Len(p) /\ p[j] \in Space
        BY <1>1, <2>2
      <4>2. ScanFrom(p, scan, j) = scan[j + 1]
        BY <4>1, ScanCases
      <4> QED BY <1>2, <4>2
    <3>4. wide[j + d] = wide[(j + 1) + d]
      <4>1. j + d \in 1 .. Len(s) + 1 /\ j + d <= Len(s)
        BY <1>1, <1>2, <3>1
      <4>2. s[j + d] \in Space
        BY <2>2, <3>2
      <4>3. ScanFrom(s, wide, j + d) = wide[(j + d) + 1]
        BY <4>1, <4>2, ScanCases
      <4> QED BY <1>2, <3>1, <4>3
    <3>5. Fits(j + 1)
      BY <1>4, <3>1
    <3> QED BY <3>3, <3>4, <3>5
  <2>3. CASE j <= n /\ p[j] \notin Space
    <3>1. j \in 1 .. Len(p) /\ j + d <= m
      BY <1>1, <2>3
    <3>2. s[j + d] = p[j]
      BY <1>1, <3>1
    <3>3. scan[j] = UNION {After(t, scan) : t \in PairAt(p, j)}
      <4>1. j \in 1 .. Len(p) + 1 /\ j <= Len(p)
        BY <1>1, <2>3
      <4>2. ScanFrom(p, scan, j) = UNION {After(t, scan) : t \in PairAt(p, j)}
        BY <2>3, <4>1, ScanCases
      <4> QED BY <1>2, <4>2
    <3>4. wide[j + d] = UNION {After(t, wide) : t \in PairAt(s, j + d)}
      <4>1. j + d \in 1 .. Len(s) + 1 /\ j + d <= Len(s)
        BY <1>1, <1>2, <3>1
      <4>2. s[j + d] \notin Space
        BY <2>3, <3>2
      <4>3. ScanFrom(s, wide, j + d) = UNION {After(t, wide) : t \in PairAt(s, j + d)}
        BY <4>1, <4>2, ScanCases
      <4> QED BY <1>2, <4>3
    <3>5. Moved(PairAt(p, j), PairAt(s, j + d), d, behind)
      BY <2>3, <3>1, PairMoves DEF behind
    <3>6. ASSUME NEW t \in PairAt(p, j)
          PROVE  /\ PairAt(s, j + d) = {Shifted(t, d)}
                 /\ Aligned(After(t, scan), After(Shifted(t, d), wide), backs, behind)
                 /\ After(t, scan) \in SUBSET Seq(T)
      <4>1. PICK pairs, next : t = [pairs |-> pairs, next |-> next]
        BY PairShape
      <4>2. t.pairs \in Seq(T) /\ t.next \in j + 1 .. Len(p) + 1
        BY <2>3, <3>1, PairMoves DEF T
      <4>3. pairs \in Seq(T) /\ next \in j + 1 .. n + 1 /\ next \in Nat
        BY <1>1, <4>1, <4>2
      <4>4. scan[next] \in SUBSET Seq(T) /\ Aligned(scan[next], wide[next + d], backs, behind)
        BY <1>4, <4>3
      <4>5. PairAt(s, j + d) = {Shifted(t, d)}
        BY <3>5 DEF Moved
      <4> HIDE DEF backs
      <4> QED BY <1>3, <4>1, <4>3, <4>4, <4>5, AlignedAfter
    <3> HIDE DEF backs
    <3>7. CASE PairAt(p, j) = {}
      <4>1. scan[j] = {}
        BY <3>3, <3>7
      <4>2. behind = 0 => wide[j + d] = {}
        BY <3>4, <3>5, <3>7 DEF Moved
      <4> QED BY <4>1, <4>2 DEF Aligned
    <3>8. CASE PairAt(p, j) # {}
      <4>1. PICK t : t \in PairAt(p, j)
        BY <3>8
      <4>2. ASSUME NEW v \in PairAt(p, j) PROVE After(v, scan) \in SUBSET Seq(T)
        BY <3>6
      <4>3. scan[j] \in SUBSET Seq(T)
        BY <3>3, <4>2
      <4>4. wide[j + d] = After(Shifted(t, d), wide)
        BY <3>4, <3>6, <4>1
      <4>5. ASSUME NEW front \in scan[j] PROVE wide[j + d] = Before(front, backs)
        <5>1. PICK v \in PairAt(p, j) : front \in After(v, scan)
          BY <3>3
        <5>2. wide[j + d] = After(Shifted(v, d), wide)
          BY <3>4, <3>6
        <5>3. Aligned(After(v, scan), After(Shifted(v, d), wide), backs, behind)
          BY <3>6
        <5> QED BY <5>1, <5>2, <5>3 DEF Aligned
      <4>6. behind = 0 /\ scan[j] = {} => wide[j + d] = {}
        <5>1. scan[j] = {} => After(t, scan) = {}
          BY <3>3, <4>1
        <5>2. Aligned(After(t, scan), After(Shifted(t, d), wide), backs, behind)
          BY <3>6, <4>1
        <5> QED BY <4>4, <5>1, <5>2 DEF Aligned
      <4> QED BY <4>3, <4>5, <4>6 DEF Aligned
    <3> QED BY <3>7, <3>8
  <2> HIDE DEF Fits, backs, Good
  <2>4. j = n + 1 \/ (j <= n /\ p[j] \in Space) \/ (j <= n /\ p[j] \notin Space)
    <3>1. j = n + 1 \/ j <= n
      BY <1>1
    <3> QED BY <3>1
  <2> QED BY <2>1, <2>2, <2>3, <2>4, Zenon
<1>5. \A j \in 1 .. n + 1 : j \in Good
  <2>1. \A j \in 1 .. n + 1 : (\A k \in j + 1 .. n + 1 : k \in Good) => j \in Good
    BY <1>4
  <2>2. n + 1 \in Nat
    OBVIOUS
  <2> HIDE DEF Good
  <2> QED BY <2>1, <2>2, FromTheEnd
<1>6. \A j \in 1 .. Len(p) + 1 : Fits(j)
  BY <1>1, <1>5
<1> QED BY <1>6 DEF T, behind

LEMMA ScanTyped ==
    ASSUME NEW S, {"t", "r", "u", "e"} \subseteq S, NEW s \in Seq(S), NEW scan, IsScan(s, scan)
    PROVE  /\ \A i \in 1 .. Len(s) + 1 : scan[i] \in SUBSET Seq(KeyValues(S))
           /\ scan[Len(s) + 1] = {<<>>}
<1>1. PICK n \in Nat : n = Len(s) /\ n + 1 \in 1 .. n + 1 /\ n + 1 > n /\ 0 + n + 1 = n + 1
  OBVIOUS
<1>2. scan[n + 1] = ScanFrom(s, scan, n + 1)
  BY <1>1 DEF IsScan
<1>3. ScanFrom(s, scan, n + 1) = {<<>>}
  BY <1>1, ScanCases
<1>4. {<<>>} \in SUBSET Seq(KeyValues(S))
  OBVIOUS
<1>5. scan[0 + Len(s) + 1] \in SUBSET Seq(KeyValues(S))
  BY <1>1, <1>2, <1>3, <1>4
<1>6. 0 \in Nat /\ Part(s, s, 0)
  BY WholePart
<1> QED BY <1>1, <1>2, <1>3, <1>5, <1>6, ScanMoves

LEMMA ParsedApart ==
    ASSUME NEW S, {"t", "r", "u", "e"} \subseteq S, NEW s \in Seq(S), NEW i \in 1 .. Len(s), s[i] \in Space,
           NEW front \in ParsePairs(SubSeq(s, 1, i - 1))
    PROVE  ParsePairs(s) = Before(front, ParsePairs(SubSeq(s, i + 1, Len(s))))
<1> DEFINE p == SubSeq(s, 1, i - 1)
           q == SubSeq(s, i + 1, Len(s))
<1>1. PICK m \in Nat : m = Len(s) /\ i \in 1 .. m
  OBVIOUS
<1>2. /\ p \in Seq(S) /\ Len(p) = i - 1 /\ \A j \in 1 .. i - 1 : p[j] = s[j]
      /\ q \in Seq(S) /\ Len(q) = m - i /\ \A j \in 1 .. m - i : q[j] = s[j + i]
  BY <1>1
<1>3. front \in ParsePairs(p)
  OBVIOUS
<1> HIDE DEF p, q
<1>4. Part(p, s, 0)
  <2>1. \A j \in 1 .. Len(p) : s[j + 0] = p[j]
    BY <1>1, <1>2
  <2>2. 0 + Len(p) <= Len(s) /\ 0 + Len(p) + 1 = i
    BY <1>1, <1>2
  <2> QED BY <2>1, <2>2 DEF Part
<1>5. Part(q, s, i) /\ Behind(q, s, i) = 0 /\ i + Len(q) + 1 = m + 1
  <2>1. \A j \in 1 .. Len(q) : s[j + i] = q[j]
    BY <1>1, <1>2
  <2>2. i + Len(q) = m
    BY <1>1, <1>2
  <2> QED BY <1>1, <2>1, <2>2 DEF Part, Behind
<1>6. PICK wide : IsScan(s, wide) /\ ParsePairs(s) = wide[1]
  BY ParseIs
<1>7. PICK ahead : IsScan(p, ahead) /\ ParsePairs(p) = ahead[1]
  BY <1>2, ParseIs
<1>8. PICK behind : IsScan(q, behind) /\ ParsePairs(q) = behind[1]
  BY <1>2, ParseIs
<1>9. /\ wide[i] \in SUBSET Seq(KeyValues(S)) /\ wide[i + 1] \in SUBSET Seq(KeyValues(S))
      /\ wide[m + 1] = {<<>>}
  <2>1. i \in 1 .. Len(s) + 1 /\ i + 1 \in 1 .. Len(s) + 1
    BY <1>1
  <2> QED BY <1>1, <1>6, <2>1, ScanTyped
<1>10. wide[i] = wide[i + 1]
  <2>1. i \in 1 .. Len(s) + 1 /\ i <= Len(s)
    BY <1>1
  <2>2. wide[i] = ScanFrom(s, wide, i)
    BY <1>6, <2>1 DEF IsScan
  <2>3. ScanFrom(s, wide, i) = wide[i + 1]
    BY <2>1, ScanCases
  <2> QED BY <2>2, <2>3
<1>11. wide[1] = Before(front, wide[i])
  <2>1. 0 + Len(p) + 1 = i /\ 0 \in Nat /\ 1 \in 1 .. Len(p) + 1 /\ 1 + 0 = 1
    BY <1>1, <1>2
  <2>2. wide[0 + Len(p) + 1] \in SUBSET Seq(KeyValues(S))
    BY <1>9, <2>1
  <2>3. Aligned(ahead[1], wide[1 + 0], wide[0 + Len(p) + 1], Behind(p, s, 0))
    BY <1>2, <1>4, <1>6, <1>7, <2>1, <2>2, ScanMoves
  <2>4. Aligned(ahead[1], wide[1], wide[i], Behind(p, s, 0))
    BY <2>1, <2>3
  <2> QED BY <1>3, <1>7, <2>4 DEF Aligned
<1>12. wide[i + 1] = behind[1]
  <2>1. i \in Nat /\ 1 \in 1 .. Len(q) + 1 /\ 1 + i = i + 1
    BY <1>1, <1>2
  <2>2. wide[i + Len(q) + 1] = {<<>>} /\ {<<>>} \in SUBSET Seq(KeyValues(S))
    BY <1>5, <1>9
  <2>3. /\ Aligned(behind[1], wide[1 + i], wide[i + Len(q) + 1], Behind(q, s, i))
        /\ behind[1] \in SUBSET Seq(KeyValues(S))
    <3>1. q \in Seq(S) /\ Part(q, s, i) /\ IsScan(s, wide) /\ IsScan(q, behind)
      BY <1>2, <1>5, <1>6, <1>8
    <3>2. wide[i + Len(q) + 1] \in SUBSET Seq(KeyValues(S))
      BY <2>2
    <3>3. \A j \in 1 .. Len(q) + 1 : /\ Aligned(behind[j], wide[j + i], wide[i + Len(q) + 1], Behind(q, s, i))
                                      /\ behind[j] \in SUBSET Seq(KeyValues(S))
      BY <2>1, <3>1, <3>2, ScanMoves
    <3> QED BY <2>1, <3>3
  <2>4. Aligned(behind[1], wide[i + 1], {<<>>}, 0)
    BY <1>5, <2>1, <2>2, <2>3
  <2>5. ASSUME NEW back \in behind[1] PROVE wide[i + 1] = {back}
    <3>1. back \o <<>> = back
      BY <2>3
    <3>2. Before(back, {<<>>}) = {back}
      BY <3>1 DEF Before
    <3> QED BY <2>4, <3>2 DEF Aligned
  <2>6. behind[1] = {} => wide[i + 1] = {}
    BY <2>4 DEF Aligned
  <2> QED BY <2>5, <2>6
<1> QED BY <1>6, <1>8, <1>10, <1>11, <1>12 DEF q

\* Whatever the line and wherever its white space: the pairs in front of the
\* white space and the pairs behind it are the pairs of the line, in this order.
THEOREM PairsAreLocalHolds == Spec => []PairsAreLocal
<1>1. Typed => PairsAreLocal
  <2> SUFFICES ASSUME Typed, NEW i \in DOMAIN input, input[i] \in Space,
                      NEW front \in ParsePairs(SubSeq(input, 1, i - 1))
               PROVE  ParsePairs(input) = {front \o back : back \in ParsePairs(SubSeq(input, i + 1, Len(input)))}
    BY DEF PairsAreLocal
  <2> DEFINE S == Sessions[session].alphabet \cup {"t", "r", "u", "e"}
  <2>1. input \in Seq(S)
    <3>1. input \in Seq(Sessions[session].alphabet)
      BY DEF Typed
    <3> QED BY <3>1
  <2>2. {"t", "r", "u", "e"} \subseteq S
    OBVIOUS
  <2> HIDE DEF S
  <2>3. i \in 1 .. Len(input)
    BY <2>1
  <2>4. ParsePairs(input) = Before(front, ParsePairs(SubSeq(input, i + 1, Len(input))))
    BY <2>1, <2>2, <2>3, ParsedApart
  <2> QED BY <2>4 DEF Before
<1> QED BY <1>1, InputTyped, PTL

=============================================================================
