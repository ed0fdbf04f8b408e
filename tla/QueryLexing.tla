----------------------------- MODULE QueryLexing -----------------------------
(***************************************************************************)
(* A user types a query character by character; the properties compare the *)
(* tokens of neighbouring inputs and of the same query with other spacing. *)
(***************************************************************************)
EXTENDS QueryLexer, TextTyping, SequencesExt

Accepted(tokens) == tokens = <<>> \/ Last(tokens).kind # "error"
Texts(s) ==
    LET tokens == Tokenize(s)
    IN  [i \in DOMAIN tokens |->
            [kind |-> tokens[i].kind, text |-> SubSeq(s, tokens[i].from, tokens[i].next - 1)]]

\* The tokens of an input follow one another, and what lies between them and
\* in front of an error is white space: no character is dropped or used twice.
TokensCoverInput ==
  About("query") =>
    LET tokens == Tokenize(input)
        covered == UNION {tokens[i].from .. tokens[i].next - 1 : i \in DOMAIN tokens}
        end == IF Accepted(tokens) THEN Len(input) ELSE Last(tokens).from - 1
    IN  /\ \A i, j \in DOMAIN tokens : i < j => tokens[i].next <= tokens[j].from
        /\ \A i \in 1 .. end : i \notin covered => input[i] \in Space

\* A bare value, once begun with a letter or a digit, is never refused for a
\* character that words may have ("2024-01-01T10:00:00Z", "1.2.3"); an error is
\* at the start of what it refuses.
WordsAreNotRefused ==
  About("query") =>
    LET tokens == Tokenize(input)
        at == Last(tokens).from
    IN  (~Accepted(tokens) /\ at > 1) =>
            ~(IsIdentContinuation(input[at]) /\ IsIdentContinuation(input[at - 1]))

\* The tokens are the input, cut where words end.
TokensAreWhole == TokensCoverInput /\ WordsAreNotRefused

\* What is typed behind a query changes its last token only, and with a space
\* in front of it none.
EarlierTokensStay ==
    [][About("query") =>
       LET before == Texts(input)
           after == Texts(input')
       IN  Accepted(before) /\ before # <<>> =>
               IsPrefix(IF Last(input) \in Space THEN before ELSE Front(before), after)]_vars
=============================================================================
