------------------------------ MODULE MCTexts ------------------------------
(***************************************************************************)
(* One character for every class that a scanner tells apart: "7" a digit,  *)
(* others letters, "~" a white space beyond ASCII, "+" what no scanner     *)
(* knows.  Values of a record are the empty text, a simple one, texts that *)
(* look like a number or like another field, one that breaks the line, a   *)
(* number, a truth value, null and an object with a member.                *)
(***************************************************************************)
EXTENDS QueryLexing, LineTyping

MCDigit == {"7"}
MCLetter == {"a", "A", "b", "e", "g", "l", "m", "n", "r", "t", "u"}
MCSpace == {" "}
MCWideSpace == {"~"}
MCTimestamp == <<"t">>
MCLevel == <<"l">>
MCMessage == <<"m">>
MCTag == <<"g">>
MCFieldsName == <<"e">>
MCRawName == <<"r">>
MCNullText == <<"n">>
MCCaseFold == [c \in {"a", "A", "%", "_", "\\"} |-> IF c = "A" THEN "a" ELSE c]
\* E' is no letter of ASCII.
MCToLowercase == [c \in {"A", "E'"} |-> IF c = "A" THEN "a" ELSE "e'"]

Nested == [kind |-> "object", text |-> <<"{", "b", "}">>,
           members |-> <<[key |-> <<"b">>, value |-> String(<<"a">>)]>>]
Values ==
    {String(<<>>), String(<<"a">>), String(<<"7">>), String(<<"\n">>), String(<<"a", ",", " ", "b", "=", "\"">>),
     Scalar("number", <<"7">>), Scalar("bool", True), Scalar("null", <<"n">>), Nested}
Keys == {MCLevel, MCTag, <<"a">>, <<"a", ".", "b">>}
\* What only JSON can have as a key, and levels in upper case.
Others ==
    [key : {<<"a", "\n">>, <<"b", ",", " ", "a">>, <<"b", ",", " ", "a", "=">>, <<>>}, value : {String(<<"a">>), Scalar("number", <<"7">>)}]
        \cup [key : {MCLevel}, value : {String(<<"A">>), String(<<"E'">>)}]

MCSessions ==
    [query   |-> [length |-> 6, alphabet |-> {"7", "a", ".", "-", "\"", "=", "!", " ", "+"}],
     logfmt  |-> [length |-> 6, alphabet |-> {"a", "-", "\"", "=", "\\", " ", "~"}],
     records |-> [length |-> 3, alphabet |-> [key : Keys, value : Values] \cup Others],
     field   |-> [length |-> 5, alphabet |-> {"a", "7", ".", "-", ":"}],
     search  |-> [length |-> 6, alphabet |-> {"a", "A", "%", "_", "\\"}],
     count   |-> [length |-> 8, alphabet |-> {"7", "0"}]]
=============================================================================
