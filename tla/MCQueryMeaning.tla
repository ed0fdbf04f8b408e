--------------------------- MODULE MCQueryMeaning ---------------------------
(***************************************************************************)
(* Small instances of QueryMeaning.  A session with every kind of token    *)
(* once or twice, with the words and numbers at which the parser decides;  *)
(* one with short clauses and errors, in which nesting and precedence get  *)
(* deep; one with short clauses on a field and on the time, for conditions *)
(* of several groups on rows; one with single clauses on a column, level   *)
(* and a JSON field, on rows whose values are texts, numbers or missing.   *)
(***************************************************************************)
EXTENDS QueryMeaning

\* "x-y" is a bare word that is no field name, "M" no unit.
MCWords ==
    {"and", "OR", "or", "last", "since", "contains", "True", "true", "x", "x-y",
     "h", "M", "level", "tag", "ERROR", "error"}
MCDigits == {"1", "1.5", "2", "2^63", "5", "1000"}
MCLower ==
    [w \in MCWords \cup MCDigits |->
        CASE w = "OR" -> "or" [] w = "True" -> "true" [] w = "M" -> "m"
          [] w = "ERROR" -> "error" [] OTHER -> w]
MCFieldNames == MCWords \ {"x-y"}

\* A number for every decision on its width; "1000" is before "5" as a text
\* and behind it as a number.
MCDecimals == {"1.5"}
MCI64 == {"2", "5", "1000"}
MCU64 == MCI64 \cup {"2^63"}
MCNumberOf == [n \in {"5", "1000"} |-> IF n = "5" THEN 5 ELSE 1000]
MCNumberText ==
    [n \in {0, 1, 5, 1000} |-> CASE n = 0 -> "0" [] n = 1 -> "1" [] n = 5 -> "5" [] n = 1000 -> "1000"]

MCBytes == <<"1", "1000", "5", "ERROR", "and", "error", "level", "or", "since",
             "tag", "true", "x">>
MCByteOrder == [w \in Range(MCBytes) |-> CHOOSE i \in DOMAIN MCBytes : MCBytes[i] = w]
MCInside == [w \in DOMAIN MCLower |-> {MCLower[w]}]

\* Of the words that can stand behind since, "and" and "x" are times.
MCInstant == [w \in {"and", "x"} |-> w]
NoCutoff(amount, unit) == ""

Kinds ==
    [tokens |-> {Word(w) : w \in {"and", "OR", "last", "since", "contains", "True", "x", "x-y", "h", "M"}}
                  \cup {Tok("number", n) : n \in {"2", "1.5", "2^63", "2^64"}}
                  \cup {Tok("quoted", "True"), Sign("="), Sign("("), Sign(")")},
     maxTokens |-> 5, maxDepth |-> 2, maxLost |-> 2, rows |-> {}]

Short == {Word("x"), Word("and"), Word("or"), Word("since"), Sign("="), Sign("("), Sign(")")}

Shapes == [tokens |-> Short, maxTokens |-> 11, maxDepth |-> 3, maxLost |-> 1, rows |-> {}]

Groups ==
    [tokens |-> Short, maxTokens |-> 11, maxDepth |-> 2, maxLost |-> 0,
     rows |-> {[x |-> SqlText(v), timestamp |-> SqlText(t)] : v \in {"and", "x"}, t \in {"1", "error", "x"}}
                \cup {[timestamp |-> SqlText("x")]}]

Values ==
    [tokens |-> {Word(w) : w \in {"level", "tag", "x", "ERROR", "error", "true", "and"}}
                  \cup {Tok("quoted", "5"), Tok("number", "5"), Tok("number", "1000")}
                  \cup {Sign("="), Sign("!="), Sign("<"), Sign(">")},
     maxTokens |-> 3, maxDepth |-> 0, maxLost |-> 0,
     rows |-> {[x |-> SqlNumber(n), tag |-> SqlText("5")] : n \in {1, 5, 1000}}
                \cup {[x |-> SqlText(w)] : w \in {"1000", "5", "true"}}
                \cup {[level |-> SqlText(w)] : w \in {"ERROR", "error", "5"}}]

MCSessions == {Kinds, Shapes, Groups, Values}
=============================================================================
