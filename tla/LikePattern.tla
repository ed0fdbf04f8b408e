---------------------------- MODULE LikePattern ----------------------------
(***************************************************************************)
(* CONTAINS (executor.rs): the text that a user looks for becomes a        *)
(* pattern of LIKE, in which its own wildcards are escaped.                *)
(***************************************************************************)
EXTENDS Naturals, Sequences, SequencesExt

CONSTANT CaseFold       \* character -> character, for ASCII letters

\* Fault: the escape character itself is not escaped.
EscapeLikeWildcards(text) ==
    FlattenSeq([i \in DOMAIN text |->
                    IF text[i] \in {"%", "_"} THEN <<"\\", text[i]>> ELSE <<text[i]>>])

EscapeLike(text) ==
    FlattenSeq([i \in DOMAIN text |->
                    IF text[i] \in {"\\", "%", "_"} THEN <<"\\", text[i]>> ELSE <<text[i]>>])

ContainsPattern(text) == <<"%">> \o EscapeLike(text) \o <<"%">>

\* LIKE ... ESCAPE '\' of SQLite, external: % is any text, _ any character,
\* letters match without regard to case; matches[i] is where the text may
\* start that the pattern matches from i on.
Like(text, pattern) ==
    LET p == Len(pattern)
        t == Len(text)
        same(c, j) == j <= t /\ CaseFold[c] = CaseFold[text[j]]
        matches[i \in 1 .. p + 1] ==
            {j \in 1 .. t + 1 :
                CASE i > p -> j > t
                  [] i <= p /\ pattern[i] = "%" -> \E k \in matches[i + 1] : j <= k
                  [] i <= p /\ pattern[i] = "_" -> j <= t /\ j + 1 \in matches[i + 1]
                  [] i <= p /\ pattern[i] = "\\" -> i < p /\ same(pattern[i + 1], j) /\ j + 1 \in matches[i + 2]
                  [] OTHER -> same(pattern[i], j) /\ j + 1 \in matches[i + 1]}
    IN  1 \in matches[1]
=============================================================================
