---------------------------- MODULE QueryMeaning ----------------------------
(***************************************************************************)
(* What the rows that a typed query selects should be: the whole way from  *)
(* tokens through the parser and the executor to SQLite.                   *)
(***************************************************************************)
EXTENDS QueryTyping, QuerySql

Sql == BuildSql(Parsed.node)
Clause(c) == <<<<c>>>>

\* A clause in a query of its own, and what a tree means given that of its
\* clauses.
Alone(c, row) == Selects(BuildSql(Clause(c)), row)

RECURSIVE Means(_, _)
Means(query, row) ==
    \E i \in DOMAIN query : \A j \in DOMAIN query[i] :
        LET c == query[i][j]
        IN  IF c.tag = "group" THEN Means(c.groups, row) ELSE Alone(c, row)

\* A complete query selects the rows that its groups and their clauses select:
\* the condition has parentheses where the meaning needs them, and every
\* placeholder is bound to the value of its own clause.
GroupsSelect ==
    (session.rows # {} /\ Complete /\ Translatable(Parsed.node)) =>
        \A row \in session.rows : Selects(Sql, row) = Means(Top.groups, row)

-----------------------------------------------------------------------------
(* The documented meaning of a clause (README.md, "Operators"). *)

\* The comparisons of the README: numbers with numbers, texts with texts by
\* their bytes, level without regard to case.
Fold(field, text) == IF field = "level" THEN Lower[text] ELSE text
Precedes(field, v, w) ==
    IF v.type = "number" THEN v.v < w.v
    ELSE ByteOrder[Fold(field, v.v)] < ByteOrder[Fold(field, w.v)]

Wanted(value) ==
    CASE value.type = "Bool" -> SqlNumber(IF Lower[value.text] = "true" THEN 1 ELSE 0)
      [] value.type = "String" -> SqlText(value.text)
      [] OTHER -> SqlNumber(NumberOf[value.text])

Documented(c, row) ==
    /\ c.field \in DOMAIN row
    /\ LET v == row[c.field]
           w == Wanted(c.value)
       IN  CASE c.op = "<" -> Precedes(c.field, v, w)
             [] c.op = ">" -> Precedes(c.field, w, v)
             [] c.op = "!=" -> Precedes(c.field, v, w) \/ Precedes(c.field, w, v)
             [] c.op = "=" -> ~Precedes(c.field, v, w) /\ ~Precedes(c.field, w, v)

\* Values that can be compared: of one type, or nothing to compare with.
Comparable(c, row) ==
    c.field \in DOMAIN row => row[c.field].type = Wanted(c.value).type

ComparedClauses == {c \in Leaves(Top.groups) : c.tag = "compare"}

\* A comparison of values of one type selects what its operator says; a row
\* without the field is not selected, also not by !=.
ComparesAsDocumented ==
    Complete => \A row \in session.rows : \A c \in ComparedClauses :
        Comparable(c, row) => (Alone(c, row) = Documented(c, row))

\* A query selects what its clauses mean, joined as its groups say.
SelectsAsMeant == GroupsSelect /\ ComparesAsDocumented
=============================================================================
