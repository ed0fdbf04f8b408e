------------------------------ MODULE QuerySql ------------------------------
(***************************************************************************)
(* The executor (executor.rs): a query tree becomes the WHERE condition of *)
(* one SELECT, a sequence of symbols with placeholders, and the sequence   *)
(* of values bound to them.  The second half says what SQLite does with    *)
(* such a condition on a row.  A SQL value is [type, v]; a row has the     *)
(* four columns and the members of the JSON object in its column fields.   *)
(***************************************************************************)
EXTENDS QueryParser, SequencesExt

CONSTANTS
    NumberOf,   \* number text -> the number
    Instant,    \* datetime texts that parse_datetime accepts -> RFC 3339 text in UTC
    CutoffText(_, _)    \* amount and unit of `last` -> RFC 3339 text of now minus that

SqlText(v) == [type |-> "text", v |-> v]
SqlNumber(v) == [type |-> "number", v |-> v]
Null == [type |-> "null"]

KnownKeys == {"timestamp", "level", "message", "tag"}

\* A fragment of the condition with its bound values.
Symbol(sym) == [sym |-> sym]
Fragment(text, binds) == [text |-> text, binds |-> binds]
Placeholder(column, op, value) ==
    Fragment(<<[sym |-> "?", column |-> column, op |-> op]>>, <<value>>)
Paren(f) == Fragment(<<Symbol("(")>> \o f.text \o <<Symbol(")")>>, f.binds)
JoinWith(word, fragments) ==
    FoldLeft(LAMBDA f, g : Fragment(f.text \o <<Symbol(word)>> \o g.text, f.binds \o g.binds),
             Head(fragments), Tail(fragments))

ValueToBind(value) ==
    CASE value.type = "String" -> SqlText(value.text)
      [] value.type \in {"Integer", "Float"} -> SqlNumber(NumberOf[value.text])
      [] value.type = "Bool" -> SqlNumber(IF Lower[value.text] = "true" THEN 1 ELSE 0)

ColumnForField(field) ==
    CASE field = "level" -> [expr |-> "lower", of |-> field]
      [] field \in KnownKeys \ {"level"} -> [expr |-> "column", of |-> field]
      [] OTHER -> [expr |-> "json", of |-> field]

\* Fault: the value for level keeps its case.
LoweredNever(field, value) == value

\* For level the value is lowered like the column; numbers stay numbers.
Lowered(field, value) ==
    IF field = "level" /\ value.type = "text" THEN SqlText(Lower[value.v]) ELSE value

TranslateLeaf(clause) ==
    CASE clause.tag = "compare" ->
            Placeholder(ColumnForField(clause.field), clause.op,
                        Lowered(clause.field, ValueToBind(clause.value)))
      [] clause.tag = "contains" ->
            Placeholder(ColumnForField(clause.field), "LIKE",
                        Lowered(clause.field, SqlText(clause.value)))
      [] clause.tag = "last" ->
            Placeholder(ColumnForField("timestamp"), ">=",
                        SqlText(CutoffText(clause.amount, clause.unit)))
      [] clause.tag = "since" ->
            Placeholder(ColumnForField("timestamp"), ">=", SqlText(Instant[clause.moment]))

\* Fault: a group of several AND-groups gets no parentheses of its own.
RECURSIVE TranslateAndGroup(_)
TranslateClauseBare(clause) ==
    IF clause.tag # "group" THEN TranslateLeaf(clause)
    ELSE JoinWith("OR", [i \in DOMAIN clause.groups |-> TranslateAndGroup(clause.groups[i])])

TranslateClause(clause) ==
    IF clause.tag # "group" THEN TranslateLeaf(clause)
    ELSE LET groups == [i \in DOMAIN clause.groups |-> TranslateAndGroup(clause.groups[i])]
         IN  IF Len(groups) = 1 THEN groups[1] ELSE Paren(JoinWith("OR", groups))

TranslateAndGroup(group) ==
    Paren(JoinWith("AND", [i \in DOMAIN group |-> TranslateClause(group[i])]))

BuildSql(query) ==
    JoinWith("OR", [i \in DOMAIN query |-> TranslateAndGroup(query[i])])

\* A datetime that parse_datetime refuses fails the query before any SQL runs.
RECURSIVE Leaves(_)
Leaves(query) ==
    UNION {IF c.tag = "group" THEN Leaves(c.groups) ELSE {c} :
              c \in UNION {Range(query[i]) : i \in DOMAIN query}}
Translatable(query) ==
    \A c \in Leaves(query) : c.tag = "since" => c.moment \in DOMAIN Instant

-----------------------------------------------------------------------------
(* SQLite, external. *)

CONSTANTS
    ByteOrder,      \* text -> its place in the order of texts by their bytes
    NumberText,     \* number -> its text
    Inside          \* text -> the texts, in lower case, that it has inside

\* TEXT affinity of a column converts a bound number to text; an expression
\* such as lower() or json_extract() converts nothing.
Converted(column, value) ==
    IF column.expr = "column" /\ value.type = "number"
      THEN SqlText(NumberText[value.v]) ELSE value

ColumnValue(row, column) ==
    LET v == IF column.of \in DOMAIN row THEN row[column.of] ELSE Null
    IN  IF column.expr = "lower" /\ v # Null THEN SqlText(Lower[v.v]) ELSE v

\* NULLs compare with nothing, numbers come before texts.
SqlLess(v, w) ==
    CASE v.type = "number" /\ w.type = "number" -> v.v < w.v
      [] v.type = "text" /\ w.type = "text" ->
            ByteOrder[v.v] < ByteOrder[w.v]
      [] OTHER -> v.type = "number" /\ w.type = "text"
SqlEqual(v, w) == v.type = w.type /\ v.v = w.v

Like(v, pattern) ==
    Lower[pattern] \in Inside[IF v.type = "number" THEN NumberText[v.v] ELSE v.v]

Holds(row, placeholder, bound) ==
    LET v == ColumnValue(row, placeholder.column)
        w == Converted(placeholder.column, bound)
    IN  /\ v # Null
        /\ CASE placeholder.op = "=" -> SqlEqual(v, w)
             [] placeholder.op = "!=" -> ~SqlEqual(v, w)
             [] placeholder.op = "<" -> SqlLess(v, w)
             [] placeholder.op = ">" -> SqlLess(w, v)
             [] placeholder.op = ">=" -> ~SqlLess(v, w)
             [] placeholder.op = "LIKE" -> Like(v, w.v)

\* The condition between two symbols: split at an OR outside all parentheses,
\* else at an AND; the i-th placeholder has the i-th value.  A condition has
\* no NOT, so that NULL counts as false.
Selects(sql, row) ==
    LET text == sql.text
        depth[i \in 0 .. Len(text)] ==
            IF i = 0 THEN 0
            ELSE depth[i - 1] + (CASE text[i].sym = "(" -> 1 [] text[i].sym = ")" -> -1 [] OTHER -> 0)
        bound(i) == sql.binds[Cardinality({j \in 1 .. i : text[j].sym = "?"})]
        true[i \in 1 .. Len(text), j \in 1 .. Len(text)] ==
            LET splits(word) == {k \in i .. j : text[k].sym = word /\ depth[k] = depth[i - 1]}
            IN  CASE splits("OR") # {} ->
                        LET k == Min(splits("OR")) IN true[i, k - 1] \/ true[k + 1, j]
                  [] splits("OR") = {} /\ splits("AND") # {} ->
                        LET k == Min(splits("AND")) IN true[i, k - 1] /\ true[k + 1, j]
                  [] OTHER -> IF text[i].sym = "(" THEN true[i + 1, j - 1]
                              ELSE Holds(row, text[i], bound(i))
    IN  true[1, Len(text)]
=============================================================================
