----------------------------- MODULE QueryParser -----------------------------
(***************************************************************************)
(* The recursive descent parser of the query language (query.rs), from     *)
(* tokens to a tree.  A token is [kind, text]; positions are indices into  *)
(* the tokens, Len(ts) + 1 being the end of the input.  A parse either     *)
(* gives a node and the cursor behind it, or the token to which the error  *)
(* is attributed and whether a wrong token or the end of the input is its  *)
(* cause.  The methods of Parser are one recursive function over the       *)
(* cursor and the level of the grammar; a loop over AND or OR is one too.  *)
(***************************************************************************)
EXTENDS Naturals, Sequences, FiniteSetsExt

CONSTANTS
    Lower,      \* bare word -> the word in lower case (eq_ignore_ascii_case)
    FieldNames, \* bare words that validate_field_name accepts
    Decimals,   \* number texts with a dot
    U64, I64    \* number texts without a dot that fit the type

ASSUME NumbersAssumption == I64 \subseteq U64 /\ U64 \cap Decimals = {}

Tok(kind, text) == [kind |-> kind, text |-> text]
Word(text) == Tok("ident", text)
Sign(kind) == Tok(kind, "")

Done(node, next) == [ok |-> TRUE, node |-> node, next |-> next]
Fail(at, why) == [ok |-> FALSE, at |-> at, why |-> why]

Is(ts, c, kind) == c <= Len(ts) /\ ts[c].kind = kind
IsWord(ts, c, word) == Is(ts, c, "ident") /\ Lower[ts[c].text] = word
IsJoin(ts, c) == IsWord(ts, c, "and") \/ IsWord(ts, c, "or")

\* What the parser accepts at each place of a clause.
IsField(t) == t.kind = "ident" /\ t.text \in FieldNames
IsOp(t) == t.kind \in {"=", "!=", ">", "<"}
IsValue(t) ==
    \/ t.kind \in {"quoted", "ident"}
    \/ t.kind = "number" /\ t.text \in Decimals \cup I64
IsText(t) == t.kind \in {"quoted", "ident"}
IsMoment(t) == t.kind \in {"quoted", "ident", "number"}
IsAmount(t) == t.kind = "number" /\ t.text \in U64
IsUnit(t) == t.kind = "ident" /\ t.text \in {"m", "h", "d"}

Typed(t) ==
    [text |-> t.text,
     type |-> CASE t.kind = "quoted" -> "String"
                [] t.kind = "number" /\ t.text \in Decimals -> "Float"
                [] t.kind = "number" /\ t.text \notin Decimals -> "Integer"
                [] t.kind = "ident" /\ Lower[t.text] \in {"true", "false"} -> "Bool"
                [] OTHER -> "String"]

Compare(field, op, value) ==
    [tag |-> "compare", field |-> field.text, op |-> op.kind, value |-> Typed(value)]
ContainsClause(field, value) == [tag |-> "contains", field |-> field.text, value |-> value.text]
LastDuration(amount, unit) ==
    [tag |-> "last", amount |-> amount.text, unit |-> unit.text]
SinceDatetime(moment) == [tag |-> "since", moment |-> moment.text]
Group(groups) == [tag |-> "group", groups |-> groups]

Accepts(place, t) ==
    CASE place = "field" -> IsField(t)
      [] place = "operator" -> IsOp(t)
      [] place = "value" -> IsValue(t)
      [] place = "text" -> IsText(t)
      [] place = "amount" -> IsAmount(t)
      [] place = "unit" -> IsUnit(t)
      [] place = "moment" -> IsMoment(t)

NotAccepted(ts, c, places) ==
    {i \in DOMAIN places : c + i - 1 > Len(ts) \/ ~Accepts(places[i], ts[c + i - 1])}

\* The tokens from c on, one for each of the places, and then the node; or the
\* first that is missing or not accepted.
Expect(ts, c, places, node) ==
    LET wrong == NotAccepted(ts, c, places)
        at == c + Min(wrong) - 1
    IN  IF wrong = {} THEN Done(node, c + Len(places))
        ELSE Fail(at, IF at > Len(ts) THEN "end" ELSE "token")

ParseLastDuration(ts, c) ==
    Expect(ts, c, <<"amount", "unit">>, LastDuration(ts[c], ts[c + 1]))

ParseSinceDatetime(ts, c) == Expect(ts, c, <<"moment">>, SinceDatetime(ts[c]))

ParseFieldLedClause(ts, c) ==
    IF IsField(ts[c]) /\ IsWord(ts, c + 1, "contains")
      THEN Expect(ts, c + 2, <<"text">>, ContainsClause(ts[c], ts[c + 2]))
      ELSE Expect(ts, c, <<"field", "operator", "value">>, Compare(ts[c], ts[c + 1], ts[c + 2]))

\* Fault: the end of the input closes a group.
ParseGroupUnclosed(ts, c, inner) ==
    IF ~inner.ok THEN inner
    ELSE CASE inner.next > Len(ts) -> Done(Group(inner.node), inner.next)
           [] Is(ts, inner.next, ")") -> Done(Group(inner.node), inner.next + 1)
           [] OTHER -> Fail(inner.next, "token")

ParseGroup(ts, c, inner) ==
    IF ~inner.ok THEN inner
    ELSE CASE inner.next > Len(ts) -> Fail(c, "end")
           [] Is(ts, inner.next, ")") -> Done(Group(inner.node), inner.next + 1)
           [] OTHER -> Fail(inner.next, "token")

\* parse has the result of each level of the grammar from each token on.
ParseClause(ts, parse, c) ==
    CASE c > Len(ts) -> Fail(c, "end")
      [] Is(ts, c, "(") -> ParseGroup(ts, c, parse[c + 1]["or"])
      [] Is(ts, c, ")") \/ IsJoin(ts, c) -> Fail(c, "token")
      [] IsWord(ts, c, "last") -> ParseLastDuration(ts, c + 1)
      [] IsWord(ts, c, "since") -> ParseSinceDatetime(ts, c + 1)
      [] OTHER -> ParseFieldLedClause(ts, c)

\* One turn of the loop of parse_or_expr or parse_and_expr: an operand of the
\* level below, and if a join follows it the rest of the loop.
Joined(ts, parse, level, below, word, c) ==
    LET first == parse[c][below]
        join == first.next
        rest == parse[join + 1][level]
    IN  IF ~first.ok THEN first
        ELSE CASE ~IsWord(ts, join, word) -> Done(<<first.node>>, join)
               [] IsWord(ts, join, word) /\ join = Len(ts) -> Fail(join, "end")
               [] IsWord(ts, join, word) /\ IsJoin(ts, join + 1) -> Fail(join + 1, "token")
               [] OTHER -> IF ~rest.ok THEN rest
                           ELSE Done(<<first.node>> \o rest.node, rest.next)

\* Fault: OR binds tighter than AND.
ParseLevelSwapped(ts) ==
    LET parse[c \in 1 .. Len(ts) + 1] == [level \in {"or", "and", "clause"} |->
            CASE level = "or" -> Joined(ts, parse, "or", "and", "and", c)
              [] level = "and" -> Joined(ts, parse, "and", "clause", "or", c)
              [] level = "clause" -> ParseClause(ts, parse, c)]
    IN  parse

ParseLevel(ts) ==
    LET parse[c \in 1 .. Len(ts) + 1] == [level \in {"or", "and", "clause"} |->
            CASE level = "or" -> Joined(ts, parse, "or", "and", "or", c)
              [] level = "and" -> Joined(ts, parse, "and", "clause", "and", c)
              [] level = "clause" -> ParseClause(ts, parse, c)]
    IN  parse

\* Fault: tokens behind a complete expression are ignored.
ParseIgnoringRest(ts) == ParseLevel(ts)[1]["or"]

Parse(ts) ==
    LET query == ParseLevel(ts)[1]["or"]
    IN  IF query.ok /\ query.next <= Len(ts) THEN Fail(query.next, "token") ELSE query
=============================================================================
