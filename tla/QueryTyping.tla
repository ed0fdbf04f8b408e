----------------------------- MODULE QueryTyping -----------------------------
(***************************************************************************)
(* A user types a query token by token and knows what it means: open holds *)
(* the groups of the expression and of every parenthesis still open, each  *)
(* with the index of its "(", half is the clause being typed, place says   *)
(* where in the grammar the next token stands.  The user follows the       *)
(* grammar in the documentation of query.rs (AND binds tighter than OR,    *)
(* and, or, last and since begin no field) or types a wrong token, after   *)
(* which anything follows.  Every prefix is a query that the program could *)
(* be asked, and Parse is compared with what its user knows.               *)
(***************************************************************************)
EXTENDS QueryParser

CONSTANT
    Sessions    \* what a user types and how much of it:
                \*   tokens    the tokens to choose from
                \*   maxTokens, maxDepth  bounds on the length and the open parentheses
                \*   maxLost   bound on the tokens from the first wrong one on
                \*   rows      the rows of the index that is asked

VARIABLES session, tokens, open, half, place, wrongAt

vars == <<session, tokens, open, half, place, wrongAt>>

Reserved == {"and", "or", "last", "since"}

Init ==
    /\ session \in Sessions
    /\ tokens = <<>> /\ half = <<>> /\ wrongAt = 0
    /\ open = <<[at |-> 0, groups |-> <<<<>>>>]>>
    /\ place = "clause"

Top == open[Len(open)]

\* The expression with a clause added to its last AND-group.
WithClause(exprs, clause) ==
    LET groups == exprs[Len(exprs)].groups
    IN  [exprs EXCEPT ![Len(exprs)].groups[Len(groups)] = Append(@, clause)]

Type(t, then) == tokens' = Append(tokens, t) /\ place' = then /\ wrongAt' = wrongAt

\* A token in the middle of a clause, and the one that completes it.
Continue(t, then) == Type(t, then) /\ half' = Append(half, t) /\ UNCHANGED open
Finish(t, clause) ==
    Type(t, "join") /\ half' = <<>> /\ open' = WithClause(open, clause)

\* The tokens that the grammar has at a place.
OneOf(t, words) == t.kind = "ident" /\ Lower[t.text] \in words
Fits(t) ==
    CASE place = "clause" -> \/ t.kind = "(" \/ OneOf(t, {"last", "since"})
                           \/ (IsField(t) /\ ~OneOf(t, Reserved))
      [] place = "join" -> OneOf(t, {"and", "or"}) \/ (t.kind = ")" /\ Len(open) > 1)
      [] place = "operator" -> IsOp(t) \/ OneOf(t, {"contains"})
      [] place = "value" -> IsValue(t)
      [] place = "text" -> IsText(t)
      [] place = "amount" -> IsAmount(t)
      [] place = "unit" -> IsUnit(t)
      [] place = "moment" -> IsMoment(t)
      [] place = "lost" -> FALSE

OpenParen(t) ==
    /\ place = "clause" /\ t.kind = "(" /\ Len(open) <= session.maxDepth
    /\ Type(t, "clause")
    /\ open' = Append(open, [at |-> Len(tokens) + 1, groups |-> <<<<>>>>])
    /\ UNCHANGED half

CloseParen(t) ==
    /\ place = "join" /\ t.kind = ")"
    /\ Type(t, "join")
    /\ open' = WithClause(SubSeq(open, 1, Len(open) - 1), Group(Top.groups))
    /\ UNCHANGED half

And(t) ==
    /\ place = "join" /\ OneOf(t, {"and"})
    /\ Type(t, "clause") /\ UNCHANGED <<open, half>>

Or(t) ==
    /\ place = "join" /\ OneOf(t, {"or"})
    /\ Type(t, "clause")
    /\ open' = [open EXCEPT ![Len(open)].groups = Append(@, <<>>)]
    /\ UNCHANGED half

FieldName(t) ==
    /\ place = "clause" /\ t.kind = "ident" /\ ~OneOf(t, Reserved)
    /\ Continue(t, "operator")

Operator(t) == place = "operator" /\ IsOp(t) /\ Continue(t, "value")
ContainsWord(t) == place = "operator" /\ ~IsOp(t) /\ Continue(t, "text")
Meant(t) ==
    CASE t.kind = "number" /\ t.text \in I64 -> "Integer"
      [] t.kind = "number" /\ t.text \notin I64 -> "Float"
      [] OneOf(t, {"true", "false"}) -> "Bool"
      [] OTHER -> "String"

Value(t) ==
    /\ place = "value"
    /\ Finish(t, [tag |-> "compare", field |-> half[1].text, op |-> half[2].kind,
                  value |-> [text |-> t.text, type |-> Meant(t)]])
Text(t) == place = "text" /\ Finish(t, ContainsClause(half[1], t))

LastWord(t) == place = "clause" /\ OneOf(t, {"last"}) /\ Continue(t, "amount")
Amount(t) == place = "amount" /\ Continue(t, "unit")
Unit(t) == place = "unit" /\ Finish(t, LastDuration(half[2], t))

SinceWord(t) == place = "clause" /\ OneOf(t, {"since"}) /\ Continue(t, "moment")
Moment(t) == place = "moment" /\ Finish(t, SinceDatetime(t))

Right(t) ==
    /\ Fits(t)
    /\ \/ OpenParen(t) \/ CloseParen(t) \/ And(t) \/ Or(t)
       \/ FieldName(t) \/ Operator(t) \/ ContainsWord(t) \/ Value(t) \/ Text(t)
       \/ LastWord(t) \/ Amount(t) \/ Unit(t) \/ SinceWord(t) \/ Moment(t)

Wrong(t) ==
    /\ ~Fits(t)
    /\ (IF wrongAt = 0 THEN 0 ELSE Len(tokens) + 1 - wrongAt) < session.maxLost
    /\ tokens' = Append(tokens, t) /\ place' = "lost"
    /\ wrongAt' = IF wrongAt = 0 THEN Len(tokens) + 1 ELSE wrongAt
    /\ UNCHANGED <<open, half>>

Next ==
    /\ Len(tokens) < session.maxTokens
    /\ \E t \in session.tokens : Right(t) \/ Wrong(t)
    /\ UNCHANGED session

Spec == Init /\ [][Next]_vars

-----------------------------------------------------------------------------
Complete == place = "join" /\ Len(open) = 1
Parsed == Parse(tokens)

\* A complete query is parsed to the tree its user means: AND binds tighter
\* than OR, parentheses override that and nothing else, no clause is lost,
\* moved or read with another operator or value type (module comment of
\* query.rs, lines 14-35).
ParsedAsMeant ==
    Complete => Parsed = Done(Top.groups, Len(tokens) + 1)

\* As long as all tokens are right but more are needed, the query is refused
\* as incomplete; the error points at what waits to be completed: the "(" that
\* is open, the AND or OR at the end, else the end of the input.
IncompleteIsRefused ==
    (place # "lost" /\ ~Complete) =>
        Parsed = Fail(CASE place = "join" -> Top.at
                        [] place = "clause" /\ tokens # <<>> /\ IsJoin(tokens, Len(tokens)) -> Len(tokens)
                        [] OTHER -> Len(tokens) + 1,
                      "end")

\* The error points at the first token that cannot stand where it stands, and
\* whatever comes behind it changes nothing (the caret of the error report).
FirstWrongTokenReported ==
    place = "lost" => Parsed = Fail(wrongAt, "token")

\* What is not a query is refused, and the error is where the user went wrong.
RefusedAtFault == IncompleteIsRefused /\ FirstWrongTokenReported

\* README.md:442 has query := or_expr [ TIME_RANGE ], and its first example
\* ends with "service=payments last 2h": a time range may follow a query
\* without AND.
TimeRangeMayFollow ==
    Complete => Parse(tokens \o <<Word("last"), Tok("number", "2"), Word("h")>>).ok
=============================================================================
