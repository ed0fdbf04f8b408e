---------------------------- MODULE FieldLookup ----------------------------
(***************************************************************************)
(* From the field and the value of a comparison to what SQLite compares    *)
(* (query.rs, executor.rs): a known field is a column, any other one a     *)
(* path into the JSON of the column fields.  A SQL value is [type, text].  *)
(***************************************************************************)
EXTENDS LogLine, LikePattern

CONSTANT ToLowercase    \* character -> character, for letters of every alphabet

\* str::to_lowercase, and with CaseFold the lower() of SQLite, which leaves all
\* but the letters of ASCII as they are.
Lowered(text, lower) == [i \in DOMAIN text |-> IF text[i] \in DOMAIN lower THEN lower[text[i]] ELSE text[i]]

FieldStart == Letter
FieldContinue == Letter \cup Digit \cup {"."}

\* Fault: a field name may have what a bare word may have.
ValidateFieldNameAsWord(field) ==
    field # <<>> /\ field[1] \in FieldStart /\ Range(field) \subseteq FieldContinue \cup {"-", ":"}

\* The check of the parser, and the same at the boundary to SQL.
ValidateFieldName(field) ==
    field # <<>> /\ field[1] \in FieldStart /\ Range(field) \subseteq FieldContinue
IsSafeJsonPathSegment(field) ==
    /\ field # <<>> /\ Head(field) \in FieldStart
    /\ \A i \in DOMAIN field : field[i] \in FieldContinue

Sql(type, text) == [type |-> type, text |-> text]
Null == Sql("null", <<>>)

\* Fault: a number is bound as the text it was typed as.
ValueToBindText(value) ==
    CASE value.kind \in {"string", "number"} -> Sql("text", value.text)
      [] value.kind = "bool" -> Sql("number", IF value.text = True THEN <<"1">> ELSE <<"0">>)

ValueToBind(value) ==
    CASE value.kind = "string" -> Sql("text", value.text)
      [] value.kind = "number" -> Sql("number", value.text)
      [] value.kind = "bool" -> Sql("number", IF value.text = True THEN <<"1">> ELSE <<"0">>)

\* Fault: the field is one name, whatever it has inside.
JsonPathQuoted(field) == <<field>>

\* '$.a.b' is the member b of the member a; SQLite refuses a path with an empty
\* name in it.
JsonPath(field) ==
    LET path[i \in 1 .. Len(field) + 1] ==
            LET end == NextOf(field, i, {"."})
            IN  <<SubSeq(field, i, end - 1)>> \o (IF end > Len(field) THEN <<>> ELSE path[end + 1])
    IN  path[1]

-----------------------------------------------------------------------------
(* SQLite, external: a JSON value as SQL, json_extract along a path, and   *)
(* = with the TEXT affinity of a column.                                   *)

JsonNull == Scalar("null", <<>>)

JsonToSql(value) ==
    CASE value.kind = "null" -> Null
      [] value.kind = "bool" -> Sql("number", IF value.text = True THEN <<"1">> ELSE <<"0">>)
      [] value.kind = "number" -> Sql("number", value.text)
      [] value.kind \in {"string", "object"} -> Sql("text", value.text)

JsonExtract(fields, path) ==
    LET at(members, name) == IF name \in DOMAIN members THEN members[name] ELSE JsonNull
        step(value, name) ==
            IF value.kind = "object" THEN at(Members(value.members), name) ELSE JsonNull
        reached[i \in DOMAIN path] ==
            IF i = 1 THEN at(fields, path[1]) ELSE step(reached[i - 1], path[i])
    IN  JsonToSql(reached[Len(path)])

\* Fault: the level is compared as the other columns are.
SelectsWithoutLower(entry, field, value) ==
    LET bound == ValueToBind(value)
    IN  IF field \in KnownKeys THEN bound.text \in entry.known[field]
        ELSE JsonExtract(entry.fields, JsonPath(field)) = bound

\* field = value.  A column turns a number into its text; lower(level) has no
\* affinity, so that a number never equals it.
Selects(entry, field, value) ==
    LET bound == ValueToBind(value)
    IN  CASE field = Level ->
                /\ bound.type = "text"
                /\ \E level \in entry.known[Level] : Lowered(level, CaseFold) = Lowered(bound.text, ToLowercase)
          [] field \in KnownKeys \ {Level} -> bound.text \in entry.known[field]
          [] OTHER -> JsonExtract(entry.fields, JsonPath(field)) = bound
=============================================================================
