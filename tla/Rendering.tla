----------------------------- MODULE Rendering -----------------------------
(***************************************************************************)
(* What query and stats print (render.rs, stats_cmd.rs), without colours:  *)
(* the line of an entry with its fields as k=v, k=v, and numbers with a    *)
(* comma in front of every group of three digits.                          *)
(***************************************************************************)
EXTENDS LogLine

CONSTANTS FieldsName, RawName, NullText     \* texts

\* Fault: every text that is not empty counts as simple.
IsSimpleTokenAny(text) == text # <<>>

IsSimpleToken(text) == text # <<>> /\ Range(text) \subseteq Letter \cup Digit \cup {"-", "."}

\* serde_json: a string in quotes, with the characters that need it escaped.
JsonString(text) ==
    LET escaped(c) == CASE c \in {"\"", "\\"} -> <<"\\", c>> [] c = "\n" -> <<"\\", "n">> [] OTHER -> <<c>>
    IN  <<"\"">> \o FlattenSeq([i \in DOMAIN text |-> escaped(text[i])]) \o <<"\"">>

FormatFieldValue(value) ==
    IF value.kind = "string" /\ ~IsSimpleToken(value.text) THEN JsonString(value.text) ELSE value.text

Joined(parts, separator) ==
    FlattenSeq([i \in DOMAIN parts |-> IF i = 1 THEN parts[1] ELSE separator \o parts[i]])

FormatField(fields, key) == key \o <<"=">> \o FormatFieldValue(fields[key])
FormatFields(fields) ==
    LET keys == SetToSeq(DOMAIN fields)     \* the order of the map
    IN  Joined([i \in DOMAIN keys |-> FormatField(fields, keys[i])], <<",", " ">>)

\* A missing column is a dash, a tag without a name is left out.
FormatPrettyLine(entry) ==
    LET known(key, default) == IF entry.known[key] = {} THEN default ELSE CHOOSE v \in entry.known[key] : TRUE
        gap == <<" ", " ">>
        tag == known(Tag, <<>>)
        fields == FormatFields(entry.fields)
    IN  known(Timestamp, <<"-">>) \o gap \o known(Level, <<"-">>)
          \o (IF tag = <<>> THEN <<>> ELSE gap \o <<"[">> \o tag \o <<"]">>)
          \o gap \o known(Message, <<>>)
          \o (IF DOMAIN entry.fields = {} THEN <<>> ELSE gap \o <<"{">> \o fields \o <<"}">>)

Object(members) == [kind |-> "object", text |-> <<"{", "}">>, members |-> members]
Pairs(fields) ==
    LET keys == SetToSeq(DOMAIN fields)
    IN  [i \in DOMAIN keys |-> [key |-> keys[i], value |-> fields[keys[i]]]]

Columns(entry) ==
    LET known(key) == IF entry.known[key] = {} THEN Scalar("null", NullText)
                      ELSE String(CHOOSE v \in entry.known[key] : TRUE)
        keys == <<Timestamp, Level, Message, Tag>>
    IN  [i \in DOMAIN keys |-> [key |-> keys[i], value |-> known(keys[i])]]

\* Fault: the fields stand beside the columns.
EntryToJsonFlat(entry) ==
    Object(Columns(entry) \o Pairs(entry.fields) \o <<[key |-> RawName, value |-> String(entry.raw)]>>)

\* The value that a row is printed as, and that GET /query answers.
EntryToJson(entry) ==
    Object(Columns(entry) \o <<[key |-> FieldsName, value |-> Object(Pairs(entry.fields))],
                               [key |-> RawName, value |-> String(entry.raw)]>>)

\* Fault: the groups are counted from the front.
WithThousandsSeparatorFront(digits) ==
    Joined([i \in DOMAIN digits |->
                IF i > 1 /\ (i - 1) % 3 = 0 THEN <<",", digits[i]>> ELSE <<digits[i]>>], <<>>)

WithThousandsSeparator(digits) ==
    LET before(i) == i - 1      \* digits in front of the i-th
    IN  Joined([i \in DOMAIN digits |->
                    IF before(i) > 0 /\ (Len(digits) - before(i)) % 3 = 0
                      THEN <<",", digits[i]>> ELSE <<digits[i]>>], <<>>)
=============================================================================
