------------------------------ MODULE LogLine ------------------------------
(***************************************************************************)
(* From one line of a log to an entry (parsers/, entry.rs).  A line is its *)
(* text and, if serde_json can read it, the JSON value it reads.  A JSON   *)
(* value is [kind, text], where text is how serde_json prints it and an    *)
(* object also has its members, in the order of the line.  An Option is a  *)
(* set with at most one value.                                             *)
(***************************************************************************)
EXTENDS Logfmt, SequencesExt

CONSTANTS
    WideSpace,      \* white space beyond ASCII, which only trim() takes for it
    Timestamp, Level, Message, Tag      \* the names of the columns, as texts

KnownKeys == {Timestamp, Level, Message, Tag}

Line(text, json) == [text |-> text, json |-> json]

Scalar(kind, text) == [kind |-> kind, text |-> text]
String(text) == Scalar("string", text)
IsScalar(value) == value.kind \in {"string", "number", "bool", "null"}

\* Fault: white space is that of ASCII, as in the scanner of logfmt.
IsBlankAscii(line) == Range(line.text) \subseteq Space

IsBlank(line) == Range(line.text) \subseteq Space \cup WideSpace

\* Fault: the first value of a key stays.
MembersFirst(pairs) ==
    LET at(key) == Min({i \in DOMAIN pairs : pairs[i].key = key})
    IN  [key \in {p.key : p \in Range(pairs)} |-> pairs[at(key)].value]

\* Last write wins: in logfmt's loop, and in serde_json's map.
Members(pairs) ==
    LET at(key) == Max({i \in DOMAIN pairs : pairs[i].key = key})
    IN  [key \in {p.key : p \in Range(pairs)} |-> pairs[at(key)].value]

\* Known keys become columns, an object under a known key stays a field.
Promoted(line, members) ==
    LET lifted == {key \in KnownKeys \cap DOMAIN members : IsScalar(members[key])}
    IN  [known |-> [key \in KnownKeys |-> IF key \in lifted THEN {members[key].text} ELSE {}],
         fields |-> Restrict(members, DOMAIN members \ lifted), raw |-> line.text]

ParseJson(line) ==
    {Promoted(line, Members(value.members)) : value \in {v \in line.json : v.kind = "object"}}

\* Every value of logfmt is a text.
ParseLogfmt(line) ==
    {Promoted(line, Members([i \in DOMAIN pairs |-> [pairs[i] EXCEPT !.value = String(@)]])) :
        pairs \in ParsePairs(line.text) \ {<<>>}}

ParsePlain(line) ==
    {Promoted(line, Members(<<[key |-> Message, value |-> String(line.text)]>>))}

ParseLine(format, line) ==
    CASE IsBlank(line) -> {}
      [] ~IsBlank(line) /\ format = "json" -> ParseJson(line)
      [] ~IsBlank(line) /\ format = "logfmt" -> ParseLogfmt(line)
      [] ~IsBlank(line) /\ format = "plain" -> ParsePlain(line)
=============================================================================
