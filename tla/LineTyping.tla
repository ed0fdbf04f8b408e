----------------------------- MODULE LineTyping -----------------------------
(***************************************************************************)
(* Lines as loggers write them, records that are logged in two formats,    *)
(* field names, numbers and texts to look for, and what the program makes  *)
(* of them from the line to the screen.                                    *)
(***************************************************************************)
EXTENDS TextTyping, FieldLookup, Rendering

\* JSON that is not a string is written on one line and not in quotes.
IsBare(value) == "\n" \notin Range(value.text) /\ (value.text # <<>> => Head(value.text) # "\"")

\* A pair of a record has any text for its key, as JSON has.
IsPair(pair) ==
    /\ pair = [key |-> pair.key, value |-> pair.value]
    /\ pair.key \in Seq(Range(pair.key))
    /\ pair.value.text \in Seq(Range(pair.value.text))
    /\ pair.value.kind # "string" => IsBare(pair.value)

\* Letters and braces can be seen, the names in a row differ, and the separators
\* of a line are no letters.  A lower-case letter is its own lower case.  A record
\* consists of pairs, and so does an object in it.
ASSUME LinesAssumption ==
    /\ "a" \in Letter /\ " " \in Space
    /\ Letter \cap WideSpace = {} /\ "{" \notin Space \cup WideSpace
    /\ {"\n", ","} \cap (Letter \cup Digit) = {}
    /\ IsInjective(<<Timestamp, Level, Message, Tag, FieldsName, RawName>>)
    /\ \A c \in DOMAIN ToLowercase :
         ToLowercase[c] \in DOMAIN ToLowercase => ToLowercase[ToLowercase[c]] = ToLowercase[c]
    /\ "count" \in DOMAIN Sessions => "," \notin Sessions["count"].alphabet
    /\ "records" \in DOMAIN Sessions =>
         \A pair \in Sessions["records"].alphabet :
            /\ IsPair(pair)
            /\ pair.value.kind = "object" =>
                 /\ pair.value.members \in Seq(Range(pair.value.members))
                 /\ \A member \in Range(pair.value.members) : IsPair(member)

\* A pair is read the same whatever stands in front of it and behind it: white
\* space ends a pair for good, unless it is inside a quoted value that the part
\* in front has not closed.
PairsAreLocal ==
    About("logfmt") =>
        \A i \in DOMAIN input : input[i] \in Space =>
            \A front \in ParsePairs(SubSeq(input, 1, i - 1)) :
                ParsePairs(input) =
                    {front \o back : back \in ParsePairs(SubSeq(input, i + 1, Len(input)))}

\* A logger that quotes a value escapes its quotes and backslashes, and writes
\* a line break as \n, which the scanner leaves as these two characters.
Written(pair) == pair.key \o <<"=">> \o JsonString(pair.value)
Kept(text) == FlattenSeq([i \in DOMAIN text |-> IF text[i] = "\n" THEN <<"\\", "n">> ELSE <<text[i]>>])

\* Any text that a logger quotes is read back as it was, but for line breaks, and
\* what follows it is a pair of its own.
QuotedReadsBack ==
    About("logfmt") =>
        LET pair == [key |-> <<"a">>, value |-> input]
        IN  ParsePairs(Written(pair) \o <<" ", "a", "-">>) =
                {<<[pair EXCEPT !.value = Kept(@)], [key |-> <<"a", "-">>, value |-> True]>>}

\* Plain text keeps every line on which there is something to see, as it is: a
\* line that logfmt keeps, one that it drops for an open quote, and one without
\* any pair.
PlainKeepsEveryLine ==
    About("logfmt") =>
        LET line == Line(input, {})
            visible == Range(input) \ (Space \cup WideSpace)
        IN  /\ (visible = {}) =>
                    \A format \in {"json", "logfmt", "plain"} : ParseLine(format, line) = {}
            /\ (visible # {}) =>
                    \E entry \in ParseLine("plain", line) :
                        /\ entry.known[Message] = {input} /\ DOMAIN entry.fields = {}
                        /\ \A key \in KnownKeys \ {Message} : entry.known[key] = {}

-----------------------------------------------------------------------------
(* Records: sequences of keys with JSON values. *)

LoggedAsJson(record) ==
    Line(<<"{", "}">>, {[kind |-> "object", text |-> <<"{", "}">>, members |-> record]})
LoggedAsLogfmt(record) ==
    Line(Joined([i \in DOMAIN record |-> Written([record[i] EXCEPT !.value = @.text])], <<" ">>), {})

FromJson == CHOOSE entry \in ParseLine("json", LoggedAsJson(input)) : TRUE
FromLogfmt == CHOOSE entry \in ParseLine("logfmt", LoggedAsLogfmt(input)) : TRUE

\* What a record says last under each of its keys.
LastOf(pairs) ==
    {pairs[i] : i \in {i \in DOMAIN pairs : \A j \in DOMAIN pairs : j > i => pairs[j].key # pairs[i].key}}
LastPairs == LastOf(input)

Recorded == About("records") /\ input # <<>>

\* JSON can have any text as a key, logfmt cannot.
LogfmtKey(key) == key # <<>> /\ key[1] \in KeyStart /\ Range(key) \subseteq KeyContinue
Loggable == \A p \in Range(input) : LogfmtKey(p.key)
Entries == {FromJson} \cup (IF Loggable THEN {FromLogfmt} ELSE {})

\* A record gives the same columns and the same texts whether it is logged as
\* JSON or as logfmt, but for a line break; only an object under a known key,
\* which JSON keeps as a field, is a column's text in logfmt.
FormatsAgree ==
    (Recorded /\ Loggable) =>
        /\ ParseLine("json", LoggedAsJson(input)) # {} /\ ParseLine("logfmt", LoggedAsLogfmt(input)) # {}
        /\ \A p \in LastPairs :
            LET known == p.key \in KnownKeys
            IN  /\ IF known THEN FromLogfmt.known[p.key] = {Kept(p.value.text)}
                   ELSE FromLogfmt.fields[p.key] = String(Kept(p.value.text))
                /\ IF known /\ IsScalar(p.value) THEN FromJson.known[p.key] = {p.value.text}
                   ELSE FromJson.fields[p.key] = p.value
        /\ \A key \in KnownKeys : key \notin {p.key : p \in LastPairs} =>
            FromJson.known[key] = {} /\ FromLogfmt.known[key] = {}

Names == {p.key : p \in Range(input)}
            \cup {p.key \o <<".", "b">> : p \in LastPairs}

\* A name that the parser lets pass and SQLite reads as a path.
IsName(field) == ValidateFieldName(field) /\ <<>> \notin Range(JsonPath(field))

\* A field whose key is a name is reached by it, a member of an object by the
\* names joined with a dot, and a key that itself has a dot by no name at all.
ReachedByName ==
    Recorded =>
        \A p \in LastPairs :
            LET fields == FromJson.fields
                found(name) == JsonExtract(fields, JsonPath(name))
                dotted == "." \in Range(p.key)
            IN  /\ (IsName(p.key) /\ ~dotted /\ p.key \notin KnownKeys) => found(p.key) = JsonToSql(p.value)
                /\ (~dotted /\ p.value.kind = "object") =>
                        \A m \in LastOf(p.value.members) :
                            (IsName(p.key \o <<".">> \o m.key) /\ "." \notin Range(m.key)) =>
                                found(p.key \o <<".">> \o m.key) = JsonToSql(m.value)
                /\ dotted =>
                        \A name \in {n \in Names : IsName(n)} :
                            found(name) = JsonExtract(Restrict(fields, DOMAIN fields \ {p.key}), JsonPath(name))

\* A number or a truth value that is logged as JSON is found by the number or
\* the truth value and not by its text in quotes; logged as logfmt it is the
\* other way round.  A column is found by the number and by the text.
TypesFollowTheFormat ==
    Recorded =>
        \A p \in {q \in LastPairs : q.value.kind \in {"number", "bool"} /\ IsName(q.key) /\ "." \notin Range(q.key)} :
            LET quoted == String(p.value.text)
                typed == IF p.value.kind = "number" THEN {quoted, p.value} ELSE {quoted}
            IN  /\ p.key \notin KnownKeys =>
                        /\ Selects(FromJson, p.key, p.value) /\ ~Selects(FromJson, p.key, quoted)
                        /\ Loggable => Selects(FromLogfmt, p.key, quoted) /\ ~Selects(FromLogfmt, p.key, p.value)
                /\ p.key \in KnownKeys \ {Level} =>
                        \A entry \in Entries, value \in typed : Selects(entry, p.key, value)

\* A level is found in upper and in lower case, if lower() knows its letters, and
\* otherwise not even as it was logged.  A number never finds it.
LevelsAreTexts ==
    Recorded =>
        \A p \in {q \in LastPairs : q.key = Level /\ IsScalar(q.value) /\ "\n" \notin Range(q.value.text)} :
            LET text == p.value.text
                lower == Lowered(text, ToLowercase)
            IN  \A entry \in Entries :
                    /\ \A typed \in {text, lower} :
                            Selects(entry, Level, String(typed)) <=> Lowered(text, CaseFold) = lower
                    /\ p.value.kind \in {"number", "bool"} => ~Selects(entry, Level, p.value)

\* The field names that the parser lets pass are those that may stand in SQL:
\* the second check never refuses what the first has accepted.
FieldNamesAgree ==
    About("field") => (ValidateFieldName(input) <=> IsSafeJsonPathSegment(input))

-----------------------------------------------------------------------------
(* On the screen. *)

\* A row that is printed as JSON and logged again has the columns of the first
\* one, where a missing one has become the text null, its fields under another
\* name, and the line as it was.
RowsAreLoggedBack ==
    Recorded =>
        \A entry \in Entries :
            \E row \in ParseLine("json", Line(<<"{", "}">>, {EntryToJson(entry)})) :
                /\ \A key \in KnownKeys :
                        row.known[key] = IF entry.known[key] = {} THEN {NullText} ELSE entry.known[key]
                /\ \A key \in DOMAIN entry.fields :
                        JsonExtract(row.fields, <<FieldsName, key>>) = JsonExtract(entry.fields, <<key>>)
                /\ row.fields[RawName] = String(entry.raw)

\* The end of the k=v that begins at i: a value in quotes ends at its closing
\* quote, any other one in front of the next comma.
FieldEnd(line, i) ==
    LET value == NextOf(line, i, {"="}) + 1
        ends == IF At(line, value, {"\""}) THEN {v.next : v \in ReadQuotedValue(line, value + 1)}
                ELSE {j \in value .. Len(line) : line[j] = ","}
    IN  Min(ends \cup {Len(line) + 1})

\* The parts of k=v, k=v, one after the other.
SplitFields(line) ==
    LET split[n \in 0 .. Len(line)] ==
            LET last == split[n - 1]
                end == FieldEnd(line, last.next)
            IN  CASE n = 0 -> [next |-> 1, parts |-> {}]
                  [] n > 0 /\ last.next > Len(line) -> last
                  [] OTHER -> [next |-> end + 2, parts |-> last.parts \cup {SubSeq(line, last.next, end - 1)}]
    IN  split[Len(line)].parts

\* The fields on a line can be told apart again, whatever is in their texts, unless
\* a key has the sign in it, or JSON that is not a string, an object or an array,
\* prints commas of its own.
FieldsSplitBack ==
    Recorded =>
        \A entry \in Entries :
            (\A key \in DOMAIN entry.fields :
                /\ "=" \notin Range(key)
                /\ "," \in Range(entry.fields[key].text) => entry.fields[key].kind = "string") =>
            SplitFields(FormatFields(entry.fields)) =
                {FormatField(entry.fields, key) : key \in DOMAIN entry.fields}

\* The line of a row breaks only where a column or a key has a line break in it:
\* the values of fields never make two lines of a row, while a key of JSON, which
\* is printed as it is, does.
OneLinePerRow ==
    Recorded =>
        \A entry \in Entries :
            LET breaks(text) == Cardinality({i \in DOMAIN text : text[i] = "\n"})
                shown(key) == IF entry.known[key] = {} THEN 0 ELSE breaks(CHOOSE v \in entry.known[key] : TRUE)
                expected == shown(Timestamp) + shown(Level) + shown(Message) + shown(Tag)
            IN  breaks(FormatPrettyLine(entry)) = expected
                    <=> \A key \in DOMAIN entry.fields : "\n" \notin Range(key)

\* A text is looked for as it is typed, wildcards and backslashes included, and
\* only the case of letters is ignored.
ContainsIsLiteral ==
    About("search") =>
        \A cut \in 0 .. Len(input) :
            LET text == SubSeq(input, 1, cut)
                sought == SubSeq(input, cut + 1, Len(input))
                same(i) == \A j \in DOMAIN sought : CaseFold[sought[j]] = CaseFold[text[i + j]]
            IN  Like(text, ContainsPattern(sought)) <=> \E i \in 0 .. Len(text) - Len(sought) : same(i)

\* A number printed with commas is the number: without them its digits, with
\* three digits behind every comma and one to three in front of the first.
CountsReadBack ==
    (About("count") /\ input # <<>>) =>
        LET shown == WithThousandsSeparator(input)
            commas == {i \in DOMAIN shown : shown[i] = ","}
            others == [i \in DOMAIN shown |-> IF i \in commas THEN <<>> ELSE <<shown[i]>>]
        IN  /\ FlattenSeq(others) = input
            /\ \A i \in DOMAIN shown : i \in commas <=> (i > 1 /\ (Len(shown) - i) % 4 = 3)

-----------------------------------------------------------------------------
\* What a logger writes is what is stored: quoted values, plain lines, and
\* records whatever their format.
LinesReadBack == QuotedReadsBack /\ PlainKeepsEveryLine /\ FormatsAgree

\* What is stored is found by the names, values and texts that a user types.
FieldsAreFound == ReachedByName /\ TypesFollowTheFormat /\ LevelsAreTexts /\ FieldNamesAgree /\ ContainsIsLiteral

\* What is printed says what is stored: fields, rows, JSON and numbers can be
\* read back from it.
OutputReadsBack == FieldsSplitBack /\ OneLinePerRow /\ RowsAreLoggedBack /\ CountsReadBack
=============================================================================
