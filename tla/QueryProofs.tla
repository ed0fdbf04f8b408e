----------------------------- MODULE QueryProofs -----------------------------
(***************************************************************************)
(* The parser of the query language against the user who types a query,    *)
(* for every set of tokens and every length: a complete query is parsed to *)
(* the tree its user means, any other is refused where it goes wrong.      *)
(*                                                                         *)
(* Parse is a recursive function over the cursor that looks ahead, whereas *)
(* the user adds tokens at the end.  The two meet in what is known of all  *)
(* texts that begin with what is typed (Continuations): each level that is *)
(* open is read in them as the user built it, and the rest as it would be  *)
(* read from the place reached (Leads).  First come the results of a       *)
(* parse, then the recursive function, unfolded once at each place, then   *)
(* the levels, the actions of QueryTyping and the invariant.               *)
(***************************************************************************)
EXTENDS QueryTyping, SequenceTheorems, WellFoundedInduction, TLAPS

(* Results of a parse. *)

\* A sequence, whatever its elements.
IsSeq(x) == \E S : x \in Seq(S)

LEMMA DoneIs ==
    ASSUME NEW node, NEW next
    PROVE  /\ Done(node, next).ok /\ Done(node, next).node = node /\ Done(node, next).next = next
           /\ Done(node, next).ok = TRUE
BY DEF Done

LEMMA DoneAs ==
    ASSUME NEW node, NEW next
    PROVE  \E r : r = Done(node, next) /\ r.ok /\ r.node = node /\ r.next = next
<1> DEFINE r == Done(node, next)
<1>1. r.ok /\ r.node = node /\ r.next = next
  BY DoneIs
<1>2. r = Done(node, next)
  OBVIOUS
<1> HIDE DEF r
<1> QED BY <1>1, <1>2, Zenon

LEMMA FailIs ==
    ASSUME NEW at, NEW why
    PROVE  /\ ~Fail(at, why).ok /\ Fail(at, why).at = at /\ Fail(at, why).why = why
BY DEF Fail

LEMMA DoneSame ==
    ASSUME NEW node, NEW next, NEW other, NEW further, Done(node, next) = Done(other, further)
    PROVE  node = other /\ next = further
<1>1. Done(node, next).node = Done(other, further).node /\ Done(node, next).next = Done(other, further).next
  OBVIOUS
<1>2. Done(node, next).node = node /\ Done(node, next).next = next
  BY DoneIs
<1>3. Done(other, further).node = other /\ Done(other, further).next = further
  BY DoneIs
<1> QED BY <1>1, <1>2, <1>3, Zenon

\* What a level of the grammar may give from a place on.
Failed(r) == \E at, why : r = Fail(at, why)
Read(r, c, n) == \E node, next : r = Done(node, next) /\ next \in c + 1 .. n + 1
ReadMany(r, c, n) == \E node, next : r = Done(node, next) /\ next \in c + 1 .. n + 1 /\ IsSeq(node)

\* More nodes in front of those of a result.
Prepend(nodes, r) == IF r.ok THEN Done(nodes \o r.node, r.next) ELSE r

LEMMA PrependDone ==
    ASSUME NEW nodes, NEW node, NEW next
    PROVE  Prepend(nodes, Done(node, next)) = Done(nodes \o node, next)
<1> DEFINE r == Done(node, next)
<1>1. r.ok /\ r.node = node /\ r.next = next
  BY DoneIs
<1> HIDE DEF r
<1>2. Prepend(nodes, r) = Done(nodes \o r.node, r.next)
  BY <1>1, Zenon DEF Prepend
<1> QED BY <1>1, <1>2, Zenon DEF r

LEMMA PrependFailed ==
    ASSUME NEW nodes, NEW r, Failed(r)
    PROVE  Prepend(nodes, r) = r
BY FailIs DEF Prepend, Failed

LEMMA SeqsJoin ==
    ASSUME NEW x, NEW y, IsSeq(x), IsSeq(y)
    PROVE  /\ IsSeq(x \o y) /\ Len(x \o y) = Len(x) + Len(y)
           /\ <<>> \o x = x /\ x \o <<>> = x
<1>1. PICK S : x \in Seq(S)
  BY DEF IsSeq
<1>2. PICK T : y \in Seq(T)
  BY DEF IsSeq
<1>3. x \in Seq(S \cup T)
  BY <1>1
<1>4. y \in Seq(S \cup T)
  BY <1>2
<1>5. x \o y \in Seq(S \cup T) /\ Len(x \o y) = Len(x) + Len(y)
  BY <1>3, <1>4
<1>6. <<>> \o x = x /\ x \o <<>> = x
  BY <1>1
<1> QED BY <1>5, <1>6 DEF IsSeq

LEMMA SeqsInOneRow ==
    ASSUME NEW x, NEW y, NEW z, IsSeq(x), IsSeq(y), IsSeq(z)
    PROVE  (x \o y) \o z = x \o (y \o z)
<1>1. PICK S : x \in Seq(S)
  BY DEF IsSeq
<1>2. PICK T : y \in Seq(T)
  BY DEF IsSeq
<1>3. PICK U : z \in Seq(U)
  BY DEF IsSeq
<1>4. x \in Seq(S \cup T \cup U)
  BY <1>1
<1>5. y \in Seq(S \cup T \cup U)
  BY <1>2
<1>6. z \in Seq(S \cup T \cup U)
  BY <1>3
<1> QED BY <1>4, <1>5, <1>6, ConcatAssociative

LEMMA SingleSeq == ASSUME NEW x PROVE IsSeq(<<x>>) /\ Len(<<x>>) = 1
<1>1. <<x>> \in Seq({x})
  OBVIOUS
<1> QED BY <1>1 DEF IsSeq

LEMMA SeqIs == ASSUME NEW S, NEW x \in Seq(S) PROVE IsSeq(x)
BY DEF IsSeq

LEMMA EmptyIsSeq == IsSeq(<<>>) /\ Len(<<>>) = 0
<1>1. <<>> \in Seq({1}) /\ Len(<<>>) = 0
  OBVIOUS
<1> QED BY <1>1, SeqIs

LEMMA AppendIs ==
    ASSUME NEW x, IsSeq(x), NEW y
    PROVE  Append(x, y) = x \o <<y>> /\ IsSeq(Append(x, y)) /\ Len(Append(x, y)) = Len(x) + 1
<1>1. PICK S : x \in Seq(S)
  BY DEF IsSeq
<1>2. x \in Seq(S \cup {y}) /\ y \in S \cup {y}
  BY <1>1
<1>3. Append(x, y) = x \o <<y>> /\ Append(x, y) \in Seq(S \cup {y}) /\ Len(Append(x, y)) = Len(x) + 1
  BY <1>2
<1> QED BY <1>3 DEF IsSeq

LEMMA PrependTwice ==
    ASSUME NEW x, NEW y, IsSeq(x), IsSeq(y), NEW r, Failed(r) \/ \E node, next : r = Done(node, next) /\ IsSeq(node)
    PROVE  Prepend(x, Prepend(y, r)) = Prepend(x \o y, r)
<1>1. CASE Failed(r)
  BY <1>1, PrependFailed
<1>2. CASE \E node, next : r = Done(node, next) /\ IsSeq(node)
  <2>1. PICK node, next : r = Done(node, next) /\ IsSeq(node)
    BY <1>2
  <2>2. Prepend(y, r) = Done(y \o node, next) /\ Prepend(x \o y, r) = Done((x \o y) \o node, next)
    BY <2>1, PrependDone
  <2>3. Prepend(x, Done(y \o node, next)) = Done(x \o (y \o node), next)
    BY PrependDone
  <2>4. (x \o y) \o node = x \o (y \o node)
    BY <2>1, SeqsInOneRow
  <2> QED BY <2>2, <2>3, <2>4
<1> QED BY <1>1, <1>2

-----------------------------------------------------------------------------
(* Least numbers and induction. *)

LEMMA Smallest ==
    ASSUME NEW T \in SUBSET Nat, T # {}
    PROVE  \E x \in T : \A y \in T : x <= y
<1>1. PICK x \in T : \A y \in T : ~(<<y, x>> \in OpToRel(<, Nat))
  BY NatLessThanWellFounded, WFMin
<1>2. \A y \in T : ~(y < x)
  BY <1>1 DEF OpToRel
<1> QED BY <1>2

LEMMA MinIs ==
    ASSUME NEW T \in SUBSET Nat, T # {}
    PROVE  Min(T) \in T /\ \A y \in T : Min(T) <= y
BY Smallest DEF Min

\* What holds of a place if it holds of all places behind it holds of all places.
LEMMA FromTheEnd ==
    ASSUME NEW n \in Nat, NEW Good,
           \A i \in 1 .. n : (\A j \in i + 1 .. n : j \in Good) => i \in Good
    PROVE  \A i \in 1 .. n : i \in Good
<1> DEFINE T == {k \in 0 .. n - 1 : n - k \notin Good}
<1>1. ASSUME NEW i \in 1 .. n, i \notin Good PROVE FALSE
  <2>1. n - i \in T /\ T \in SUBSET Nat
    <3>1. n - i \in 0 .. n - 1 /\ n - (n - i) = i
      OBVIOUS
    <3> QED BY <1>1, <3>1
  <2>2. PICK k \in T : \A m \in T : k <= m
    BY <2>1, Smallest
  <2>3. ASSUME NEW j \in n - k + 1 .. n PROVE j \in Good
    <3>1. n - j \in 0 .. n - 1 /\ n - j < k /\ n - (n - j) = j
      BY <2>3
    <3> QED BY <2>2, <3>1
  <2>4. n - k \in 1 .. n /\ n - k \notin Good
    BY <2>2
  <2> QED BY <2>3, <2>4
<1> QED BY <1>1

-----------------------------------------------------------------------------
(* The places of a clause. *)

LEMMA AcceptsIs ==
    ASSUME NEW t
    PROVE  /\ Accepts("field", t) <=> IsField(t)
           /\ Accepts("operator", t) <=> IsOp(t)
           /\ Accepts("value", t) <=> IsValue(t)
           /\ Accepts("text", t) <=> IsText(t)
           /\ Accepts("amount", t) <=> IsAmount(t)
           /\ Accepts("unit", t) <=> IsUnit(t)
           /\ Accepts("moment", t) <=> IsMoment(t)
BY Zenon DEF Accepts

\* The token that the i-th place from c on has is there and accepted.
Stands(ts, c, places, i) == c + i - 1 <= Len(ts) /\ Accepts(places[i], ts[c + i - 1])

LEMMA ExpectDone ==
    ASSUME NEW T, NEW ts \in Seq(T), NEW c \in Nat \ {0}, NEW P, NEW places \in Seq(P), NEW node,
           \A i \in 1 .. Len(places) : Stands(ts, c, places, i)
    PROVE  Expect(ts, c, places, node) = Done(node, c + Len(places))
<1>1. NotAccepted(ts, c, places) = {}
  <2>1. DOMAIN places = 1 .. Len(places) /\ Len(ts) \in Nat
    OBVIOUS
  <2> QED BY <2>1 DEF NotAccepted, Stands
<1> QED BY <1>1, Zenon DEF Expect

LEMMA ExpectFails ==
    ASSUME NEW T, NEW ts \in Seq(T), NEW c \in Nat \ {0}, NEW P, NEW places \in Seq(P), NEW node,
           NEW i \in 1 .. Len(places), ~Stands(ts, c, places, i),
           \A j \in 1 .. i - 1 : Stands(ts, c, places, j)
    PROVE  Expect(ts, c, places, node) =
               Fail(c + i - 1, IF c + i - 1 > Len(ts) THEN "end" ELSE "token")
<1> DEFINE wrong == NotAccepted(ts, c, places)
<1>1. DOMAIN places = 1 .. Len(places) /\ Len(ts) \in Nat /\ i \in Nat
  OBVIOUS
<1>2. i \in wrong /\ wrong \in SUBSET Nat /\ \A j \in wrong : j \in 1 .. Len(places) /\ ~Stands(ts, c, places, j)
  BY <1>1 DEF NotAccepted, Stands
<1> HIDE DEF wrong
<1>3. PICK m \in Nat : m = Min(wrong) /\ m \in wrong /\ m <= i
  BY <1>2, MinIs
<1>4. m = i
  <2>1. m \in 1 .. i /\ ~(m \in 1 .. i - 1)
    BY <1>2, <1>3
  <2> QED BY <2>1
<1>5. c + Min(wrong) - 1 = c + i - 1 /\ wrong # {}
  BY <1>2, <1>3, <1>4
<1> QED BY <1>5, Zenon DEF Expect, wrong

LEMMA ExpectReads ==
    ASSUME NEW T, NEW ts \in Seq(T), NEW c \in Nat \ {0}, NEW P, NEW places \in Seq(P), NEW node,
           Len(places) > 0
    PROVE  \/ Failed(Expect(ts, c, places, node))
           \/ Expect(ts, c, places, node) = Done(node, c + Len(places)) /\ c + Len(places) \in c + 1 .. Len(ts) + 1
<1> DEFINE Off == {i \in 1 .. Len(places) : ~Stands(ts, c, places, i)}
<1>1. CASE Off = {}
  <2>1. \A i \in 1 .. Len(places) : Stands(ts, c, places, i)
    BY <1>1
  <2>2. Len(places) \in 1 .. Len(places) /\ Len(ts) \in Nat
    OBVIOUS
  <2>3. c + Len(places) - 1 <= Len(ts)
    BY <2>1, <2>2 DEF Stands
  <2>4. c + Len(places) \in c + 1 .. Len(ts) + 1
    BY <2>2, <2>3
  <2> QED BY <2>1, <2>4, ExpectDone
<1>2. CASE Off # {}
  <2>1. PICK i \in Off : \A j \in Off : i <= j
    <3>1. Off \in SUBSET Nat
      OBVIOUS
    <3> HIDE DEF Off
    <3> QED BY <1>2, <3>1, Smallest
  <2>2. ASSUME NEW j \in 1 .. i - 1 PROVE Stands(ts, c, places, j)
    <3>1. j \in 1 .. Len(places) /\ ~(i <= j)
      BY <2>1
    <3> QED BY <2>1, <3>1
  <2>3. i \in 1 .. Len(places) /\ ~Stands(ts, c, places, i)
    BY <2>1
  <2> HIDE DEF Off
  <2>4. Expect(ts, c, places, node) = Fail(c + i - 1, IF c + i - 1 > Len(ts) THEN "end" ELSE "token")
    BY <2>2, <2>3, ExpectFails
  <2> QED BY <2>4, Zenon DEF Failed
<1> QED BY <1>1, <1>2
-----------------------------------------------------------------------------
(* Clauses. *)

LEMMA WordIs ==
    ASSUME NEW ts, NEW c, NEW word
    PROVE  IsWord(ts, c, word) <=> c <= Len(ts) /\ OneOf(ts[c], {word})
BY DEF IsWord, Is, OneOf

LEMMA JoinIs ==
    ASSUME NEW ts, NEW c
    PROVE  IsJoin(ts, c) <=> c <= Len(ts) /\ OneOf(ts[c], {"and", "or"})
BY DEF IsJoin, IsWord, Is, OneOf

LEMMA ClauseAtEnd ==
    ASSUME NEW T, NEW ts \in Seq(T), NEW p, NEW c \in Nat, c > Len(ts)
    PROVE  ParseClause(ts, p, c) = Fail(c, "end")
<1>1. /\ c > Len(ts)
      /\ ~Is(ts, c, "(") /\ ~Is(ts, c, ")") /\ ~IsJoin(ts, c)
      /\ ~IsWord(ts, c, "last") /\ ~IsWord(ts, c, "since")
  BY DEF Is, IsJoin, IsWord
<1> QED BY <1>1, Zenon DEF ParseClause

LEMMA ClauseIsGroup ==
    ASSUME NEW T, NEW ts \in Seq(T), NEW p, NEW c \in 1 .. Len(ts), ts[c].kind = "("
    PROVE  ParseClause(ts, p, c) = ParseGroup(ts, c, p[c + 1]["or"])
<1>1. /\ ~(c > Len(ts)) /\ Is(ts, c, "(") /\ ~Is(ts, c, ")") /\ ~IsJoin(ts, c)
      /\ ~IsWord(ts, c, "last") /\ ~IsWord(ts, c, "since")
  BY DEF Is, IsJoin, IsWord
<1> QED BY <1>1, Zenon DEF ParseClause

LEMMA ClauseIsNone ==
    ASSUME NEW T, NEW ts \in Seq(T), NEW p, NEW c \in 1 .. Len(ts),
           ts[c].kind = ")" \/ IsJoin(ts, c)
    PROVE  ParseClause(ts, p, c) = Fail(c, "token")
<1>1. /\ ~(c > Len(ts)) /\ ~Is(ts, c, "(") /\ (Is(ts, c, ")") \/ IsJoin(ts, c))
      /\ ~IsWord(ts, c, "last") /\ ~IsWord(ts, c, "since")
  BY DEF Is, IsJoin, IsWord
<1> QED BY <1>1, Zenon DEF ParseClause

LEMMA ClauseIsLast ==
    ASSUME NEW T, NEW ts \in Seq(T), NEW p, NEW c \in 1 .. Len(ts), OneOf(ts[c], {"last"})
    PROVE  ParseClause(ts, p, c) = ParseLastDuration(ts, c + 1)
<1>1. /\ ~(c > Len(ts)) /\ ~Is(ts, c, "(") /\ ~(Is(ts, c, ")") \/ IsJoin(ts, c))
      /\ IsWord(ts, c, "last") /\ ~IsWord(ts, c, "since")
  BY DEF Is, IsJoin, IsWord, OneOf
<1> QED BY <1>1, Zenon DEF ParseClause

LEMMA ClauseIsSince ==
    ASSUME NEW T, NEW ts \in Seq(T), NEW p, NEW c \in 1 .. Len(ts), OneOf(ts[c], {"since"})
    PROVE  ParseClause(ts, p, c) = ParseSinceDatetime(ts, c + 1)
<1>1. /\ ~(c > Len(ts)) /\ ~Is(ts, c, "(") /\ ~(Is(ts, c, ")") \/ IsJoin(ts, c))
      /\ ~IsWord(ts, c, "last") /\ IsWord(ts, c, "since")
  BY DEF Is, IsJoin, IsWord, OneOf
<1> QED BY <1>1, Zenon DEF ParseClause

LEMMA ClauseIsFieldLed ==
    ASSUME NEW T, NEW ts \in Seq(T), NEW p, NEW c \in 1 .. Len(ts),
           ts[c].kind \notin {"(", ")"}, ~OneOf(ts[c], Reserved)
    PROVE  ParseClause(ts, p, c) = ParseFieldLedClause(ts, c)
<1>1. /\ ~(c > Len(ts)) /\ ~Is(ts, c, "(") /\ ~(Is(ts, c, ")") \/ IsJoin(ts, c))
      /\ ~IsWord(ts, c, "last") /\ ~IsWord(ts, c, "since")
  BY DEF Is, IsJoin, IsWord, OneOf, Reserved
<1> QED BY <1>1, Zenon DEF ParseClause

LEMMA GroupFails ==
    ASSUME NEW ts, NEW c, NEW inner, ~inner.ok
    PROVE  ParseGroup(ts, c, inner) = inner
BY Zenon DEF ParseGroup

LEMMA GroupUnclosed ==
    ASSUME NEW T, NEW ts \in Seq(T), NEW c, NEW node, NEW next \in Nat, next > Len(ts)
    PROVE  ParseGroup(ts, c, Done(node, next)) = Fail(c, "end")
<1> DEFINE inner == Done(node, next)
<1>1. inner.ok /\ inner.next = next
  BY DoneIs, Zenon
<1>2. ~Is(ts, next, ")")
  BY DEF Is
<1> HIDE DEF inner
<1>3. inner.next > Len(ts) /\ ~Is(ts, inner.next, ")")
  BY <1>1, <1>2
<1>4. ParseGroup(ts, c, inner) = Fail(c, "end")
  BY <1>1, <1>3, Zenon DEF ParseGroup
<1> QED BY <1>4 DEF inner

LEMMA GroupClosed ==
    ASSUME NEW T, NEW ts \in Seq(T), NEW c, NEW node, NEW next \in 1 .. Len(ts), ts[next].kind = ")"
    PROVE  ParseGroup(ts, c, Done(node, next)) = Done(Group(node), next + 1)
<1> DEFINE inner == Done(node, next)
<1>1. inner.ok /\ inner.next = next /\ inner.node = node
  BY DoneIs, Zenon
<1>2. Is(ts, next, ")") /\ ~(next > Len(ts))
  BY DEF Is
<1> HIDE DEF inner
<1>3. ~(inner.next > Len(ts)) /\ Is(ts, inner.next, ")")
  BY <1>1, <1>2
<1>4. ParseGroup(ts, c, inner) = Done(Group(inner.node), inner.next + 1)
  BY <1>1, <1>3, Zenon DEF ParseGroup
<1> QED BY <1>1, <1>4 DEF inner

LEMMA GroupGoesWrong ==
    ASSUME NEW T, NEW ts \in Seq(T), NEW c, NEW node, NEW next \in 1 .. Len(ts), ts[next].kind # ")"
    PROVE  ParseGroup(ts, c, Done(node, next)) = Fail(next, "token")
<1>1. PICK r : r = Done(node, next) /\ r.ok /\ r.node = node /\ r.next = next
  BY DoneAs
<1>2. ~Is(ts, r.next, ")") /\ ~(r.next > Len(ts))
  <2>1. ~Is(ts, next, ")") /\ ~(next > Len(ts))
    BY DEF Is
  <2> QED BY <1>1, <2>1
<1>3. ParseGroup(ts, c, r) = Fail(r.next, "token")
  BY <1>1, <1>2, Zenon DEF ParseGroup
<1> QED BY <1>1, <1>3, Zenon

LEMMA OnePlace == ASSUME NEW a PROVE <<a>> \in Seq({a}) /\ Len(<<a>>) = 1 /\ <<a>>[1] = a
OBVIOUS

LEMMA TwoPlaces ==
    ASSUME NEW a, NEW b
    PROVE  <<a, b>> \in Seq({a, b}) /\ Len(<<a, b>>) = 2 /\ <<a, b>>[1] = a /\ <<a, b>>[2] = b
OBVIOUS

LEMMA ThreePlaces ==
    ASSUME NEW a, NEW b, NEW c
    PROVE  /\ <<a, b, c>> \in Seq({a, b, c}) /\ Len(<<a, b, c>>) = 3
           /\ <<a, b, c>>[1] = a /\ <<a, b, c>>[2] = b /\ <<a, b, c>>[3] = c
OBVIOUS

LEMMA ReadsOne ==
    ASSUME NEW T, NEW ts \in Seq(T), NEW c \in Nat \ {0}, NEW a, NEW node
    PROVE  \/ Failed(Expect(ts, c, <<a>>, node))
           \/ Expect(ts, c, <<a>>, node) = Done(node, c + 1) /\ c + 1 \in c + 1 .. Len(ts) + 1
<1> DEFINE places == <<a>>
<1>1. places \in Seq({a}) /\ Len(places) = 1
  BY OnePlace
<1> HIDE DEF places
<1>2. Len(places) > 0
  BY <1>1
<1>3. \/ Failed(Expect(ts, c, places, node))
      \/ Expect(ts, c, places, node) = Done(node, c + Len(places)) /\ c + Len(places) \in c + 1 .. Len(ts) + 1
  BY <1>1, <1>2, ExpectReads
<1> QED BY <1>1, <1>3, Zenon DEF places

LEMMA ReadsTwo ==
    ASSUME NEW T, NEW ts \in Seq(T), NEW c \in Nat \ {0}, NEW a, NEW b, NEW node
    PROVE  \/ Failed(Expect(ts, c, <<a, b>>, node))
           \/ Expect(ts, c, <<a, b>>, node) = Done(node, c + 2) /\ c + 2 \in c + 1 .. Len(ts) + 1
<1> DEFINE places == <<a, b>>
<1>1. places \in Seq({a, b}) /\ Len(places) = 2
  BY TwoPlaces
<1> HIDE DEF places
<1>2. Len(places) > 0
  BY <1>1
<1>3. \/ Failed(Expect(ts, c, places, node))
      \/ Expect(ts, c, places, node) = Done(node, c + Len(places)) /\ c + Len(places) \in c + 1 .. Len(ts) + 1
  BY <1>1, <1>2, ExpectReads
<1> QED BY <1>1, <1>3, Zenon DEF places

LEMMA ReadsThree ==
    ASSUME NEW T, NEW ts \in Seq(T), NEW c \in Nat \ {0}, NEW a, NEW b, NEW d, NEW node
    PROVE  \/ Failed(Expect(ts, c, <<a, b, d>>, node))
           \/ Expect(ts, c, <<a, b, d>>, node) = Done(node, c + 3) /\ c + 3 \in c + 1 .. Len(ts) + 1
<1> DEFINE places == <<a, b, d>>
<1>1. places \in Seq({a, b, d}) /\ Len(places) = 3
  BY ThreePlaces
<1> HIDE DEF places
<1>2. Len(places) > 0
  BY <1>1
<1>3. \/ Failed(Expect(ts, c, places, node))
      \/ Expect(ts, c, places, node) = Done(node, c + Len(places)) /\ c + Len(places) \in c + 1 .. Len(ts) + 1
  BY <1>1, <1>2, ExpectReads
<1> QED BY <1>1, <1>3, Zenon DEF places

\* A clause that is read ends behind its first token and inside the text.
LEMMA ClauseReads ==
    ASSUME NEW T, NEW ts \in Seq(T), NEW p, NEW c \in 1 .. Len(ts) + 1,
           c <= Len(ts) => \/ Failed(p[c + 1]["or"])
                           \/ ReadMany(p[c + 1]["or"], c + 1, Len(ts))
    PROVE  Failed(ParseClause(ts, p, c)) \/ Read(ParseClause(ts, p, c), c, Len(ts))
<1>1. PICK n \in Nat : n = Len(ts) /\ c \in 1 .. n + 1 /\ c \in Nat
  OBVIOUS
<1>2. CASE c > n
  <2>1. ParseClause(ts, p, c) = Fail(c, "end")
    BY <1>1, <1>2, ClauseAtEnd
  <2> QED BY <2>1 DEF Failed
<1>3. CASE c <= n /\ ts[c].kind = "("
  <2>1. c \in 1 .. Len(ts)
    BY <1>1, <1>3
  <2>2. ParseClause(ts, p, c) = ParseGroup(ts, c, p[c + 1]["or"])
    BY <1>3, <2>1, ClauseIsGroup
  <2> DEFINE inner == p[c + 1]["or"]
  <2>3. Failed(inner) \/ ReadMany(inner, c + 1, n)
    BY <1>1, <1>3
  <2>4. ParseClause(ts, p, c) = ParseGroup(ts, c, inner)
    BY <2>2
  <2> HIDE DEF inner
  <2>5. CASE Failed(inner)
    <3>1. ParseGroup(ts, c, inner) = inner
      BY <2>5, FailIs, GroupFails DEF Failed
    <3> QED BY <2>4, <2>5, <3>1
  <2>6. CASE ReadMany(inner, c + 1, n)
    <3>1. PICK node, next : inner = Done(node, next) /\ next \in c + 2 .. n + 1
      BY <1>1, <2>6 DEF ReadMany
    <3>2. next \in Nat
      BY <1>1, <3>1
    <3>3. CASE next > n
      <4>1. ParseGroup(ts, c, inner) = Fail(c, "end")
        BY <1>1, <3>1, <3>2, <3>3, GroupUnclosed
      <4> QED BY <2>4, <4>1 DEF Failed
    <3>4. CASE next <= n
      <4>1. next \in 1 .. Len(ts) /\ next + 1 \in c + 1 .. n + 1
        BY <1>1, <3>1, <3>4
      <4>2. CASE ts[next].kind = ")"
        <5>1. ParseGroup(ts, c, inner) = Done(Group(node), next + 1)
          BY <3>1, <4>1, <4>2, GroupClosed
        <5> QED BY <1>1, <2>4, <4>1, <5>1, Zenon DEF Read
      <4>3. CASE ts[next].kind # ")"
        <5>1. ParseGroup(ts, c, inner) = Fail(next, "token")
          BY <3>1, <4>1, <4>3, GroupGoesWrong
        <5> QED BY <2>4, <5>1 DEF Failed
      <4> QED BY <4>2, <4>3
    <3> QED BY <1>1, <3>2, <3>3, <3>4
  <2> QED BY <2>3, <2>5, <2>6
<1>4. CASE c <= n /\ (ts[c].kind = ")" \/ IsJoin(ts, c))
  <2>1. c \in 1 .. Len(ts)
    BY <1>1, <1>4
  <2>2. ParseClause(ts, p, c) = Fail(c, "token")
    BY <1>4, <2>1, ClauseIsNone
  <2> QED BY <2>2 DEF Failed
<1>5. CASE c <= n /\ OneOf(ts[c], {"last"})
  <2>1. c \in 1 .. Len(ts) /\ c + 1 \in Nat \ {0}
    BY <1>1, <1>5
  <2>2. ParseClause(ts, p, c) = Expect(ts, c + 1, <<"amount", "unit">>, LastDuration(ts[c + 1], ts[c + 2]))
    <3>1. c + 1 + 1 = c + 2
      BY <1>1
    <3> QED BY <1>5, <2>1, <3>1, ClauseIsLast DEF ParseLastDuration
  <2> DEFINE r == Expect(ts, c + 1, <<"amount", "unit">>, LastDuration(ts[c + 1], ts[c + 2]))
  <2>3. Failed(r) \/ (r = Done(LastDuration(ts[c + 1], ts[c + 2]), c + 1 + 2) /\ c + 1 + 2 \in c + 1 + 1 .. Len(ts) + 1)
    BY <2>1, ReadsTwo
  <2>4. ParseClause(ts, p, c) = r
    BY <2>2
  <2> HIDE DEF r
  <2>5. c + 1 + 2 \in c + 1 + 1 .. Len(ts) + 1 => c + 1 + 2 \in c + 1 .. Len(ts) + 1
    BY <1>1
  <2> QED BY <2>3, <2>4, <2>5, Zenon DEF Read
<1>6. CASE c <= n /\ OneOf(ts[c], {"since"})
  <2>1. c \in 1 .. Len(ts) /\ c + 1 \in Nat \ {0}
    BY <1>1, <1>6
  <2>2. ParseClause(ts, p, c) = Expect(ts, c + 1, <<"moment">>, SinceDatetime(ts[c + 1]))
    BY <1>6, <2>1, ClauseIsSince DEF ParseSinceDatetime
  <2> DEFINE r == Expect(ts, c + 1, <<"moment">>, SinceDatetime(ts[c + 1]))
  <2>3. Failed(r) \/ (r = Done(SinceDatetime(ts[c + 1]), c + 1 + 1) /\ c + 1 + 1 \in c + 1 + 1 .. Len(ts) + 1)
    BY <2>1, ReadsOne
  <2>4. ParseClause(ts, p, c) = r
    BY <2>2
  <2> HIDE DEF r
  <2>5. c + 1 + 1 \in c + 1 + 1 .. Len(ts) + 1 => c + 1 + 1 \in c + 1 .. Len(ts) + 1
    BY <1>1
  <2> QED BY <2>3, <2>4, <2>5, Zenon DEF Read
<1>7. CASE c <= n /\ ts[c].kind \notin {"(", ")"} /\ ~OneOf(ts[c], Reserved)
  <2>1. c \in 1 .. Len(ts) /\ c \in Nat \ {0} /\ c + 2 \in Nat \ {0}
    BY <1>1, <1>7
  <2> DEFINE r == Expect(ts, c + 2, <<"text">>, ContainsClause(ts[c], ts[c + 2]))
             q == Expect(ts, c, <<"field", "operator", "value">>, Compare(ts[c], ts[c + 1], ts[c + 2]))
  <2>2. ParseClause(ts, p, c) = r \/ ParseClause(ts, p, c) = q
    BY <1>7, <2>1, ClauseIsFieldLed DEF ParseFieldLedClause
  <2>3. Failed(r) \/ (r = Done(ContainsClause(ts[c], ts[c + 2]), c + 2 + 1) /\ c + 2 + 1 \in c + 2 + 1 .. Len(ts) + 1)
    BY <2>1, ReadsOne
  <2>4. Failed(q) \/ (q = Done(Compare(ts[c], ts[c + 1], ts[c + 2]), c + 3) /\ c + 3 \in c + 1 .. Len(ts) + 1)
    BY <2>1, ReadsThree
  <2> HIDE DEF r, q
  <2>5. c + 2 + 1 \in c + 2 + 1 .. Len(ts) + 1 => c + 2 + 1 \in c + 1 .. Len(ts) + 1
    BY <1>1
  <2> QED BY <2>2, <2>3, <2>4, <2>5, Zenon DEF Read
<1>8. c <= n => \/ ts[c].kind = "(" \/ ts[c].kind = ")" \/ IsJoin(ts, c)
                \/ OneOf(ts[c], {"last"}) \/ OneOf(ts[c], {"since"})
                \/ (ts[c].kind \notin {"(", ")"} /\ ~OneOf(ts[c], Reserved))
  BY <1>1, JoinIs DEF OneOf, Reserved
<1>9. c > n \/ c <= n
  BY <1>1
<1> QED BY <1>2, <1>3, <1>4, <1>5, <1>6, <1>7, <1>8, <1>9
-----------------------------------------------------------------------------
(* The levels of the grammar. *)

\* What follows a join, and an operand with what its level makes of the rest.
Rest(ts, p, level, j) ==
    IF j = Len(ts) THEN Fail(j, "end")
    ELSE IF IsJoin(ts, j + 1) THEN Fail(j + 1, "token") ELSE p[j + 1][level]

Turn(ts, p, level, word, first) ==
    IF ~first.ok THEN first
    ELSE IF IsWord(ts, first.next, word) THEN Prepend(<<first.node>>, Rest(ts, p, level, first.next))
    ELSE Done(<<first.node>>, first.next)

LEMMA JoinedIsTurn ==
    ASSUME NEW T, NEW ts \in Seq(T), NEW p, NEW level, NEW below, NEW word, NEW c
    PROVE  Joined(ts, p, level, below, word, c) = Turn(ts, p, level, word, p[c][below])
<1> DEFINE first == p[c][below]
           join == first.next
           rest == p[join + 1][level]
<1>1. CASE ~first.ok
  BY <1>1, Zenon DEF Joined, Turn
<1>2. CASE first.ok /\ ~IsWord(ts, join, word)
  <2>1. Joined(ts, p, level, below, word, c) = Done(<<first.node>>, join)
    BY <1>2, Zenon DEF Joined
  <2> QED BY <1>2, <2>1, Zenon DEF Turn
<1>3. CASE first.ok /\ IsWord(ts, join, word) /\ join = Len(ts)
  <2>1. ~IsJoin(ts, join + 1)
    BY <1>3 DEF IsJoin, IsWord, Is
  <2>2. Joined(ts, p, level, below, word, c) = Fail(join, "end")
    BY <1>3, <2>1, Zenon DEF Joined
  <2>3. Rest(ts, p, level, join) = Fail(join, "end")
    BY <1>3, Zenon DEF Rest
  <2>4. Prepend(<<first.node>>, Fail(join, "end")) = Fail(join, "end")
    BY PrependFailed DEF Failed
  <2> QED BY <1>3, <2>2, <2>3, <2>4, Zenon DEF Turn
<1>4. CASE first.ok /\ IsWord(ts, join, word) /\ join # Len(ts) /\ IsJoin(ts, join + 1)
  <2>2. Joined(ts, p, level, below, word, c) = Fail(join + 1, "token")
    BY <1>4, Zenon DEF Joined
  <2>3. Rest(ts, p, level, join) = Fail(join + 1, "token")
    BY <1>4, Zenon DEF Rest
  <2>4. Prepend(<<first.node>>, Fail(join + 1, "token")) = Fail(join + 1, "token")
    BY PrependFailed DEF Failed
  <2> QED BY <1>4, <2>2, <2>3, <2>4, Zenon DEF Turn
<1>5. CASE first.ok /\ IsWord(ts, join, word) /\ join # Len(ts) /\ ~IsJoin(ts, join + 1)
  <2>2. Joined(ts, p, level, below, word, c) = Prepend(<<first.node>>, rest)
    BY <1>5, Zenon DEF Joined, Prepend
  <2>3. Rest(ts, p, level, join) = rest
    BY <1>5, Zenon DEF Rest
  <2> QED BY <1>5, <2>2, <2>3, Zenon DEF Turn
<1> QED BY <1>1, <1>2, <1>3, <1>4, <1>5, Zenon

LEMMA TurnFails ==
    ASSUME NEW ts, NEW p, NEW level, NEW word, NEW r, Failed(r)
    PROVE  Turn(ts, p, level, word, r) = r
<1>1. ~r.ok
  BY FailIs DEF Failed
<1> QED BY <1>1, Zenon DEF Turn

LEMMA TurnEnds ==
    ASSUME NEW ts, NEW p, NEW level, NEW word, NEW node, NEW j, ~IsWord(ts, j, word)
    PROVE  Turn(ts, p, level, word, Done(node, j)) = Done(<<node>>, j)
<1>1. PICK r : r = Done(node, j) /\ r.ok /\ r.node = node /\ r.next = j
  BY DoneAs
<1> HIDE DEF Done
<1>2. Turn(ts, p, level, word, r) = Done(<<r.node>>, r.next)
  BY <1>1, Zenon DEF Turn
<1> QED BY <1>1, <1>2, Zenon

LEMMA TurnGoesOn ==
    ASSUME NEW ts, NEW p, NEW level, NEW word, NEW node, NEW j, IsWord(ts, j, word)
    PROVE  Turn(ts, p, level, word, Done(node, j)) = Prepend(<<node>>, Rest(ts, p, level, j))
<1>1. PICK r : r = Done(node, j) /\ r.ok /\ r.node = node /\ r.next = j
  BY DoneAs
<1>2. Turn(ts, p, level, word, r) = Prepend(<<r.node>>, Rest(ts, p, level, r.next))
  BY <1>1, Zenon DEF Turn
<1> QED BY <1>1, <1>2, Zenon

LEMMA TurnReads ==
    ASSUME NEW T, NEW ts \in Seq(T), NEW p, NEW level, NEW word, NEW c \in Nat,
           NEW first, Failed(first) \/ Read(first, c, Len(ts)),
           \A k \in c + 1 .. Len(ts) + 1 : Failed(p[k][level]) \/ ReadMany(p[k][level], k, Len(ts))
    PROVE  \/ Failed(Turn(ts, p, level, word, first))
           \/ ReadMany(Turn(ts, p, level, word, first), c, Len(ts))
<1>1. PICK n \in Nat : n = Len(ts)
  OBVIOUS
<1>2. CASE Failed(first)
  BY <1>2, TurnFails
<1>3. CASE Read(first, c, n)
  <2>1. PICK node, j : first = Done(node, j) /\ j \in c + 1 .. n + 1
    BY <1>3 DEF Read
  <2>2. CASE ~IsWord(ts, j, word)
    <3>1. Turn(ts, p, level, word, first) = Done(<<node>>, j)
      BY <2>1, <2>2, TurnEnds
    <3>2. IsSeq(<<node>>)
      BY SingleSeq
    <3> QED BY <1>1, <2>1, <3>1, <3>2, Zenon DEF ReadMany
  <2>3. CASE IsWord(ts, j, word)
    <3>1. Turn(ts, p, level, word, first) = Prepend(<<node>>, Rest(ts, p, level, j))
      BY <2>1, <2>3, TurnGoesOn
    <3> DEFINE rest == Rest(ts, p, level, j)
    <3>2. j \in 1 .. n
      BY <1>1, <2>1, <2>3 DEF IsWord, Is
    <3>3. Failed(rest) \/ ReadMany(rest, j + 1, n)
      <4>1. CASE j = n
        BY <1>1, <4>1 DEF Rest, Failed
      <4>2. CASE j # n /\ IsJoin(ts, j + 1)
        BY <1>1, <4>2 DEF Rest, Failed
      <4>3. CASE j # n /\ ~IsJoin(ts, j + 1)
        <5>1. rest = p[j + 1][level]
          BY <1>1, <4>3 DEF Rest
        <5>2. j + 1 \in c + 1 .. Len(ts) + 1
          BY <1>1, <2>1, <3>2
        <5> QED BY <1>1, <5>1, <5>2
      <4> QED BY <4>1, <4>2, <4>3
    <3>4. Turn(ts, p, level, word, first) = Prepend(<<node>>, rest)
      BY <3>1
    <3> HIDE DEF rest
    <3>5. CASE Failed(rest)
      BY <3>4, <3>5, PrependFailed
    <3>6. CASE ReadMany(rest, j + 1, n)
      <4>1. PICK nodes, next : rest = Done(nodes, next) /\ next \in j + 2 .. n + 1 /\ IsSeq(nodes)
        BY <3>2, <3>6 DEF ReadMany
      <4>2. Prepend(<<node>>, rest) = Done(<<node>> \o nodes, next)
        BY <4>1, PrependDone
      <4>3. IsSeq(<<node>> \o nodes) /\ next \in c + 1 .. n + 1
        <5>1. next \in c + 1 .. n + 1
          BY <1>1, <2>1, <4>1
        <5> QED BY <4>1, <5>1, SingleSeq, SeqsJoin
      <4> QED BY <1>1, <3>4, <4>2, <4>3, Zenon DEF ReadMany
    <3> QED BY <3>3, <3>5, <3>6
  <2> QED BY <2>2, <2>3
<1> QED BY <1>1, <1>2, <1>3

\* Tables g and h make the same turn.
SameTurn(ts, g, h, level, word, first) == Turn(ts, g, level, word, first) = Turn(ts, h, level, word, first)

LEMMA TurnAgrees ==
    ASSUME NEW T, NEW ts \in Seq(T), NEW g, NEW h, NEW level, NEW word, NEW c \in Nat,
           NEW first, Failed(first) \/ Read(first, c, Len(ts)),
           \A k \in c + 1 .. Len(ts) + 1 : g[k] = h[k]
    PROVE  SameTurn(ts, g, h, level, word, first)
<1> USE DEF SameTurn
<1>1. PICK n \in Nat : n = Len(ts)
  OBVIOUS
<1>2. CASE Failed(first)
  <2>1. Turn(ts, g, level, word, first) = first
    BY <1>2, TurnFails
  <2>2. Turn(ts, h, level, word, first) = first
    BY <1>2, TurnFails
  <2> QED BY <2>1, <2>2
<1>3. CASE Read(first, c, n)
  <2>1. PICK node, j : first = Done(node, j) /\ j \in c + 1 .. n + 1
    BY <1>3 DEF Read
  <2>2. CASE ~IsWord(ts, j, word)
    <3>1. Turn(ts, g, level, word, first) = Done(<<node>>, j)
      BY <2>1, <2>2, TurnEnds
    <3>2. Turn(ts, h, level, word, first) = Done(<<node>>, j)
      BY <2>1, <2>2, TurnEnds
    <3> QED BY <3>1, <3>2
  <2>3. CASE IsWord(ts, j, word)
    <3>1. /\ Turn(ts, g, level, word, first) = Prepend(<<node>>, Rest(ts, g, level, j))
          /\ Turn(ts, h, level, word, first) = Prepend(<<node>>, Rest(ts, h, level, j))
      BY <2>1, <2>3, TurnGoesOn
    <3>2. j \in 1 .. n
      BY <1>1, <2>1, <2>3 DEF IsWord, Is
    <3>3. g[j + 1] = h[j + 1]
      <4>1. j + 1 \in c + 1 .. Len(ts) + 1
        BY <1>1, <2>1, <3>2
      <4> QED BY <4>1
    <3>4. Rest(ts, g, level, j) = Rest(ts, h, level, j)
      BY <3>3, Zenon DEF Rest
    <3> QED BY <3>1, <3>4
  <2> QED BY <2>2, <2>3
<1> QED BY <1>1, <1>2, <1>3

\* A row of the table that the recursive function is: each level at one place.
Levels == {"or", "and", "clause"}

AndOf(ts, p, c) == Turn(ts, p, "and", "and", ParseClause(ts, p, c))
OrOf(ts, p, c) == Turn(ts, p, "or", "or", AndOf(ts, p, c))
RowOf(ts, p, c) ==
    [level \in Levels |->
        IF level = "or" THEN OrOf(ts, p, c)
        ELSE IF level = "and" THEN AndOf(ts, p, c) ELSE ParseClause(ts, p, c)]

LEMMA RowIs ==
    ASSUME NEW ts, NEW p, NEW c
    PROVE  /\ RowOf(ts, p, c)["or"] = OrOf(ts, p, c)
           /\ RowOf(ts, p, c)["and"] = AndOf(ts, p, c)
           /\ RowOf(ts, p, c)["clause"] = ParseClause(ts, p, c)
BY DEF RowOf, Levels

\* What the levels give from c on.
RowReads(row, c, n) ==
    /\ Failed(row["clause"]) \/ Read(row["clause"], c, n)
    /\ Failed(row["and"]) \/ ReadMany(row["and"], c, n)
    /\ Failed(row["or"]) \/ ReadMany(row["or"], c, n)

LEMMA ManyIsRead == ASSUME NEW r, NEW c, NEW n, ReadMany(r, c, n) PROVE Read(r, c, n)
BY DEF ReadMany, Read

LEMMA LevelsRead ==
    ASSUME NEW T, NEW ts \in Seq(T), NEW p, NEW c \in 1 .. Len(ts) + 1,
           \A k \in c + 1 .. Len(ts) + 1 : RowReads(p[k], k, Len(ts))
    PROVE  /\ Failed(ParseClause(ts, p, c)) \/ Read(ParseClause(ts, p, c), c, Len(ts))
           /\ Failed(AndOf(ts, p, c)) \/ ReadMany(AndOf(ts, p, c), c, Len(ts))
           /\ Failed(OrOf(ts, p, c)) \/ ReadMany(OrOf(ts, p, c), c, Len(ts))
<1>1. c <= Len(ts) => c + 1 \in c + 1 .. Len(ts) + 1 /\ c \in Nat
  OBVIOUS
<1>2. c \in Nat
  OBVIOUS
<1>3. \A k \in c + 1 .. Len(ts) + 1 : Failed(p[k]["or"]) \/ ReadMany(p[k]["or"], k, Len(ts))
  BY DEF RowReads
<1>4. \A k \in c + 1 .. Len(ts) + 1 : Failed(p[k]["and"]) \/ ReadMany(p[k]["and"], k, Len(ts))
  BY DEF RowReads
<1>5. Failed(ParseClause(ts, p, c)) \/ Read(ParseClause(ts, p, c), c, Len(ts))
  <2>1. c <= Len(ts) => Failed(p[c + 1]["or"]) \/ ReadMany(p[c + 1]["or"], c + 1, Len(ts))
    BY <1>1, <1>3
  <2> QED BY <2>1, ClauseReads
<1>6. Failed(AndOf(ts, p, c)) \/ ReadMany(AndOf(ts, p, c), c, Len(ts))
  BY <1>2, <1>4, <1>5, TurnReads DEF AndOf
<1>7. Failed(AndOf(ts, p, c)) \/ Read(AndOf(ts, p, c), c, Len(ts))
  BY <1>6, ManyIsRead
<1>8. Failed(OrOf(ts, p, c)) \/ ReadMany(OrOf(ts, p, c), c, Len(ts))
  BY <1>2, <1>3, <1>7, TurnReads DEF OrOf
<1> QED BY <1>5, <1>6, <1>8

LEMMA RowOfReads ==
    ASSUME NEW T, NEW ts \in Seq(T), NEW p, NEW c \in 1 .. Len(ts) + 1,
           \A k \in c + 1 .. Len(ts) + 1 : RowReads(p[k], k, Len(ts))
    PROVE  RowReads(RowOf(ts, p, c), c, Len(ts))
<1>1. /\ Failed(ParseClause(ts, p, c)) \/ Read(ParseClause(ts, p, c), c, Len(ts))
      /\ Failed(AndOf(ts, p, c)) \/ ReadMany(AndOf(ts, p, c), c, Len(ts))
      /\ Failed(OrOf(ts, p, c)) \/ ReadMany(OrOf(ts, p, c), c, Len(ts))
  BY LevelsRead
<1> QED BY <1>1, RowIs DEF RowReads

LEMMA ClauseAgrees ==
    ASSUME NEW T, NEW ts \in Seq(T), NEW g, NEW h, NEW c \in 1 .. Len(ts) + 1,
           c <= Len(ts) => g[c + 1] = h[c + 1]
    PROVE  ParseClause(ts, g, c) = ParseClause(ts, h, c)
<1>1. CASE c > Len(ts)
  <2>1. c \in Nat
    OBVIOUS
  <2>2. ParseClause(ts, g, c) = Fail(c, "end")
    BY <1>1, <2>1, ClauseAtEnd
  <2>3. ParseClause(ts, h, c) = Fail(c, "end")
    BY <1>1, <2>1, ClauseAtEnd
  <2> QED BY <2>2, <2>3
<1>2. CASE c <= Len(ts)
  <2>1. g[c + 1]["or"] = h[c + 1]["or"]
    BY <1>2
  <2> QED BY <2>1, Zenon DEF ParseClause
<1> QED BY <1>1, <1>2

LEMMA RowAgrees ==
    ASSUME NEW T, NEW ts \in Seq(T), NEW g, NEW h, NEW c \in 1 .. Len(ts) + 1,
           \A k \in c + 1 .. Len(ts) + 1 : g[k] = h[k],
           \A k \in c + 1 .. Len(ts) + 1 : RowReads(g[k], k, Len(ts))
    PROVE  RowOf(ts, g, c) = RowOf(ts, h, c)
<1>1. c \in Nat /\ (c <= Len(ts) => c + 1 \in c + 1 .. Len(ts) + 1)
  OBVIOUS
<1>2. ParseClause(ts, g, c) = ParseClause(ts, h, c)
  <2>1. c <= Len(ts) => g[c + 1] = h[c + 1]
    BY <1>1
  <2> QED BY <2>1, ClauseAgrees
<1>3. /\ Failed(ParseClause(ts, g, c)) \/ Read(ParseClause(ts, g, c), c, Len(ts))
      /\ Failed(AndOf(ts, g, c)) \/ ReadMany(AndOf(ts, g, c), c, Len(ts))
  BY LevelsRead
<1>4. AndOf(ts, g, c) = AndOf(ts, h, c)
  <2> DEFINE first == ParseClause(ts, g, c)
  <2>1. Failed(first) \/ Read(first, c, Len(ts))
    BY <1>3
  <2> HIDE DEF first
  <2>2. SameTurn(ts, g, h, "and", "and", first)
    BY <1>1, <2>1, TurnAgrees
  <2> QED BY <1>2, <2>2 DEF AndOf, first, SameTurn
<1>5. OrOf(ts, g, c) = OrOf(ts, h, c)
  <2> DEFINE first == AndOf(ts, g, c)
  <2>1. Failed(first) \/ Read(first, c, Len(ts))
    BY <1>3, ManyIsRead
  <2> HIDE DEF first
  <2>2. SameTurn(ts, g, h, "or", "or", first)
    BY <1>1, <2>1, TurnAgrees
  <2> QED BY <1>4, <2>2 DEF OrOf, first, SameTurn
<1> QED BY <1>2, <1>4, <1>5, Zenon DEF RowOf

\* A table that satisfies the equation of the recursive function.
IsParse(ts, p) == p = [c \in 1 .. Len(ts) + 1 |-> RowOf(ts, p, c)]

LEMMA ParseExists ==
    ASSUME NEW T, NEW ts \in Seq(T)
    PROVE  \E p : IsParse(ts, p)
<1>1. PICK n \in Nat : n = Len(ts) + 1 /\ 1 \in 1 .. n
  OBVIOUS
<1> DEFINE Solves(g, i) == \A j \in i .. n : g[j] = RowOf(ts, g, j) /\ RowReads(g[j], j, Len(ts))
           Good == {i \in 1 .. n : \E g : Solves(g, i)}
<1>2. ASSUME NEW i \in 1 .. n, \A j \in i + 1 .. n : j \in Good
      PROVE  i \in Good
  <2>1. PICK g : \A j \in i + 1 .. n : g[j] = RowOf(ts, g, j) /\ RowReads(g[j], j, Len(ts))
    <3>1. CASE i = n
      BY <3>1
    <3>2. CASE i # n
      <4>1. i + 1 \in i + 1 .. n
        BY <3>2
      <4> QED BY <1>2, <4>1
    <3> QED BY <3>1, <3>2
  <2> DEFINE h == [j \in i .. n |-> IF j = i THEN RowOf(ts, g, i) ELSE g[j]]
  <2>2. \A j \in i + 1 .. n : h[j] = g[j]
    OBVIOUS
  <2>3. ASSUME NEW j \in i .. n PROVE RowOf(ts, h, j) = RowOf(ts, g, j) /\ RowReads(RowOf(ts, g, j), j, Len(ts))
    <3> HIDE DEF h
    <3>1. j \in 1 .. Len(ts) + 1 /\ \A k \in j + 1 .. Len(ts) + 1 : g[k] = h[k]
      BY <1>1, <2>2
    <3>2. \A k \in j + 1 .. Len(ts) + 1 : RowReads(g[k], k, Len(ts))
      BY <1>1, <2>1
    <3> QED BY <3>1, <3>2, RowAgrees, RowOfReads
  <2>4. \A j \in i .. n : h[j] = IF j = i THEN RowOf(ts, g, i) ELSE g[j]
    OBVIOUS
  <2> HIDE DEF h
  <2>5. ASSUME NEW j \in i .. n PROVE h[j] = RowOf(ts, h, j) /\ RowReads(h[j], j, Len(ts))
    <3>1. j = i \/ j \in i + 1 .. n
      OBVIOUS
    <3>2. h[j] = RowOf(ts, g, j)
      BY <2>1, <2>4, <3>1
    <3>3. RowOf(ts, h, j) = RowOf(ts, g, j) /\ RowReads(RowOf(ts, g, j), j, Len(ts))
      BY <2>3
    <3> QED BY <3>2, <3>3
  <2> QED BY <2>5
<1>3. 1 \in Good
  <2> HIDE DEF Good
  <2> QED BY <1>1, <1>2, FromTheEnd
<1>4. PICK g : \A j \in 1 .. n : g[j] = RowOf(ts, g, j) /\ RowReads(g[j], j, Len(ts))
  BY <1>3
<1> DEFINE f == [j \in 1 .. n |-> g[j]]
<1>5. ASSUME NEW j \in 1 .. n PROVE RowOf(ts, f, j) = RowOf(ts, g, j)
  <2>1. \A k \in 1 .. n : f[k] = g[k]
    OBVIOUS
  <2> HIDE DEF f
  <2>2. j \in 1 .. Len(ts) + 1 /\ \A k \in j + 1 .. Len(ts) + 1 : g[k] = f[k]
    BY <1>1, <2>1
  <2>3. \A k \in j + 1 .. Len(ts) + 1 : RowReads(g[k], k, Len(ts))
    BY <1>1, <1>4
  <2>4. RowOf(ts, g, j) = RowOf(ts, f, j)
    BY <2>2, <2>3, RowAgrees
  <2> QED BY <2>4
<1>6. f = [j \in 1 .. n |-> RowOf(ts, f, j)]
  <2>1. \A j \in 1 .. n : g[j] = RowOf(ts, f, j)
    <3> HIDE DEF f
    <3> QED BY <1>4, <1>5
  <2> HIDE DEF f
  <2>2. f = [j \in 1 .. n |-> g[j]]
    BY DEF f
  <2> QED BY <2>1, <2>2
<1> HIDE DEF f
<1> QED BY <1>1, <1>6 DEF IsParse

LEMMA ParseReads ==
    ASSUME NEW T, NEW ts \in Seq(T), NEW p, IsParse(ts, p)
    PROVE  \A c \in 1 .. Len(ts) + 1 : p[c] = RowOf(ts, p, c) /\ RowReads(p[c], c, Len(ts))
<1>1. PICK n \in Nat : n = Len(ts) + 1
  OBVIOUS
<1>2. \A c \in 1 .. n : p[c] = RowOf(ts, p, c)
  <2> DEFINE f == [c \in 1 .. n |-> RowOf(ts, p, c)]
  <2>1. p = f
    BY <1>1 DEF IsParse
  <2>2. \A c \in 1 .. n : f[c] = RowOf(ts, p, c)
    OBVIOUS
  <2> HIDE DEF f
  <2> QED BY <2>1, <2>2
<1> DEFINE Good == {c \in 1 .. n : RowReads(p[c], c, Len(ts))}
<1>3. ASSUME NEW i \in 1 .. n, \A j \in i + 1 .. n : j \in Good
      PROVE  i \in Good
  <2>1. i \in 1 .. Len(ts) + 1 /\ \A k \in i + 1 .. Len(ts) + 1 : RowReads(p[k], k, Len(ts))
    BY <1>1, <1>3
  <2>2. RowReads(RowOf(ts, p, i), i, Len(ts))
    BY <2>1, RowOfReads
  <2> QED BY <1>2, <2>2
<1>4. \A c \in 1 .. n : c \in Good
  <2> HIDE DEF Good
  <2> QED BY <1>1, <1>3, FromTheEnd
<1> QED BY <1>1, <1>2, <1>4

\* The equation as ParseLevel states it.
LevelsAt(ts, p, c) ==
    [level \in {"or", "and", "clause"} |->
        CASE level = "or" -> Joined(ts, p, "or", "and", "or", c)
          [] level = "and" -> Joined(ts, p, "and", "clause", "and", c)
          [] level = "clause" -> ParseClause(ts, p, c)]
IsTable(ts, p) == p = [c \in 1 .. Len(ts) + 1 |-> LevelsAt(ts, p, c)]

LEMMA LevelsAtIs ==
    ASSUME NEW ts, NEW p, NEW c
    PROVE  /\ LevelsAt(ts, p, c)["or"] = Joined(ts, p, "or", "and", "or", c)
           /\ LevelsAt(ts, p, c)["and"] = Joined(ts, p, "and", "clause", "and", c)
           /\ LevelsAt(ts, p, c)["clause"] = ParseClause(ts, p, c)
           /\ DOMAIN LevelsAt(ts, p, c) = Levels
<1> DEFINE or == Joined(ts, p, "or", "and", "or", c)
           and == Joined(ts, p, "and", "clause", "and", c)
           clause == ParseClause(ts, p, c)
           Of(level) == CASE level = "or" -> or [] level = "and" -> and [] level = "clause" -> clause
<1>1. Of("or") = or /\ Of("and") = and /\ Of("clause") = clause
  <2> HIDE DEF or, and, clause
  <2> QED BY Zenon
<1>2. LevelsAt(ts, p, c) = [level \in {"or", "and", "clause"} |-> Of(level)]
  BY Zenon DEF LevelsAt
<1> HIDE DEF or, and, clause, Of
<1>3. /\ LevelsAt(ts, p, c)["or"] = Of("or")
      /\ LevelsAt(ts, p, c)["and"] = Of("and")
      /\ LevelsAt(ts, p, c)["clause"] = Of("clause")
      /\ DOMAIN LevelsAt(ts, p, c) = Levels
  BY <1>2 DEF Levels
<1> QED BY <1>1, <1>3 DEF or, and, clause

LEMMA SameRows ==
    ASSUME NEW T, NEW ts \in Seq(T), NEW p, NEW c,
           p[c]["clause"] = ParseClause(ts, p, c), p[c]["and"] = AndOf(ts, p, c)
    PROVE  LevelsAt(ts, p, c) = RowOf(ts, p, c)
<1>1. Joined(ts, p, "and", "clause", "and", c) = AndOf(ts, p, c)
  <2>1. Joined(ts, p, "and", "clause", "and", c) = Turn(ts, p, "and", "and", p[c]["clause"])
    BY JoinedIsTurn
  <2> QED BY <2>1 DEF AndOf
<1>2. Joined(ts, p, "or", "and", "or", c) = OrOf(ts, p, c)
  <2>1. Joined(ts, p, "or", "and", "or", c) = Turn(ts, p, "or", "or", p[c]["and"])
    BY JoinedIsTurn
  <2> QED BY <2>1 DEF OrOf
<1> DEFINE a == LevelsAt(ts, p, c)
           b == RowOf(ts, p, c)
<1>3. a["or"] = b["or"] /\ a["and"] = b["and"] /\ a["clause"] = b["clause"]
  BY <1>1, <1>2, LevelsAtIs, RowIs
<1>4. DOMAIN a = Levels /\ DOMAIN b = Levels
  BY LevelsAtIs DEF RowOf
<1>5. a = [level \in Levels |-> a[level]] /\ b = [level \in Levels |-> b[level]]
  <2>1. b = [level \in Levels |-> b[level]]
    BY DEF RowOf
  <2>2. a = [level \in Levels |-> a[level]]
    BY DEF LevelsAt, Levels
  <2> QED BY <2>1, <2>2
<1> HIDE DEF a, b
<1>6. \A level \in Levels : a[level] = b[level]
  BY <1>3 DEF Levels
<1>7. a = b
  BY <1>5, <1>6
<1> QED BY <1>7 DEF a, b

LEMMA ParseLevelIs ==
    ASSUME NEW T, NEW ts \in Seq(T)
    PROVE  IsParse(ts, ParseLevel(ts))
<1>1. ASSUME NEW p, IsParse(ts, p) PROVE IsTable(ts, p)
  <2>1. ASSUME NEW c \in 1 .. Len(ts) + 1 PROVE RowOf(ts, p, c) = LevelsAt(ts, p, c)
    <3>1. p[c] = RowOf(ts, p, c)
      BY <1>1, ParseReads
    <3>2. p[c]["clause"] = ParseClause(ts, p, c) /\ p[c]["and"] = AndOf(ts, p, c)
      BY <3>1, RowIs
    <3> QED BY <3>2, SameRows
  <2> QED BY <1>1, <2>1 DEF IsParse, IsTable
<1>2. ASSUME NEW p, IsTable(ts, p) PROVE IsParse(ts, p)
  <2>1. ASSUME NEW c \in 1 .. Len(ts) + 1 PROVE LevelsAt(ts, p, c) = RowOf(ts, p, c)
    <3>1. p[c] = LevelsAt(ts, p, c)
      <4> DEFINE f == [k \in 1 .. Len(ts) + 1 |-> LevelsAt(ts, p, k)]
      <4>1. p = f
        BY <1>2 DEF IsTable
      <4>2. f[c] = LevelsAt(ts, p, c)
        OBVIOUS
      <4> HIDE DEF f
      <4> QED BY <4>1, <4>2
    <3>2. p[c]["clause"] = ParseClause(ts, p, c)
      BY <3>1, LevelsAtIs
    <3>3. p[c]["and"] = AndOf(ts, p, c)
      <4>1. p[c]["and"] = Joined(ts, p, "and", "clause", "and", c)
        BY <3>1, LevelsAtIs
      <4>2. Joined(ts, p, "and", "clause", "and", c) = Turn(ts, p, "and", "and", p[c]["clause"])
        BY JoinedIsTurn
      <4> QED BY <3>2, <4>1, <4>2 DEF AndOf
    <3> QED BY <3>2, <3>3, SameRows
  <2> QED BY <1>2, <2>1 DEF IsParse, IsTable
<1>3. \E p : IsTable(ts, p)
  BY <1>1, ParseExists
<1>4. IsTable(ts, ParseLevel(ts))
  BY <1>3, Zenon DEF IsTable, LevelsAt, ParseLevel
<1> QED BY <1>2, <1>4
-----------------------------------------------------------------------------
(* What is read from a token on.  A clause is wanted there; if an AND or OR  *)
(* at the end of the input wants it, the error points at that.               *)

\* What is read from a place on: an operand, a group of operands joined by
\* AND, an expression.  At the end behind AND or OR it is the join that is
\* reported.
WantedByJoin(ts, c) == c > Len(ts) /\ c > 1 /\ IsJoin(ts, c - 1)
Operand(ts, c) ==
    IF WantedByJoin(ts, c) THEN Fail(c - 1, "end") ELSE ParseClause(ts, ParseLevel(ts), c)
RunAt(ts, c) == Turn(ts, ParseLevel(ts), "and", "and", Operand(ts, c))
ExprAt(ts, c) == Turn(ts, ParseLevel(ts), "or", "or", RunAt(ts, c))

LEMMA TableIs ==
    ASSUME NEW T, NEW ts \in Seq(T), NEW c \in 1 .. Len(ts) + 1
    PROVE  /\ ParseLevel(ts)[c]["and"] = AndOf(ts, ParseLevel(ts), c)
           /\ ParseLevel(ts)[c]["or"] = OrOf(ts, ParseLevel(ts), c)
           /\ Failed(ParseClause(ts, ParseLevel(ts), c)) \/ Read(ParseClause(ts, ParseLevel(ts), c), c, Len(ts))
           /\ \A k \in 1 .. Len(ts) + 1 : RowReads(ParseLevel(ts)[k], k, Len(ts))
<1>1. PICK p : p = ParseLevel(ts) /\ IsParse(ts, p)
  BY ParseLevelIs
<1>2. /\ p[c] = RowOf(ts, p, c) /\ RowReads(p[c], c, Len(ts))
      /\ \A k \in 1 .. Len(ts) + 1 : RowReads(p[k], k, Len(ts))
  BY <1>1, ParseReads
<1>3. p[c]["and"] = AndOf(ts, p, c) /\ p[c]["or"] = OrOf(ts, p, c) /\ p[c]["clause"] = ParseClause(ts, p, c)
  BY <1>2, RowIs
<1>4. Failed(ParseClause(ts, p, c)) \/ Read(ParseClause(ts, p, c), c, Len(ts))
  <2>1. Failed(p[c]["clause"]) \/ Read(p[c]["clause"], c, Len(ts))
    BY <1>2 DEF RowReads
  <2> QED BY <1>3, <2>1
<1> QED BY <1>1, <1>2, <1>3, <1>4

LEMMA ReadFrom ==
    ASSUME NEW T, NEW ts \in Seq(T), NEW c \in 1 .. Len(ts) + 1
    PROVE  /\ Failed(Operand(ts, c)) \/ Read(Operand(ts, c), c, Len(ts))
           /\ Failed(RunAt(ts, c)) \/ ReadMany(RunAt(ts, c), c, Len(ts))
           /\ Failed(ExprAt(ts, c)) \/ ReadMany(ExprAt(ts, c), c, Len(ts))
<1>1. PICK p : p = ParseLevel(ts)
  OBVIOUS
<1>2. Failed(Operand(ts, c)) \/ Read(Operand(ts, c), c, Len(ts))
  <2>1. CASE WantedByJoin(ts, c)
    BY <2>1 DEF Operand, Failed
  <2>2. CASE ~WantedByJoin(ts, c)
    <3>1. Operand(ts, c) = ParseClause(ts, ParseLevel(ts), c)
      BY <2>2, Zenon DEF Operand
    <3> QED BY <3>1, TableIs
  <2> QED BY <2>1, <2>2
<1>3. \A k \in c + 1 .. Len(ts) + 1 : RowReads(p[k], k, Len(ts))
  <2>1. \A k \in 1 .. Len(ts) + 1 : RowReads(p[k], k, Len(ts))
    BY <1>1, TableIs
  <2>2. \A k \in c + 1 .. Len(ts) + 1 : k \in 1 .. Len(ts) + 1
    OBVIOUS
  <2> QED BY <2>1, <2>2
<1>4. c \in Nat
  OBVIOUS
<1>5. \A k \in c + 1 .. Len(ts) + 1 : Failed(p[k]["or"]) \/ ReadMany(p[k]["or"], k, Len(ts))
  BY <1>3 DEF RowReads
<1>6. \A k \in c + 1 .. Len(ts) + 1 : Failed(p[k]["and"]) \/ ReadMany(p[k]["and"], k, Len(ts))
  BY <1>3 DEF RowReads
<1>7. Failed(RunAt(ts, c)) \/ ReadMany(RunAt(ts, c), c, Len(ts))
  BY <1>1, <1>2, <1>4, <1>6, TurnReads DEF RunAt
<1>8. Failed(RunAt(ts, c)) \/ Read(RunAt(ts, c), c, Len(ts))
  BY <1>7, ManyIsRead
<1>9. Failed(ExprAt(ts, c)) \/ ReadMany(ExprAt(ts, c), c, Len(ts))
  BY <1>1, <1>4, <1>5, <1>8, TurnReads DEF ExprAt
<1> QED BY <1>2, <1>7, <1>9

LEMMA TableFrom ==
    ASSUME NEW T, NEW ts \in Seq(T), NEW c \in 1 .. Len(ts) + 1, ~WantedByJoin(ts, c)
    PROVE  /\ ParseLevel(ts)[c]["and"] = RunAt(ts, c)
           /\ ParseLevel(ts)[c]["or"] = ExprAt(ts, c)
<1>1. Operand(ts, c) = ParseClause(ts, ParseLevel(ts), c)
  BY Zenon DEF Operand
<1>2. AndOf(ts, ParseLevel(ts), c) = RunAt(ts, c)
  BY <1>1 DEF AndOf, RunAt
<1>3. OrOf(ts, ParseLevel(ts), c) = ExprAt(ts, c)
  BY <1>2 DEF OrOf, ExprAt
<1>4. /\ ParseLevel(ts)[c]["and"] = AndOf(ts, ParseLevel(ts), c)
      /\ ParseLevel(ts)[c]["or"] = OrOf(ts, ParseLevel(ts), c)
  BY TableIs
<1> QED BY <1>2, <1>3, <1>4

LEMMA RunFails ==
    ASSUME NEW ts, NEW c, NEW r, Operand(ts, c) = r, Failed(r)
    PROVE  RunAt(ts, c) = r
BY TurnFails DEF RunAt

LEMMA ExprFails ==
    ASSUME NEW ts, NEW c, NEW r, RunAt(ts, c) = r, Failed(r)
    PROVE  ExprAt(ts, c) = r
BY TurnFails DEF ExprAt

LEMMA RestIs ==
    ASSUME NEW T, NEW ts \in Seq(T), NEW j \in 1 .. Len(ts), IsJoin(ts, j)
    PROVE  /\ Rest(ts, ParseLevel(ts), "and", j) = RunAt(ts, j + 1)
           /\ Rest(ts, ParseLevel(ts), "or", j) = ExprAt(ts, j + 1)
<1>1. PICK p : p = ParseLevel(ts)
  OBVIOUS
<1>2. j \in Nat /\ Len(ts) \in Nat /\ j + 1 \in 1 .. Len(ts) + 1 /\ j + 1 - 1 = j
  OBVIOUS
<1>3. CASE j = Len(ts)
  <2>1. WantedByJoin(ts, j + 1)
    <3>1. j + 1 > Len(ts) /\ j + 1 > 1
      BY <1>2, <1>3
    <3> QED BY <1>2, <3>1 DEF WantedByJoin
  <2>2. Operand(ts, j + 1) = Fail(j, "end")
    BY <1>2, <2>1 DEF Operand
  <2>3. RunAt(ts, j + 1) = Fail(j, "end")
    BY <2>2, RunFails DEF Failed
  <2>4. ExprAt(ts, j + 1) = Fail(j, "end")
    BY <2>3, ExprFails DEF Failed
  <2> QED BY <1>3, <2>3, <2>4 DEF Rest
<1>4. CASE j # Len(ts)
  <2>1. j + 1 \in 1 .. Len(ts) /\ ~WantedByJoin(ts, j + 1)
    BY <1>2, <1>4 DEF WantedByJoin
  <2>2. CASE IsJoin(ts, j + 1)
    <3>1. Operand(ts, j + 1) = Fail(j + 1, "token")
      BY <2>1, <2>2, ClauseIsNone DEF Operand
    <3>2. RunAt(ts, j + 1) = Fail(j + 1, "token")
      BY <3>1, RunFails DEF Failed
    <3>3. ExprAt(ts, j + 1) = Fail(j + 1, "token")
      BY <3>2, ExprFails DEF Failed
    <3> QED BY <1>4, <2>2, <3>2, <3>3 DEF Rest
  <2>3. CASE ~IsJoin(ts, j + 1)
    <3>1. /\ ParseLevel(ts)[j + 1]["and"] = RunAt(ts, j + 1)
          /\ ParseLevel(ts)[j + 1]["or"] = ExprAt(ts, j + 1)
      BY <1>2, <2>1, TableFrom
    <3> QED BY <1>4, <2>3, <3>1 DEF Rest
  <2> QED BY <2>2, <2>3
<1> QED BY <1>3, <1>4

LEMMA RunEnds ==
    ASSUME NEW ts, NEW c, NEW node, NEW j, Operand(ts, c) = Done(node, j), ~IsWord(ts, j, "and")
    PROVE  RunAt(ts, c) = Done(<<node>>, j)
BY TurnEnds DEF RunAt

LEMMA ExprEnds ==
    ASSUME NEW ts, NEW c, NEW run, NEW j, RunAt(ts, c) = Done(run, j), ~IsWord(ts, j, "or")
    PROVE  ExprAt(ts, c) = Done(<<run>>, j)
BY TurnEnds DEF ExprAt

LEMMA RunGoesOn ==
    ASSUME NEW T, NEW ts \in Seq(T), NEW c, NEW node, NEW j \in 1 .. Len(ts),
           Operand(ts, c) = Done(node, j), IsWord(ts, j, "and")
    PROVE  RunAt(ts, c) = Prepend(<<node>>, RunAt(ts, j + 1))
<1>1. RunAt(ts, c) = Prepend(<<node>>, Rest(ts, ParseLevel(ts), "and", j))
  BY TurnGoesOn DEF RunAt
<1>2. IsJoin(ts, j)
  BY DEF IsJoin
<1>3. Rest(ts, ParseLevel(ts), "and", j) = RunAt(ts, j + 1)
  BY <1>2, RestIs
<1> QED BY <1>1, <1>3

LEMMA ExprGoesOn ==
    ASSUME NEW T, NEW ts \in Seq(T), NEW c, NEW run, NEW j \in 1 .. Len(ts),
           RunAt(ts, c) = Done(run, j), IsWord(ts, j, "or")
    PROVE  ExprAt(ts, c) = Prepend(<<run>>, ExprAt(ts, j + 1))
<1>1. ExprAt(ts, c) = Prepend(<<run>>, Rest(ts, ParseLevel(ts), "or", j))
  BY TurnGoesOn DEF ExprAt
<1>2. IsJoin(ts, j)
  BY DEF IsJoin
<1>3. Rest(ts, ParseLevel(ts), "or", j) = ExprAt(ts, j + 1)
  BY <1>2, RestIs
<1> QED BY <1>1, <1>3

LEMMA OperandIsClause ==
    ASSUME NEW T, NEW ts \in Seq(T), NEW c \in 1 .. Len(ts)
    PROVE  Operand(ts, c) = ParseClause(ts, ParseLevel(ts), c)
<1>1. ~WantedByJoin(ts, c)
  BY DEF WantedByJoin
<1> QED BY <1>1, Zenon DEF Operand

LEMMA OperandIsGroup ==
    ASSUME NEW T, NEW ts \in Seq(T), NEW c \in 1 .. Len(ts), ts[c].kind = "("
    PROVE  Operand(ts, c) = ParseGroup(ts, c, ExprAt(ts, c + 1))
<1>1. ~WantedByJoin(ts, c + 1) /\ c + 1 \in 1 .. Len(ts) + 1
  <2>1. c + 1 - 1 = c
    OBVIOUS
  <2>2. ~IsJoin(ts, c)
    BY DEF IsJoin, IsWord, Is
  <2> QED BY <2>1, <2>2 DEF WantedByJoin
<1>2. ParseLevel(ts)[c + 1]["or"] = ExprAt(ts, c + 1)
  BY <1>1, TableFrom
<1>3. ParseClause(ts, ParseLevel(ts), c) = ParseGroup(ts, c, ParseLevel(ts)[c + 1]["or"])
  BY ClauseIsGroup
<1> QED BY <1>2, <1>3, OperandIsClause

LEMMA ParseIs ==
    ASSUME NEW T, NEW ts \in Seq(T)
    PROVE  Parse(ts) = IF ExprAt(ts, 1).ok /\ ExprAt(ts, 1).next <= Len(ts)
                       THEN Fail(ExprAt(ts, 1).next, "token") ELSE ExprAt(ts, 1)
<1>1. ~WantedByJoin(ts, 1) /\ 1 \in 1 .. Len(ts) + 1
  BY DEF WantedByJoin
<1>2. ParseLevel(ts)[1]["or"] = ExprAt(ts, 1)
  BY <1>1, TableFrom
<1> QED BY <1>2 DEF Parse

LEMMA ParseFails ==
    ASSUME NEW T, NEW ts \in Seq(T), NEW r, ExprAt(ts, 1) = r, Failed(r)
    PROVE  Parse(ts) = r
<1>1. ~r.ok
  BY FailIs DEF Failed
<1> QED BY <1>1, ParseIs
-----------------------------------------------------------------------------
(* The open levels of a query that is typed. *)

\* A level with the groups it has, the last of them apart.
Level(at, done, run) == [at |-> at, groups |-> Append(done, run)]

LEMMA LevelIs ==
    ASSUME NEW at, NEW done, NEW run
    PROVE  Level(at, done, run).at = at /\ Level(at, done, run).groups = Append(done, run)
BY DEF Level

LEMMA LastOf ==
    ASSUME NEW x, IsSeq(x), NEW y
    PROVE  Append(x, y)[Len(Append(x, y))] = y
<1>1. PICK S : x \in Seq(S)
  BY DEF IsSeq
<1>2. x \in Seq(S \cup {y}) /\ y \in S \cup {y}
  BY <1>1
<1> QED BY <1>2

LEMMA AppendFacts ==
    ASSUME NEW R, NEW x \in Seq(R), NEW y \in R
    PROVE  /\ Append(x, y) \in Seq(R) /\ Len(Append(x, y)) = Len(x) + 1
           /\ \A i \in 1 .. Len(x) : Append(x, y)[i] = x[i]
           /\ Append(x, y)[Len(x) + 1] = y
           /\ DOMAIN Append(x, y) = 1 .. Len(x) + 1
OBVIOUS

\* Changes of a sequence and of the groups of a level.
Replaced(q, i, z) == [q EXCEPT ![i] = z]
WithGroups(r, others) == [r EXCEPT !.groups = others]

LEMMA LastChanged ==
    ASSUME NEW x, IsSeq(x), NEW y, NEW z, NEW q, q = Append(x, y)
    PROVE  Replaced(q, Len(q), z) = Append(x, z)
<1>1. PICK S : x \in Seq(S)
  BY DEF IsSeq
<1> DEFINE R == S \cup {y, z}
           w == Append(x, z)
<1>2. x \in Seq(R) /\ y \in R /\ z \in R
  BY <1>1
<1> HIDE DEF R
<1>3. PICK n \in Nat : n = Len(x)
  BY <1>1
<1>4. q \in Seq(R) /\ Len(q) = n + 1 /\ \A i \in 1 .. n : q[i] = x[i]
  BY <1>2, <1>3, AppendFacts
<1>5. w \in Seq(R) /\ Len(w) = n + 1 /\ (\A i \in 1 .. n : w[i] = x[i]) /\ w[n + 1] = z
  BY <1>2, <1>3, AppendFacts
<1> HIDE DEF w
<1>6. \A i \in 1 .. n : q[i] = w[i]
  BY <1>4, <1>5
<1>7. DOMAIN q = 1 .. n + 1 /\ w = [i \in 1 .. n + 1 |-> w[i]]
  BY <1>3, <1>4, <1>5
<1>8. Replaced(q, n + 1, z) = [i \in 1 .. n + 1 |-> IF i = n + 1 THEN z ELSE q[i]]
  BY <1>3, <1>7 DEF Replaced
<1>9. \A i \in 1 .. n + 1 : (IF i = n + 1 THEN z ELSE q[i]) = w[i]
  <2>1. \A i \in 1 .. n + 1 : i = n + 1 \/ i \in 1 .. n
    BY <1>3
  <2> QED BY <1>5, <1>6, <2>1
<1>10. Replaced(q, n + 1, z) = w
  BY <1>7, <1>8, <1>9
<1> QED BY <1>4, <1>10 DEF w

LEMMA GroupsReplaced ==
    ASSUME NEW at, NEW done, NEW run, NEW other, NEW r, r = Level(at, done, run)
    PROVE  WithGroups(r, Append(done, other)) = Level(at, done, other)
<1> DEFINE groups == Append(done, run)
           others == Append(done, other)
<1>1. r = [at |-> at, groups |-> groups] /\ Level(at, done, other) = [at |-> at, groups |-> others]
  BY DEF Level
<1> HIDE DEF groups, others
<1>2. WithGroups(r, others) = [at |-> at, groups |-> others]
  BY <1>1 DEF WithGroups
<1> QED BY <1>1, <1>2 DEF others

LEMMA ClauseAdded ==
    ASSUME NEW exprs, IsSeq(exprs), Len(exprs) > 0,
           NEW at, NEW done, NEW run, IsSeq(done), IsSeq(run),
           exprs[Len(exprs)] = Level(at, done, run), NEW clause
    PROVE  WithClause(exprs, clause) =
               Replaced(exprs, Len(exprs), Level(at, done, Append(run, clause)))
<1> DEFINE n == Len(exprs)
           groups == exprs[n].groups
           m == Len(groups)
           others == Replaced(groups, m, Append(groups[m], clause))
<1>1. groups = Append(done, run)
  BY LevelIs
<1>2. WithClause(exprs, clause) = Replaced(exprs, n, WithGroups(exprs[n], others))
  BY DEF WithClause, Replaced, WithGroups
<1> HIDE DEF groups
<1>3. groups[m] = run
  BY <1>1, LastOf
<1>4. others = Append(done, Append(run, clause))
  <2>1. others = Replaced(groups, Len(groups), Append(run, clause))
    BY <1>3
  <2> QED BY <1>1, <2>1, LastChanged
<1> HIDE DEF others, m
<1>5. WithGroups(exprs[n], others) = Level(at, done, Append(run, clause))
  BY <1>4, GroupsReplaced
<1> QED BY <1>2, <1>5

LEMMA ReplacedIs ==
    ASSUME NEW x, IsSeq(x), Len(x) > 0, NEW z
    PROVE  /\ IsSeq(Replaced(x, Len(x), z)) /\ Len(Replaced(x, Len(x), z)) = Len(x)
           /\ \A k \in 1 .. Len(x) - 1 : Replaced(x, Len(x), z)[k] = x[k]
           /\ Replaced(x, Len(x), z)[Len(x)] = z
<1>1. PICK S : x \in Seq(S)
  BY DEF IsSeq
<1>2. PICK n \in Nat \ {0} : n = Len(x)
  BY <1>1
<1>3. PICK R : x \in Seq(R) /\ z \in R
  <2>1. x \in Seq(S \cup {z}) /\ z \in S \cup {z}
    BY <1>1
  <2> QED BY <2>1
<1> DEFINE r == [x EXCEPT ![n] = z]
<1>4. r \in Seq(R) /\ Len(r) = n /\ (\A k \in 1 .. n - 1 : r[k] = x[k]) /\ r[n] = z
  BY <1>2, <1>3
<1>5. Replaced(x, Len(x), z) = r
  BY <1>2 DEF Replaced
<1> HIDE DEF r
<1> QED BY <1>2, <1>4, <1>5, SeqIs

\* From the start of a level to a place: the groups before the last that begin
\* at e, and the clauses of the last group, are read, and the rest is read as it
\* is from the place.
Leads(u, at, done, run, e, c) ==
    /\ ExprAt(u, at + 1) = Prepend(done, ExprAt(u, e))
    /\ RunAt(u, e) = Prepend(run, RunAt(u, c))

LEMMA NothingBefore ==
    ASSUME NEW r, Failed(r) \/ \E node, next : r = Done(node, next) /\ IsSeq(node)
    PROVE  Prepend(<<>>, r) = r
<1>1. CASE Failed(r)
  BY <1>1, PrependFailed
<1>2. CASE \E node, next : r = Done(node, next) /\ IsSeq(node)
  <2>1. PICK node, next : r = Done(node, next) /\ IsSeq(node)
    BY <1>2
  <2>2. <<>> \o node = node
    BY <2>1, SeqsJoin
  <2>3. Prepend(<<>>, Done(node, next)) = Done(<<>> \o node, next)
    BY PrependDone
  <2> QED BY <2>1, <2>2, <2>3
<1> QED BY <1>1, <1>2

LEMMA ReadWell ==
    ASSUME NEW T, NEW u \in Seq(T), NEW c \in 1 .. Len(u) + 1
    PROVE  /\ Failed(RunAt(u, c)) \/ \E node, next : RunAt(u, c) = Done(node, next) /\ IsSeq(node)
           /\ Failed(ExprAt(u, c)) \/ \E node, next : ExprAt(u, c) = Done(node, next) /\ IsSeq(node)
<1>1. /\ Failed(RunAt(u, c)) \/ ReadMany(RunAt(u, c), c, Len(u))
      /\ Failed(ExprAt(u, c)) \/ ReadMany(ExprAt(u, c), c, Len(u))
  BY ReadFrom
<1>2. ASSUME NEW r, ReadMany(r, c, Len(u)) PROVE \E node, next : r = Done(node, next) /\ IsSeq(node)
  BY <1>2 DEF ReadMany
<1> QED BY <1>1, <1>2

LEMMA LeadsAtStart ==
    ASSUME NEW T, NEW u \in Seq(T), NEW at \in 0 .. Len(u)
    PROVE  Leads(u, at, <<>>, <<>>, at + 1, at + 1)
<1>1. at + 1 \in 1 .. Len(u) + 1
  OBVIOUS
<1>2. Prepend(<<>>, ExprAt(u, at + 1)) = ExprAt(u, at + 1)
  BY <1>1, ReadWell, NothingBefore
<1>3. Prepend(<<>>, RunAt(u, at + 1)) = RunAt(u, at + 1)
  BY <1>1, ReadWell, NothingBefore
<1> QED BY <1>2, <1>3 DEF Leads

LEMMA LeadsOverAnd ==
    ASSUME NEW T, NEW u \in Seq(T), NEW at, NEW done, NEW run, IsSeq(run), NEW e, NEW c,
           Leads(u, at, done, run, e, c),
           NEW node, NEW j \in 1 .. Len(u), Operand(u, c) = Done(node, j), IsWord(u, j, "and")
    PROVE  Leads(u, at, done, Append(run, node), e, j + 1)
<1>1. RunAt(u, c) = Prepend(<<node>>, RunAt(u, j + 1))
  BY RunGoesOn
<1>2. j + 1 \in 1 .. Len(u) + 1
  OBVIOUS
<1>3. Prepend(run, Prepend(<<node>>, RunAt(u, j + 1))) = Prepend(run \o <<node>>, RunAt(u, j + 1))
  BY <1>2, ReadWell, SingleSeq, PrependTwice
<1>4. run \o <<node>> = Append(run, node)
  BY AppendIs
<1> QED BY <1>1, <1>3, <1>4 DEF Leads

\* What is read of a group, and of a level, of which the last clause is complete.
LEMMA GroupToEnd ==
    ASSUME NEW u, NEW at, NEW done, NEW run, IsSeq(run), NEW e, NEW c, Leads(u, at, done, run, e, c),
           NEW node, NEW j, Operand(u, c) = Done(node, j), ~IsWord(u, j, "and")
    PROVE  RunAt(u, e) = Done(Append(run, node), j)
<1>1. RunAt(u, c) = Done(<<node>>, j)
  BY RunEnds
<1>2. Prepend(run, Done(<<node>>, j)) = Done(run \o <<node>>, j)
  BY PrependDone
<1>3. run \o <<node>> = Append(run, node)
  BY AppendIs
<1> QED BY <1>1, <1>2, <1>3 DEF Leads

LEMMA LeadsToEnd ==
    ASSUME NEW u, NEW at, NEW done, NEW run, IsSeq(done), IsSeq(run), NEW e, NEW c,
           Leads(u, at, done, run, e, c),
           NEW node, NEW j, Operand(u, c) = Done(node, j), ~IsWord(u, j, "and"), ~IsWord(u, j, "or")
    PROVE  ExprAt(u, at + 1) = Done(Append(done, Append(run, node)), j)
<1>1. RunAt(u, e) = Done(Append(run, node), j)
  BY GroupToEnd
<1> DEFINE group == Append(run, node)
<1>2. RunAt(u, e) = Done(group, j)
  BY <1>1
<1> HIDE DEF group
<1>3. ExprAt(u, e) = Done(<<group>>, j)
  BY <1>2, ExprEnds
<1>4. Prepend(done, Done(<<group>>, j)) = Done(done \o <<group>>, j)
  BY PrependDone
<1>5. done \o <<group>> = Append(done, group)
  BY AppendIs
<1>6. ExprAt(u, at + 1) = Done(Append(done, group), j)
  BY <1>3, <1>4, <1>5 DEF Leads
<1> QED BY <1>6 DEF group

LEMMA LeadsOverOr ==
    ASSUME NEW T, NEW u \in Seq(T), NEW at, NEW done, NEW run, IsSeq(done), IsSeq(run), NEW e, NEW c,
           Leads(u, at, done, run, e, c),
           NEW node, NEW j \in 1 .. Len(u), Operand(u, c) = Done(node, j), IsWord(u, j, "or")
    PROVE  Leads(u, at, Append(done, Append(run, node)), <<>>, j + 1, j + 1)
<1>1. ~IsWord(u, j, "and")
  BY DEF IsWord
<1>9. RunAt(u, e) = Done(Append(run, node), j)
  BY <1>1, GroupToEnd
<1> DEFINE group == Append(run, node)
<1>2. RunAt(u, e) = Done(group, j)
  BY <1>9
<1> HIDE DEF group
<1>3. ExprAt(u, e) = Prepend(<<group>>, ExprAt(u, j + 1))
  BY <1>2, ExprGoesOn
<1>4. j + 1 \in 1 .. Len(u) + 1
  OBVIOUS
<1>5. Prepend(done, Prepend(<<group>>, ExprAt(u, j + 1))) = Prepend(done \o <<group>>, ExprAt(u, j + 1))
  BY <1>4, ReadWell, SingleSeq, PrependTwice
<1>6. done \o <<group>> = Append(done, group)
  BY AppendIs
<1>7. ExprAt(u, at + 1) = Prepend(Append(done, group), ExprAt(u, j + 1))
  BY <1>3, <1>5, <1>6 DEF Leads
<1>8. Prepend(<<>>, RunAt(u, j + 1)) = RunAt(u, j + 1)
  BY <1>4, ReadWell, NothingBefore
<1> QED BY <1>7, <1>8 DEF Leads, group

LEMMA LeadsToFailure ==
    ASSUME NEW u, NEW at, NEW done, NEW run, NEW e, NEW c, Leads(u, at, done, run, e, c),
           NEW r, Failed(r), Operand(u, c) = r
    PROVE  ExprAt(u, at + 1) = r
<1>1. RunAt(u, c) = r
  BY RunFails
<1>2. RunAt(u, e) = r
  BY <1>1, PrependFailed DEF Leads
<1>3. ExprAt(u, e) = r
  BY <1>2, ExprFails
<1> QED BY <1>3, PrependFailed DEF Leads
-----------------------------------------------------------------------------
(* Clauses that are complete, and clauses that want a token. *)

\* The token at j is there and accepted; what is wrong where it is not.
Has(u, j, where) == j <= Len(u) /\ Accepts(where, u[j])
Cause(u, j) == IF j > Len(u) THEN "end" ELSE "token"

LEMMA StandsIs ==
    ASSUME NEW u, NEW c \in Nat, NEW places, NEW i \in Nat
    PROVE  Stands(u, c, places, i) <=> Has(u, c + i - 1, places[i])
BY DEF Stands, Has

\* The i-th place is the first that has no token that is accepted.
FirstMissing(u, c, places, i) ==
    /\ i \in 1 .. Len(places) /\ ~Has(u, c + i - 1, places[i])
    /\ \A j \in 1 .. i - 1 : Stands(u, c, places, j)

LEMMA FailsAt ==
    ASSUME NEW T, NEW u \in Seq(T), NEW c \in Nat \ {0}, NEW P, NEW places \in Seq(P), NEW node,
           NEW i, FirstMissing(u, c, places, i)
    PROVE  Expect(u, c, places, node) = Fail(c + i - 1, Cause(u, c + i - 1))
<1>1. i \in Nat /\ c \in Nat /\ i \in 1 .. Len(places)
  BY DEF FirstMissing
<1>2. ~Stands(u, c, places, i) /\ \A j \in 1 .. i - 1 : Stands(u, c, places, j)
  BY <1>1, StandsIs DEF FirstMissing
<1>3. Expect(u, c, places, node) = Fail(c + i - 1, IF c + i - 1 > Len(u) THEN "end" ELSE "token")
  BY <1>1, <1>2, ExpectFails
<1> QED BY <1>3 DEF Cause

LEMMA ExpectOne ==
    ASSUME NEW T, NEW u \in Seq(T), NEW c \in Nat \ {0}, NEW a, NEW node
    PROVE  /\ Has(u, c, a) => Expect(u, c, <<a>>, node) = Done(node, c + 1)
           /\ ~Has(u, c, a) => Expect(u, c, <<a>>, node) = Fail(c, Cause(u, c))
<1> DEFINE places == <<a>>
<1>1. places \in Seq({a}) /\ Len(places) = 1 /\ places[1] = a
  BY OnePlace
<1> HIDE DEF places
<1>2. 1 \in 1 .. Len(places) /\ c + 1 - 1 = c /\ c \in Nat
  BY <1>1
<1>3. Stands(u, c, places, 1) <=> Has(u, c, a)
  BY <1>1, <1>2, StandsIs
<1>4. ASSUME Has(u, c, a) PROVE Expect(u, c, places, node) = Done(node, c + 1)
  <2>1. \A i \in 1 .. Len(places) : Stands(u, c, places, i)
    BY <1>1, <1>3, <1>4
  <2>2. Expect(u, c, places, node) = Done(node, c + Len(places))
    BY <1>1, <2>1, ExpectDone
  <2> QED BY <1>1, <2>2
<1>5. ASSUME ~Has(u, c, a) PROVE Expect(u, c, places, node) = Fail(c, Cause(u, c))
  <2>1. \A j \in 1 .. 1 - 1 : Stands(u, c, places, j)
    OBVIOUS
  <2>2. FirstMissing(u, c, places, 1)
    BY <1>1, <1>5, <1>2, <2>1 DEF FirstMissing
  <2>3. Expect(u, c, places, node) = Fail(c + 1 - 1, Cause(u, c + 1 - 1))
    BY <1>1, <2>2, FailsAt
  <2> QED BY <1>2, <2>3
<1> QED BY <1>1, <1>4, <1>5 DEF places

LEMMA ExpectTwo ==
    ASSUME NEW T, NEW u \in Seq(T), NEW c \in Nat \ {0}, NEW a, NEW b, NEW node
    PROVE  /\ Has(u, c, a) /\ Has(u, c + 1, b) => Expect(u, c, <<a, b>>, node) = Done(node, c + 2)
           /\ ~Has(u, c, a) => Expect(u, c, <<a, b>>, node) = Fail(c, Cause(u, c))
           /\ Has(u, c, a) /\ ~Has(u, c + 1, b) => Expect(u, c, <<a, b>>, node) = Fail(c + 1, Cause(u, c + 1))
<1> DEFINE places == <<a, b>>
<1>1. places \in Seq({a, b}) /\ Len(places) = 2 /\ places[1] = a /\ places[2] = b
  BY TwoPlaces
<1> HIDE DEF places
<1>2. 1 \in 1 .. Len(places) /\ 2 \in 1 .. Len(places) /\ c + 1 - 1 = c /\ c + 2 - 1 = c + 1 /\ c \in Nat
  BY <1>1
<1>3. /\ Stands(u, c, places, 1) <=> Has(u, c, a)
      /\ Stands(u, c, places, 2) <=> Has(u, c + 1, b)
  BY <1>1, <1>2, StandsIs
<1>4. ASSUME Has(u, c, a), Has(u, c + 1, b) PROVE Expect(u, c, places, node) = Done(node, c + 2)
  <2>1. \A i \in 1 .. Len(places) : Stands(u, c, places, i)
    BY <1>1, <1>3, <1>4
  <2>2. Expect(u, c, places, node) = Done(node, c + Len(places))
    BY <1>1, <2>1, ExpectDone
  <2> QED BY <1>1, <2>2
<1>5. ASSUME ~Has(u, c, a) PROVE Expect(u, c, places, node) = Fail(c, Cause(u, c))
  <2>1. \A j \in 1 .. 1 - 1 : Stands(u, c, places, j)
    OBVIOUS
  <2>2. FirstMissing(u, c, places, 1)
    BY <1>1, <1>5, <1>2, <2>1 DEF FirstMissing
  <2>3. Expect(u, c, places, node) = Fail(c + 1 - 1, Cause(u, c + 1 - 1))
    BY <1>1, <2>2, FailsAt
  <2> QED BY <1>2, <2>3
<1>6. ASSUME Has(u, c, a), ~Has(u, c + 1, b)
      PROVE  Expect(u, c, places, node) = Fail(c + 1, Cause(u, c + 1))
  <2>1. \A j \in 1 .. 2 - 1 : Stands(u, c, places, j)
    BY <1>3, <1>6
  <2>2. FirstMissing(u, c, places, 2)
    BY <1>1, <1>6, <1>2, <2>1 DEF FirstMissing
  <2>3. Expect(u, c, places, node) = Fail(c + 2 - 1, Cause(u, c + 2 - 1))
    BY <1>1, <2>2, FailsAt
  <2> QED BY <1>2, <2>3
<1> QED BY <1>1, <1>4, <1>5, <1>6 DEF places

LEMMA ExpectThree ==
    ASSUME NEW T, NEW u \in Seq(T), NEW c \in Nat \ {0}, NEW a, NEW b, NEW d, NEW node
    PROVE  /\ Has(u, c, a) /\ Has(u, c + 1, b) /\ Has(u, c + 2, d)
                 => Expect(u, c, <<a, b, d>>, node) = Done(node, c + 3)
           /\ ~Has(u, c, a) => Expect(u, c, <<a, b, d>>, node) = Fail(c, Cause(u, c))
           /\ Has(u, c, a) /\ ~Has(u, c + 1, b)
                 => Expect(u, c, <<a, b, d>>, node) = Fail(c + 1, Cause(u, c + 1))
           /\ Has(u, c, a) /\ Has(u, c + 1, b) /\ ~Has(u, c + 2, d)
                 => Expect(u, c, <<a, b, d>>, node) = Fail(c + 2, Cause(u, c + 2))
<1> DEFINE places == <<a, b, d>>
<1>1. places \in Seq({a, b, d}) /\ Len(places) = 3 /\ places[1] = a /\ places[2] = b /\ places[3] = d
  BY ThreePlaces
<1> HIDE DEF places
<1>2. /\ 1 \in 1 .. Len(places) /\ 2 \in 1 .. Len(places) /\ 3 \in 1 .. Len(places)
      /\ c + 1 - 1 = c /\ c + 2 - 1 = c + 1 /\ c + 3 - 1 = c + 2 /\ c \in Nat
  BY <1>1
<1>3. /\ Stands(u, c, places, 1) <=> Has(u, c, a)
      /\ Stands(u, c, places, 2) <=> Has(u, c + 1, b)
      /\ Stands(u, c, places, 3) <=> Has(u, c + 2, d)
  BY <1>1, <1>2, StandsIs
<1>4. ASSUME Has(u, c, a), Has(u, c + 1, b), Has(u, c + 2, d)
      PROVE  Expect(u, c, places, node) = Done(node, c + 3)
  <2>1. \A i \in 1 .. Len(places) : Stands(u, c, places, i)
    <3>1. \A i \in 1 .. Len(places) : i = 1 \/ i = 2 \/ i = 3
      BY <1>1
    <3> QED BY <1>3, <1>4, <3>1
  <2>2. Expect(u, c, places, node) = Done(node, c + Len(places))
    BY <1>1, <2>1, ExpectDone
  <2> QED BY <1>1, <2>2
<1>5. ASSUME ~Has(u, c, a) PROVE Expect(u, c, places, node) = Fail(c, Cause(u, c))
  <2>1. \A j \in 1 .. 1 - 1 : Stands(u, c, places, j)
    OBVIOUS
  <2>2. FirstMissing(u, c, places, 1)
    BY <1>1, <1>5, <1>2, <2>1 DEF FirstMissing
  <2>3. Expect(u, c, places, node) = Fail(c + 1 - 1, Cause(u, c + 1 - 1))
    BY <1>1, <2>2, FailsAt
  <2> QED BY <1>2, <2>3
<1>6. ASSUME Has(u, c, a), ~Has(u, c + 1, b)
      PROVE  Expect(u, c, places, node) = Fail(c + 1, Cause(u, c + 1))
  <2>1. \A j \in 1 .. 2 - 1 : Stands(u, c, places, j)
    BY <1>3, <1>6
  <2>2. FirstMissing(u, c, places, 2)
    BY <1>1, <1>6, <1>2, <2>1 DEF FirstMissing
  <2>3. Expect(u, c, places, node) = Fail(c + 2 - 1, Cause(u, c + 2 - 1))
    BY <1>1, <2>2, FailsAt
  <2> QED BY <1>2, <2>3
<1>7. ASSUME Has(u, c, a), Has(u, c + 1, b), ~Has(u, c + 2, d)
      PROVE  Expect(u, c, places, node) = Fail(c + 2, Cause(u, c + 2))
  <2>1. \A j \in 1 .. 3 - 1 : Stands(u, c, places, j)
    <3>1. \A j \in 1 .. 3 - 1 : j = 1 \/ j = 2
      OBVIOUS
    <3> QED BY <1>3, <1>7, <3>1
  <2>2. FirstMissing(u, c, places, 3)
    BY <1>1, <1>7, <1>2, <2>1 DEF FirstMissing
  <2>3. Expect(u, c, places, node) = Fail(c + 3 - 1, Cause(u, c + 3 - 1))
    BY <1>1, <2>2, FailsAt
  <2> QED BY <1>2, <2>3
<1> QED BY <1>1, <1>4, <1>5, <1>6, <1>7 DEF places

\* A token that begins a clause about a field.
FieldToken(f) == IsField(f) /\ ~OneOf(f, Reserved)

LEMMA FieldLed ==
    ASSUME NEW T, NEW u \in Seq(T), NEW c \in 1 .. Len(u), FieldToken(u[c])
    PROVE  /\ IsWord(u, c + 1, "contains") =>
                  Operand(u, c) = Expect(u, c + 2, <<"text">>, ContainsClause(u[c], u[c + 2]))
           /\ ~IsWord(u, c + 1, "contains") =>
                  Operand(u, c) = Expect(u, c, <<"field", "operator", "value">>, Compare(u[c], u[c + 1], u[c + 2]))
<1>1. u[c].kind \notin {"(", ")"} /\ ~OneOf(u[c], Reserved) /\ IsField(u[c])
  BY DEF FieldToken, IsField
<1>2. Operand(u, c) = ParseFieldLedClause(u, c)
  BY <1>1, OperandIsClause, ClauseIsFieldLed
<1> QED BY <1>1, <1>2, Zenon DEF ParseFieldLedClause

LEMMA LastLed ==
    ASSUME NEW T, NEW u \in Seq(T), NEW c \in 1 .. Len(u), OneOf(u[c], {"last"})
    PROVE  Operand(u, c) = Expect(u, c + 1, <<"amount", "unit">>, LastDuration(u[c + 1], u[c + 2]))
<1>1. Operand(u, c) = ParseLastDuration(u, c + 1)
  BY OperandIsClause, ClauseIsLast
<1>2. c + 1 + 1 = c + 2
  OBVIOUS
<1> QED BY <1>1, <1>2 DEF ParseLastDuration

LEMMA SinceLed ==
    ASSUME NEW T, NEW u \in Seq(T), NEW c \in 1 .. Len(u), OneOf(u[c], {"since"})
    PROVE  Operand(u, c) = Expect(u, c + 1, <<"moment">>, SinceDatetime(u[c + 1]))
<1>1. Operand(u, c) = ParseSinceDatetime(u, c + 1)
  BY OperandIsClause, ClauseIsSince
<1> QED BY <1>1 DEF ParseSinceDatetime

\* What a clause that is begun consists of.
WellBegun(at, begun) ==
    \/ at = "clause" /\ begun = <<>>
    \/ at = "operator" /\ \E f : begun = <<f>> /\ FieldToken(f)
    \/ at = "value" /\ \E f, op : begun = <<f, op>> /\ FieldToken(f) /\ IsOp(op)
    \/ at = "text" /\ \E f, w : begun = <<f, w>> /\ FieldToken(f) /\ OneOf(w, {"contains"})
    \/ at = "amount" /\ \E w : begun = <<w>> /\ OneOf(w, {"last"})
    \/ at = "unit" /\ \E w, n : begun = <<w, n>> /\ OneOf(w, {"last"}) /\ IsAmount(n)
    \/ at = "moment" /\ \E w : begun = <<w>> /\ OneOf(w, {"since"})

LEMMA FitsIs ==
    ASSUME NEW t
    PROVE  /\ place = "clause" =>
                  (Fits(t) <=> \/ t.kind = "(" \/ OneOf(t, {"last", "since"})
                               \/ IsField(t) /\ ~OneOf(t, Reserved))
           /\ place = "join" => (Fits(t) <=> OneOf(t, {"and", "or"}) \/ (t.kind = ")" /\ Len(open) > 1))
           /\ place = "operator" => (Fits(t) <=> IsOp(t) \/ OneOf(t, {"contains"}))
           /\ place = "value" => (Fits(t) <=> IsValue(t))
           /\ place = "text" => (Fits(t) <=> IsText(t))
           /\ place = "amount" => (Fits(t) <=> IsAmount(t))
           /\ place = "unit" => (Fits(t) <=> IsUnit(t))
           /\ place = "moment" => (Fits(t) <=> IsMoment(t))
           /\ place = "lost" => ~Fits(t)
<1>1. place = "clause" => (Fits(t) <=> \/ t.kind = "(" \/ OneOf(t, {"last", "since"})
                                       \/ IsField(t) /\ ~OneOf(t, Reserved))
  BY Zenon DEF Fits
<1>2. place = "join" => (Fits(t) <=> OneOf(t, {"and", "or"}) \/ (t.kind = ")" /\ Len(open) > 1))
  BY Zenon DEF Fits
<1>3. place = "operator" => (Fits(t) <=> IsOp(t) \/ OneOf(t, {"contains"}))
  BY Zenon DEF Fits
<1>4. place = "value" => (Fits(t) <=> IsValue(t))
  BY Zenon DEF Fits
<1>5. place = "text" => (Fits(t) <=> IsText(t))
  BY Zenon DEF Fits
<1>6. place = "amount" => (Fits(t) <=> IsAmount(t))
  BY Zenon DEF Fits
<1>7. place = "unit" => (Fits(t) <=> IsUnit(t))
  BY Zenon DEF Fits
<1>8. place = "moment" => (Fits(t) <=> IsMoment(t))
  BY Zenon DEF Fits
<1>9. place = "lost" => ~Fits(t)
  BY Zenon DEF Fits
<1> QED BY <1>1, <1>2, <1>3, <1>4, <1>5, <1>6, <1>7, <1>8, <1>9

\* The tokens of a clause that is begun, from c on.
Begun(u, c, begun) ==
    c + Len(begun) <= Len(u) + 1 /\ \A i \in 1 .. Len(begun) : u[c + i - 1] = begun[i]

LEMMA BegunOne ==
    ASSUME NEW u, Len(u) \in Nat, NEW c \in Nat \ {0}, NEW a, Begun(u, c, <<a>>)
    PROVE  u[c] = a /\ c \in 1 .. Len(u)
<1>1. Len(<<a>>) = 1 /\ <<a>>[1] = a /\ 1 \in 1 .. Len(<<a>>) /\ c + 1 - 1 = c
  OBVIOUS
<1>2. u[c + 1 - 1] = <<a>>[1] /\ c + 1 <= Len(u) + 1
  BY <1>1 DEF Begun
<1> QED BY <1>1, <1>2

LEMMA BegunTwo ==
    ASSUME NEW u, Len(u) \in Nat, NEW c \in Nat \ {0}, NEW a, NEW b, Begun(u, c, <<a, b>>)
    PROVE  u[c] = a /\ u[c + 1] = b /\ c \in 1 .. Len(u) /\ c + 1 <= Len(u)
<1>1. /\ Len(<<a, b>>) = 2 /\ <<a, b>>[1] = a /\ <<a, b>>[2] = b
      /\ 1 \in 1 .. Len(<<a, b>>) /\ 2 \in 1 .. Len(<<a, b>>) /\ c + 1 - 1 = c /\ c + 2 - 1 = c + 1
  OBVIOUS
<1>2. u[c + 1 - 1] = <<a, b>>[1] /\ u[c + 2 - 1] = <<a, b>>[2] /\ c + 2 <= Len(u) + 1
  BY <1>1 DEF Begun
<1> QED BY <1>1, <1>2

\* The next token is missing or cannot stand where it stands.
LEMMA ClauseFails ==
    ASSUME NEW T, NEW u \in Seq(T), NEW c \in 1 .. Len(u) + 1,
           place = "clause", c <= Len(u) => ~Fits(u[c]), ~WantedByJoin(u, c)
    PROVE  Operand(u, c) = Fail(c, Cause(u, c))
<1>1. Operand(u, c) = ParseClause(u, ParseLevel(u), c)
  BY Zenon DEF Operand
<1>2. PICK n \in Nat : n = Len(u) /\ c \in 1 .. n + 1 /\ c \in Nat
  OBVIOUS
<1>3. CASE c > n
  <2>1. ParseClause(u, ParseLevel(u), c) = Fail(c, "end")
    BY <1>2, <1>3, ClauseAtEnd
  <2> QED BY <1>1, <1>2, <1>3, <2>1 DEF Cause
<1>4. CASE c <= n
  <2>1. c \in 1 .. Len(u) /\ ~(c > Len(u))
    BY <1>2, <1>4
  <2>2. ~(u[c].kind = "(" \/ OneOf(u[c], {"last", "since"}) \/ (IsField(u[c]) /\ ~OneOf(u[c], Reserved)))
    BY <1>2, <1>4, FitsIs
  <2>3. CASE u[c].kind = ")" \/ IsJoin(u, c)
    <3>1. ParseClause(u, ParseLevel(u), c) = Fail(c, "token")
      BY <2>1, <2>3, ClauseIsNone
    <3> QED BY <1>1, <2>1, <3>1 DEF Cause
  <2>4. CASE ~(u[c].kind = ")" \/ IsJoin(u, c))
    <3>1. u[c].kind \notin {"(", ")"} /\ ~OneOf(u[c], Reserved)
      <4>1. ~OneOf(u[c], {"and", "or"}) /\ ~OneOf(u[c], {"last", "since"})
        BY <2>1, <2>2, <2>4, JoinIs
      <4> QED BY <2>2, <2>4, <4>1 DEF OneOf, Reserved
    <3>2. ParseClause(u, ParseLevel(u), c) = ParseFieldLedClause(u, c)
      BY <2>1, <3>1, ClauseIsFieldLed
    <3>3. ~IsField(u[c])
      BY <2>2, <3>1
    <3>4. ParseFieldLedClause(u, c) =
              Expect(u, c, <<"field", "operator", "value">>, Compare(u[c], u[c + 1], u[c + 2]))
      BY <3>3, Zenon DEF ParseFieldLedClause
    <3>5. ~Has(u, c, "field") /\ c \in Nat \ {0}
      BY <1>2, <3>3, AcceptsIs DEF Has
    <3>6. Expect(u, c, <<"field", "operator", "value">>, Compare(u[c], u[c + 1], u[c + 2])) = Fail(c, Cause(u, c))
      BY <3>5, ExpectThree
    <3> QED BY <1>1, <3>2, <3>4, <3>6
  <2> QED BY <2>3, <2>4
<1> QED BY <1>2, <1>3, <1>4

LEMMA ComparisonIs ==
    ASSUME NEW T, NEW u \in Seq(T), NEW c \in 1 .. Len(u), FieldToken(u[c]), ~IsWord(u, c + 1, "contains")
    PROVE  /\ ~Has(u, c + 1, "operator") => Operand(u, c) = Fail(c + 1, Cause(u, c + 1))
           /\ Has(u, c + 1, "operator") /\ ~Has(u, c + 2, "value") => Operand(u, c) = Fail(c + 2, Cause(u, c + 2))
           /\ Has(u, c + 1, "operator") /\ Has(u, c + 2, "value") =>
                  Operand(u, c) = Done(Compare(u[c], u[c + 1], u[c + 2]), c + 3)
<1>1. Operand(u, c) = Expect(u, c, <<"field", "operator", "value">>, Compare(u[c], u[c + 1], u[c + 2]))
  BY FieldLed
<1>2. Has(u, c, "field") /\ c \in Nat \ {0}
  BY AcceptsIs DEF Has, FieldToken
<1> DEFINE node == Compare(u[c], u[c + 1], u[c + 2])
           r == Expect(u, c, <<"field", "operator", "value">>, node)
<1>3. /\ ~Has(u, c + 1, "operator") => r = Fail(c + 1, Cause(u, c + 1))
      /\ Has(u, c + 1, "operator") /\ ~Has(u, c + 2, "value") => r = Fail(c + 2, Cause(u, c + 2))
      /\ Has(u, c + 1, "operator") /\ Has(u, c + 2, "value") => r = Done(node, c + 3)
  <2> HIDE DEF node
  <2> QED BY <1>2, ExpectThree
<1> QED BY <1>1, <1>3

LEMMA ContainsIs ==
    ASSUME NEW T, NEW u \in Seq(T), NEW c \in 1 .. Len(u), FieldToken(u[c]), IsWord(u, c + 1, "contains")
    PROVE  /\ ~Has(u, c + 2, "text") => Operand(u, c) = Fail(c + 2, Cause(u, c + 2))
           /\ Has(u, c + 2, "text") => Operand(u, c) = Done(ContainsClause(u[c], u[c + 2]), c + 3)
<1>1. Operand(u, c) = Expect(u, c + 2, <<"text">>, ContainsClause(u[c], u[c + 2]))
  BY FieldLed
<1>2. c + 2 \in Nat \ {0} /\ c + 2 + 1 = c + 3
  OBVIOUS
<1> DEFINE node == ContainsClause(u[c], u[c + 2])
           r == Expect(u, c + 2, <<"text">>, node)
<1>3. /\ ~Has(u, c + 2, "text") => r = Fail(c + 2, Cause(u, c + 2))
      /\ Has(u, c + 2, "text") => r = Done(node, c + 2 + 1)
  <2> HIDE DEF node
  <2> QED BY <1>2, ExpectOne
<1> QED BY <1>1, <1>2, <1>3

LEMMA LastIs ==
    ASSUME NEW T, NEW u \in Seq(T), NEW c \in 1 .. Len(u), OneOf(u[c], {"last"})
    PROVE  /\ ~Has(u, c + 1, "amount") => Operand(u, c) = Fail(c + 1, Cause(u, c + 1))
           /\ Has(u, c + 1, "amount") /\ ~Has(u, c + 2, "unit") => Operand(u, c) = Fail(c + 2, Cause(u, c + 2))
           /\ Has(u, c + 1, "amount") /\ Has(u, c + 2, "unit") =>
                  Operand(u, c) = Done(LastDuration(u[c + 1], u[c + 2]), c + 3)
<1>1. Operand(u, c) = Expect(u, c + 1, <<"amount", "unit">>, LastDuration(u[c + 1], u[c + 2]))
  BY LastLed
<1>2. c + 1 \in Nat \ {0} /\ c + 1 + 1 = c + 2 /\ c + 1 + 2 = c + 3
  OBVIOUS
<1> DEFINE node == LastDuration(u[c + 1], u[c + 2])
           r == Expect(u, c + 1, <<"amount", "unit">>, node)
<1>3. /\ ~Has(u, c + 1, "amount") => r = Fail(c + 1, Cause(u, c + 1))
      /\ Has(u, c + 1, "amount") /\ ~Has(u, c + 1 + 1, "unit") => r = Fail(c + 1 + 1, Cause(u, c + 1 + 1))
      /\ Has(u, c + 1, "amount") /\ Has(u, c + 1 + 1, "unit") => r = Done(node, c + 1 + 2)
  <2> HIDE DEF node
  <2> QED BY <1>2, ExpectTwo
<1> QED BY <1>1, <1>2, <1>3

LEMMA SinceIs ==
    ASSUME NEW T, NEW u \in Seq(T), NEW c \in 1 .. Len(u), OneOf(u[c], {"since"})
    PROVE  /\ ~Has(u, c + 1, "moment") => Operand(u, c) = Fail(c + 1, Cause(u, c + 1))
           /\ Has(u, c + 1, "moment") => Operand(u, c) = Done(SinceDatetime(u[c + 1]), c + 2)
<1>1. Operand(u, c) = Expect(u, c + 1, <<"moment">>, SinceDatetime(u[c + 1]))
  BY SinceLed
<1>2. c + 1 \in Nat \ {0} /\ c + 1 + 1 = c + 2
  OBVIOUS
<1> DEFINE node == SinceDatetime(u[c + 1])
           r == Expect(u, c + 1, <<"moment">>, node)
<1>3. /\ ~Has(u, c + 1, "moment") => r = Fail(c + 1, Cause(u, c + 1))
      /\ Has(u, c + 1, "moment") => r = Done(node, c + 1 + 1)
  <2> HIDE DEF node
  <2> QED BY <1>2, ExpectOne
<1> QED BY <1>1, <1>2, <1>3

LEMMA HalfFails ==
    ASSUME NEW T, NEW u \in Seq(T), NEW c \in 1 .. Len(u) + 1,
           WellBegun(place, half), Begun(u, c, half),
           NEW at, at = c + Len(half), at <= Len(u) => ~Fits(u[at]),
           place = "clause" => ~WantedByJoin(u, c)
    PROVE  Operand(u, c) = Fail(at, Cause(u, at))
<1>1. Len(u) \in Nat /\ c \in Nat \ {0}
  OBVIOUS
<1>2. CASE place = "clause" /\ half = <<>>
  <2>1. at = c
    BY <1>1, <1>2
  <2> QED BY <1>2, <2>1, ClauseFails
<1>3. CASE place = "operator" /\ \E f : half = <<f>> /\ FieldToken(f)
  <2>1. PICK f : half = <<f>> /\ FieldToken(f)
    BY <1>3
  <2>2. u[c] = f /\ c \in 1 .. Len(u) /\ at = c + 1
    BY <1>1, <2>1, BegunOne
  <2>3. at <= Len(u) => ~IsOp(u[at]) /\ ~OneOf(u[at], {"contains"})
    BY <1>3, FitsIs
  <2>4. ~IsWord(u, c + 1, "contains") /\ ~Has(u, c + 1, "operator")
    BY <2>2, <2>3, WordIs, AcceptsIs DEF Has
  <2> QED BY <2>1, <2>2, <2>4, ComparisonIs
<1>4. CASE place = "value" /\ \E f, op : half = <<f, op>> /\ FieldToken(f) /\ IsOp(op)
  <2>1. PICK f, op : half = <<f, op>> /\ FieldToken(f) /\ IsOp(op)
    BY <1>4
  <2>2. u[c] = f /\ u[c + 1] = op /\ c \in 1 .. Len(u) /\ c + 1 <= Len(u) /\ at = c + 2
    BY <1>1, <2>1, BegunTwo
  <2>3. at <= Len(u) => ~IsValue(u[at])
    BY <1>4, FitsIs
  <2>4. ~IsWord(u, c + 1, "contains") /\ Has(u, c + 1, "operator") /\ ~Has(u, c + 2, "value")
    <3>1. ~OneOf(op, {"contains"})
      BY <2>1 DEF IsOp, OneOf
    <3> QED BY <2>1, <2>2, <2>3, <3>1, WordIs, AcceptsIs DEF Has
  <2> QED BY <2>1, <2>2, <2>4, ComparisonIs
<1>5. CASE place = "text" /\ \E f, w : half = <<f, w>> /\ FieldToken(f) /\ OneOf(w, {"contains"})
  <2>1. PICK f, w : half = <<f, w>> /\ FieldToken(f) /\ OneOf(w, {"contains"})
    BY <1>5
  <2>2. u[c] = f /\ u[c + 1] = w /\ c \in 1 .. Len(u) /\ c + 1 <= Len(u) /\ at = c + 2
    BY <1>1, <2>1, BegunTwo
  <2>3. at <= Len(u) => ~IsText(u[at])
    BY <1>5, FitsIs
  <2>4. IsWord(u, c + 1, "contains") /\ ~Has(u, c + 2, "text")
    BY <2>1, <2>2, <2>3, WordIs, AcceptsIs DEF Has
  <2> QED BY <2>1, <2>2, <2>4, ContainsIs
<1>6. CASE place = "amount" /\ \E w : half = <<w>> /\ OneOf(w, {"last"})
  <2>1. PICK w : half = <<w>> /\ OneOf(w, {"last"})
    BY <1>6
  <2>2. u[c] = w /\ c \in 1 .. Len(u) /\ at = c + 1
    BY <1>1, <2>1, BegunOne
  <2>3. at <= Len(u) => ~IsAmount(u[at])
    BY <1>6, FitsIs
  <2>4. ~Has(u, c + 1, "amount")
    BY <2>2, <2>3, AcceptsIs DEF Has
  <2> QED BY <2>1, <2>2, <2>4, LastIs
<1>7. CASE place = "unit" /\ \E w, n : half = <<w, n>> /\ OneOf(w, {"last"}) /\ IsAmount(n)
  <2>1. PICK w, n : half = <<w, n>> /\ OneOf(w, {"last"}) /\ IsAmount(n)
    BY <1>7
  <2>2. u[c] = w /\ u[c + 1] = n /\ c \in 1 .. Len(u) /\ c + 1 <= Len(u) /\ at = c + 2
    BY <1>1, <2>1, BegunTwo
  <2>3. at <= Len(u) => ~IsUnit(u[at])
    BY <1>7, FitsIs
  <2>4. Has(u, c + 1, "amount") /\ ~Has(u, c + 2, "unit")
    BY <2>1, <2>2, <2>3, AcceptsIs DEF Has
  <2> QED BY <2>1, <2>2, <2>4, LastIs
<1>8. CASE place = "moment" /\ \E w : half = <<w>> /\ OneOf(w, {"since"})
  <2>1. PICK w : half = <<w>> /\ OneOf(w, {"since"})
    BY <1>8
  <2>2. u[c] = w /\ c \in 1 .. Len(u) /\ at = c + 1
    BY <1>1, <2>1, BegunOne
  <2>3. at <= Len(u) => ~IsMoment(u[at])
    BY <1>8, FitsIs
  <2>4. ~Has(u, c + 1, "moment")
    BY <2>2, <2>3, AcceptsIs DEF Has
  <2> QED BY <2>1, <2>2, <2>4, SinceIs
<1> QED BY <1>2, <1>3, <1>4, <1>5, <1>6, <1>7, <1>8, Zenon DEF WellBegun
-----------------------------------------------------------------------------
(* What is known of all texts that begin with what is typed. *)

\* The texts that begin with ts.
Continuations(T, ts) == {u \in Seq(T) : Len(ts) <= Len(u) /\ \A j \in 1 .. Len(ts) : u[j] = ts[j]}

\* A level that waits for a clause at c.
Waiting(U, expr, c) ==
    \E at \in 0 .. c - 1 : \E done, run, e :
        /\ IsSeq(done) /\ IsSeq(run) /\ expr = Level(at, done, run)
        /\ \A u \in U : Leads(u, at, done, run, e, c)

\* Every level but the last waits for the parenthesis that opens the next.
LevelsOpen(U, ts, exprs) ==
    /\ IsSeq(exprs) /\ Len(exprs) > 0 /\ exprs[1].at = 0
    /\ \A k \in 1 .. Len(exprs) - 1 :
          /\ exprs[k + 1].at \in 1 .. Len(ts) /\ ts[exprs[k + 1].at].kind = "("
          /\ Waiting(U, exprs[k], exprs[k + 1].at)

\* A level of which the last clause is complete.
Completed(U, ts, expr) ==
    \E at \in 0 .. Len(ts) : \E done, run, node, e, c :
        /\ IsSeq(done) /\ IsSeq(run) /\ expr = Level(at, done, Append(run, node))
        /\ \A u \in U : Leads(u, at, done, run, e, c) /\ Operand(u, c) = Done(node, Len(ts) + 1)

\* A level that waits for what is begun.
Wanted(U, ts, expr, begun) ==
    \E c \in 1 .. Len(ts) + 1 :
        c + Len(begun) = Len(ts) + 1 /\ Begun(ts, c, begun) /\ Waiting(U, expr, c)

LEMMA LongerIs ==
    ASSUME NEW T, NEW ts \in Seq(T), NEW t \in T
    PROVE  /\ Append(ts, t) \in Seq(T) /\ Len(Append(ts, t)) = Len(ts) + 1
           /\ \A j \in 1 .. Len(ts) : Append(ts, t)[j] = ts[j]
           /\ Append(ts, t)[Len(ts) + 1] = t
OBVIOUS

LEMMA ContinuationsShrink ==
    ASSUME NEW T, NEW ts \in Seq(T), NEW t \in T
    PROVE  \A u \in Continuations(T, Append(ts, t)) :
               /\ u \in Continuations(T, ts) /\ u \in Seq(T)
               /\ Len(ts) + 1 \in 1 .. Len(u) /\ u[Len(ts) + 1] = t
<1> SUFFICES ASSUME NEW u \in Continuations(T, Append(ts, t))
             PROVE  /\ u \in Continuations(T, ts) /\ u \in Seq(T)
                    /\ Len(ts) + 1 \in 1 .. Len(u) /\ u[Len(ts) + 1] = t
  OBVIOUS
<1>1. PICK n \in Nat : n = Len(ts)
  OBVIOUS
<1> DEFINE w == Append(ts, t)
<1>2. Len(w) = n + 1 /\ (\A j \in 1 .. n : w[j] = ts[j]) /\ w[n + 1] = t
  BY <1>1, LongerIs
<1>3. u \in Seq(T) /\ Len(w) <= Len(u) /\ \A j \in 1 .. Len(w) : u[j] = w[j]
  BY DEF Continuations
<1> HIDE DEF w
<1>4. n + 1 \in 1 .. Len(u) /\ u[n + 1] = t
  <2>1. Len(u) \in Nat
    BY <1>3
  <2> QED BY <1>2, <1>3, <2>1
<1>5. n <= Len(u) /\ \A j \in 1 .. n : u[j] = ts[j]
  <2>1. Len(u) \in Nat
    BY <1>3
  <2> QED BY <1>2, <1>3, <2>1
<1> QED BY <1>1, <1>3, <1>4, <1>5 DEF Continuations

\* The same leads there in every text.
AllLead(U, at, done, run, e, c) == \A u \in U : Leads(u, at, done, run, e, c)

LEMMA WaitingIs ==
    ASSUME NEW U, NEW expr, NEW c, NEW at, NEW done, NEW run, NEW e, at \in 0 .. c - 1,
           IsSeq(done), IsSeq(run), expr = Level(at, done, run), AllLead(U, at, done, run, e, c)
    PROVE  Waiting(U, expr, c)
BY Zenon DEF Waiting, AllLead

LEMMA WaitingKept ==
    ASSUME NEW U, NEW V, V \subseteq U, NEW expr, NEW c, Waiting(U, expr, c)
    PROVE  Waiting(V, expr, c)
<1>1. PICK at \in 0 .. c - 1 : \E done, run, e :
        /\ IsSeq(done) /\ IsSeq(run) /\ expr = Level(at, done, run)
        /\ \A u \in U : Leads(u, at, done, run, e, c)
  BY DEF Waiting
<1>2. PICK done, run, e : /\ IsSeq(done) /\ IsSeq(run) /\ expr = Level(at, done, run)
                          /\ \A u \in U : Leads(u, at, done, run, e, c)
  BY <1>1
<1>3. \A u \in V : Leads(u, at, done, run, e, c)
  BY <1>2
<1> QED BY <1>2, <1>3, Zenon DEF Waiting

LEMMA LevelsKept ==
    ASSUME NEW U, NEW V, V \subseteq U, NEW T, NEW ts \in Seq(T), NEW t \in T, NEW exprs, NEW others,
           LevelsOpen(U, ts, exprs), IsSeq(others), Len(others) = Len(exprs),
           \A k \in 1 .. Len(exprs) - 1 : others[k] = exprs[k],
           others[Len(exprs)].at = exprs[Len(exprs)].at
    PROVE  LevelsOpen(V, Append(ts, t), others)
<1>1. PICK n \in Nat \ {0} : n = Len(exprs)
  <2>1. IsSeq(exprs) /\ Len(exprs) > 0
    BY DEF LevelsOpen
  <2> QED BY <2>1 DEF IsSeq
<1>2. \A k \in 1 .. n : others[k].at = exprs[k].at
  <2>1. \A k \in 1 .. n : k = n \/ k \in 1 .. n - 1
    BY <1>1
  <2> QED BY <1>1, <2>1
<1>3. others[1].at = 0
  <2>1. 1 \in 1 .. n /\ exprs[1].at = 0
    BY <1>1 DEF LevelsOpen
  <2> QED BY <1>2, <2>1
<1>4. ASSUME NEW k \in 1 .. n - 1
      PROVE  /\ others[k + 1].at \in 1 .. Len(Append(ts, t))
             /\ Append(ts, t)[others[k + 1].at].kind = "("
             /\ Waiting(V, others[k], others[k + 1].at)
  <2>1. PICK a : a = exprs[k + 1].at /\ a \in 1 .. Len(ts) /\ ts[a].kind = "(" /\ Waiting(U, exprs[k], a)
    BY <1>1 DEF LevelsOpen
  <2>2. others[k + 1].at = a /\ others[k] = exprs[k]
    <3>1. k + 1 \in 1 .. n
      BY <1>1
    <3> QED BY <1>1, <1>2, <2>1, <3>1
  <2>3. a \in 1 .. Len(Append(ts, t)) /\ Append(ts, t)[a] = ts[a]
    <3>1. Len(Append(ts, t)) = Len(ts) + 1 /\ Append(ts, t)[a] = ts[a]
      BY <2>1, LongerIs
    <3> QED BY <2>1, <3>1
  <2>4. Waiting(V, exprs[k], a)
    BY <2>1, WaitingKept
  <2> QED BY <2>1, <2>2, <2>3, <2>4
<1> QED BY <1>1, <1>3, <1>4 DEF LevelsOpen

\* A failure in a level that is open is the result.
LEMMA FailureIsResult ==
    ASSUME NEW T, NEW ts \in Seq(T), NEW U, NEW exprs, LevelsOpen(U, ts, exprs),
           NEW u \in U, u \in Continuations(T, ts), NEW r, Failed(r),
           NEW last \in 1 .. Len(exprs), ExprAt(u, exprs[last].at + 1) = r
    PROVE  Parse(u) = r
<1>1. PICK n \in Nat \ {0} : n = Len(exprs)
  <2>1. IsSeq(exprs) /\ Len(exprs) > 0
    BY DEF LevelsOpen
  <2> QED BY <2>1 DEF IsSeq
<1>2. u \in Seq(T) /\ Len(ts) <= Len(u) /\ \A j \in 1 .. Len(ts) : u[j] = ts[j]
  BY DEF Continuations
<1> DEFINE K == {k \in 1 .. n : ExprAt(u, exprs[k].at + 1) = r}
<1>3. PICK k \in K : \A m \in K : k <= m
  <2>1. K \in SUBSET Nat /\ last \in K
    BY <1>1
  <2> HIDE DEF K
  <2> QED BY <2>1, Smallest
<1>4. k = 1
  <2> SUFFICES ASSUME k # 1 PROVE FALSE
    OBVIOUS
  <2>1. k \in 1 .. n /\ ExprAt(u, exprs[k].at + 1) = r
    OBVIOUS
  <2>2. PICK i \in 1 .. n - 1 : k = i + 1
    <3>1. k - 1 \in 1 .. n - 1 /\ k = (k - 1) + 1
      BY <1>1, <2>1
    <3> QED BY <3>1
  <2>3. PICK a : a = exprs[k].at /\ a \in 1 .. Len(ts) /\ ts[a].kind = "(" /\ Waiting(U, exprs[i], a)
    BY <1>1, <2>2 DEF LevelsOpen
  <2>4. a \in 1 .. Len(u) /\ u[a].kind = "("
    <3>1. Len(ts) \in Nat /\ Len(u) \in Nat
      BY <1>2
    <3> QED BY <1>2, <2>3, <3>1
  <2>5. Operand(u, a) = r
    <3>1. Operand(u, a) = ParseGroup(u, a, r)
      BY <1>2, <2>1, <2>3, <2>4, OperandIsGroup
    <3>2. ~r.ok
      BY FailIs DEF Failed
    <3> QED BY <3>1, <3>2, GroupFails
  <2>6. PICK at, done, run, e : exprs[i] = Level(at, done, run) /\ Leads(u, at, done, run, e, a)
    BY <2>3 DEF Waiting
  <2>7. ExprAt(u, at + 1) = r
    BY <2>5, <2>6, LeadsToFailure
  <2>8. exprs[i].at = at
    BY <2>6, LevelIs
  <2>9. i \in K
    <3>1. i \in 1 .. n
      BY <1>1
    <3> QED BY <2>7, <2>8, <3>1
  <2>10. k <= i
    <3> HIDE DEF K
    <3> QED BY <1>3, <2>9
  <2> QED BY <2>2, <2>10
<1>5. ExprAt(u, 1) = r
  <2>1. ExprAt(u, exprs[1].at + 1) = r /\ exprs[1].at = 0
    BY <1>4 DEF LevelsOpen
  <2>2. 0 + 1 = 1
    OBVIOUS
  <2> QED BY <2>1, <2>2
<1> QED BY <1>2, <1>5, ParseFails
-----------------------------------------------------------------------------
(* What a token does to the levels. *)

LEMMA NothingBegun ==
    ASSUME NEW T, NEW ts \in Seq(T), NEW t \in T
    PROVE  /\ Begun(Append(ts, t), Len(ts) + 2, <<>>)
           /\ Len(ts) + 2 \in 1 .. Len(Append(ts, t)) + 1
           /\ Len(ts) + 2 + Len(<<>>) = Len(Append(ts, t)) + 1
<1>1. PICK n \in Nat : n = Len(ts) /\ Len(Append(ts, t)) = n + 1
  BY LongerIs
<1>2. PICK z : z = <<>> /\ Len(z) = 0
  BY EmptyIsSeq
<1>3. Begun(Append(ts, t), n + 2, z)
  BY <1>1, <1>2 DEF Begun
<1>4. n + 2 \in 1 .. Len(Append(ts, t)) + 1 /\ n + 2 + Len(z) = Len(Append(ts, t)) + 1
  BY <1>1, <1>2
<1> QED BY <1>1, <1>2, <1>3, <1>4

LEMMA AndJoins ==
    ASSUME NEW T, NEW ts \in Seq(T), NEW t \in T, OneOf(t, {"and"}),
           NEW expr, Completed(Continuations(T, ts), ts, expr)
    PROVE  Wanted(Continuations(T, Append(ts, t)), Append(ts, t), expr, <<>>)
<1> DEFINE U == Continuations(T, ts)
           V == Continuations(T, Append(ts, t))
<1>1. PICK n \in Nat : n = Len(ts)
  OBVIOUS
<1>2. \A u \in V : u \in U /\ u \in Seq(T) /\ n + 1 \in 1 .. Len(u) /\ u[n + 1] = t
  BY <1>1, ContinuationsShrink
<1> HIDE DEF V
<1>3. PICK at \in 0 .. n : \E done, run, node, e, c :
        /\ IsSeq(done) /\ IsSeq(run) /\ expr = Level(at, done, Append(run, node))
        /\ \A u \in U : Leads(u, at, done, run, e, c) /\ Operand(u, c) = Done(node, Len(ts) + 1)
  BY <1>1, Zenon DEF Completed
<1> HIDE DEF U
<1>4. PICK done, run, node, e, c :
        /\ IsSeq(done) /\ IsSeq(run) /\ expr = Level(at, done, Append(run, node))
        /\ \A u \in U : Leads(u, at, done, run, e, c) /\ Operand(u, c) = Done(node, n + 1)
  BY <1>1, <1>3
<1>5. ASSUME NEW u \in V PROVE Leads(u, at, done, Append(run, node), e, n + 2)
  <2>1. u \in Seq(T) /\ n + 1 \in 1 .. Len(u) /\ IsWord(u, n + 1, "and")
    <3>1. u \in Seq(T) /\ n + 1 \in 1 .. Len(u) /\ OneOf(u[n + 1], {"and"})
      BY <1>2
    <3>2. n + 1 <= Len(u)
      BY <3>1
    <3> QED BY <3>1, <3>2, WordIs
  <2>2. Leads(u, at, done, run, e, c) /\ Operand(u, c) = Done(node, n + 1)
    BY <1>2, <1>4
  <2>3. Leads(u, at, done, Append(run, node), e, n + 1 + 1)
    BY <1>4, <2>1, <2>2, LeadsOverAnd
  <2>4. n + 1 + 1 = n + 2
    OBVIOUS
  <2> QED BY <2>3, <2>4
<1>6. IsSeq(Append(run, node)) /\ at \in 0 .. n + 2 - 1
  <2>1. at \in 0 .. n + 2 - 1
    BY <1>1, <1>3
  <2> QED BY <1>4, <2>1, AppendIs
<1>7. Waiting(V, expr, n + 2)
  <2>1. AllLead(V, at, done, Append(run, node), e, n + 2)
    BY <1>5 DEF AllLead
  <2> QED BY <1>4, <1>6, <2>1, WaitingIs
<1> QED BY <1>1, <1>7, NothingBegun DEF Wanted, V

LEMMA GroupStarted ==
    ASSUME NEW at, NEW done, NEW run, NEW expr, expr = Level(at, done, run)
    PROVE  WithGroups(expr, Append(expr.groups, <<>>)) = Level(at, Append(done, run), <<>>)
<1> DEFINE groups == Append(done, run)
           others == Append(groups, <<>>)
<1>1. expr = [at |-> at, groups |-> groups] /\ Level(at, groups, <<>>) = [at |-> at, groups |-> others]
  BY DEF Level
<1>2. expr.groups = groups
  BY LevelIs
<1> HIDE DEF groups
<1>3. others = Append(expr.groups, <<>>)
  BY <1>2
<1> HIDE DEF others
<1>4. WithGroups(expr, others) = [at |-> at, groups |-> others]
  BY <1>1 DEF WithGroups
<1> QED BY <1>1, <1>3, <1>4 DEF groups

LEMMA OrJoins ==
    ASSUME NEW T, NEW ts \in Seq(T), NEW t \in T, OneOf(t, {"or"}),
           NEW expr, Completed(Continuations(T, ts), ts, expr)
    PROVE  /\ Wanted(Continuations(T, Append(ts, t)), Append(ts, t),
                     WithGroups(expr, Append(expr.groups, <<>>)), <<>>)
           /\ WithGroups(expr, Append(expr.groups, <<>>)).at = expr.at
<1> DEFINE U == Continuations(T, ts)
           V == Continuations(T, Append(ts, t))
           other == WithGroups(expr, Append(expr.groups, <<>>))
<1>1. PICK n \in Nat : n = Len(ts)
  OBVIOUS
<1>2. \A u \in V : u \in U /\ u \in Seq(T) /\ n + 1 \in 1 .. Len(u) /\ u[n + 1] = t
  BY <1>1, ContinuationsShrink
<1> HIDE DEF V
<1>3. PICK at \in 0 .. n : \E done, run, node, e, c :
        /\ IsSeq(done) /\ IsSeq(run) /\ expr = Level(at, done, Append(run, node))
        /\ \A u \in U : Leads(u, at, done, run, e, c) /\ Operand(u, c) = Done(node, Len(ts) + 1)
  BY <1>1, Zenon DEF Completed
<1> HIDE DEF U
<1>4. PICK done, run, node, e, c :
        /\ IsSeq(done) /\ IsSeq(run) /\ expr = Level(at, done, Append(run, node))
        /\ \A u \in U : Leads(u, at, done, run, e, c) /\ Operand(u, c) = Done(node, n + 1)
  BY <1>1, <1>3
<1>5. ASSUME NEW u \in V PROVE Leads(u, at, Append(done, Append(run, node)), <<>>, n + 2, n + 2)
  <2>1. u \in Seq(T) /\ n + 1 \in 1 .. Len(u) /\ IsWord(u, n + 1, "or")
    <3>1. u \in Seq(T) /\ n + 1 \in 1 .. Len(u) /\ OneOf(u[n + 1], {"or"})
      BY <1>2
    <3>2. n + 1 <= Len(u)
      BY <3>1
    <3> QED BY <3>1, <3>2, WordIs
  <2>2. Leads(u, at, done, run, e, c) /\ Operand(u, c) = Done(node, n + 1)
    BY <1>2, <1>4
  <2>3. Leads(u, at, Append(done, Append(run, node)), <<>>, n + 1 + 1, n + 1 + 1)
    BY <1>4, <2>1, <2>2, LeadsOverOr
  <2>4. n + 1 + 1 = n + 2
    OBVIOUS
  <2> QED BY <2>3, <2>4
<1> DEFINE groups == Append(done, Append(run, node))
<1>6. IsSeq(groups) /\ IsSeq(<<>>) /\ at \in 0 .. n + 2 - 1
  <2>1. at \in 0 .. n + 2 - 1
    BY <1>1, <1>3
  <2> QED BY <1>4, <2>1, AppendIs, EmptyIsSeq
<1>7. other = Level(at, groups, <<>>)
  BY <1>4, GroupStarted
<1>8. other.at = expr.at
  BY <1>4, <1>7, LevelIs
<1> HIDE DEF other
<1>9. Waiting(V, other, n + 2)
  <2>1. AllLead(V, at, groups, <<>>, n + 2, n + 2)
    BY <1>5 DEF AllLead
  <2> HIDE DEF groups
  <2> QED BY <1>6, <1>7, <2>1, WaitingIs
<1> QED BY <1>1, <1>8, <1>9, NothingBegun DEF Wanted, V, other

\* Every text has the same operand from c up to j.
AllRead(U, c, node, j) == \A u \in U : Operand(u, c) = Done(node, j)

LEMMA CompletedIs ==
    ASSUME NEW U, NEW ts, NEW expr, NEW at, NEW done, NEW run, NEW node, NEW e, NEW c,
           at \in 0 .. Len(ts), IsSeq(done), IsSeq(run), expr = Level(at, done, Append(run, node)),
           AllLead(U, at, done, run, e, c), AllRead(U, c, node, Len(ts) + 1)
    PROVE  Completed(U, ts, expr)
<1>1. \A u \in U : Leads(u, at, done, run, e, c) /\ Operand(u, c) = Done(node, Len(ts) + 1)
  BY DEF AllLead, AllRead
<1> QED BY <1>1, Zenon DEF Completed

\* The token that completes a clause for which the last level waits.
LEMMA ClauseCompletes ==
    ASSUME NEW T, NEW ts \in Seq(T), NEW t \in T, NEW exprs,
           LevelsOpen(Continuations(T, ts), ts, exprs),
           NEW c \in 1 .. Len(ts) + 1, Waiting(Continuations(T, ts), exprs[Len(exprs)], c),
           NEW clause, AllRead(Continuations(T, Append(ts, t)), c, clause, Len(ts) + 2)
    PROVE  /\ LevelsOpen(Continuations(T, Append(ts, t)), Append(ts, t), WithClause(exprs, clause))
           /\ Completed(Continuations(T, Append(ts, t)), Append(ts, t),
                        WithClause(exprs, clause)[Len(WithClause(exprs, clause))])
<1> DEFINE U == Continuations(T, ts)
           V == Continuations(T, Append(ts, t))
           others == WithClause(exprs, clause)
           m == Len(exprs)
<1>1. PICK n \in Nat : n = Len(ts)
  OBVIOUS
<1>2. V \subseteq U
  BY ContinuationsShrink
<1>3. IsSeq(exprs) /\ m > 0
  BY DEF LevelsOpen
<1>4. Len(Append(ts, t)) = n + 1
  BY <1>1, LongerIs
<1> HIDE DEF U, V, m
<1>5. PICK at \in 0 .. c - 1 : \E done, run, e :
        /\ IsSeq(done) /\ IsSeq(run) /\ exprs[m] = Level(at, done, run)
        /\ \A u \in U : Leads(u, at, done, run, e, c)
  BY Zenon DEF Waiting, U, m
<1>6. PICK done, run, e : /\ IsSeq(done) /\ IsSeq(run) /\ exprs[m] = Level(at, done, run)
                          /\ \A u \in U : Leads(u, at, done, run, e, c)
  BY <1>5
<1> DEFINE new == Level(at, done, Append(run, clause))
<1>7. others = Replaced(exprs, m, new)
  BY <1>3, <1>6, ClauseAdded DEF m
<1> HIDE DEF others
<1>8. /\ IsSeq(others) /\ Len(others) = m /\ others[m] = new
      /\ \A k \in 1 .. m - 1 : others[k] = exprs[k]
  <2> HIDE DEF new
  <2> QED BY <1>3, <1>7, ReplacedIs DEF m
<1>9. others[m].at = exprs[m].at
  BY <1>6, <1>8, LevelIs
<1>10. LevelsOpen(V, Append(ts, t), others)
  <2> HIDE DEF new
  <2>1. LevelsOpen(U, ts, exprs)
    BY DEF U
  <2> QED BY <1>2, <1>8, <1>9, <2>1, LevelsKept DEF m
<1>11. Completed(V, Append(ts, t), others[m])
  <2>1. AllLead(V, at, done, run, e, c)
    BY <1>2, <1>6 DEF AllLead
  <2>2. at \in 0 .. Len(Append(ts, t))
    BY <1>1, <1>4, <1>5
  <2>3. AllRead(V, c, clause, Len(Append(ts, t)) + 1)
    <3>1. n + 1 + 1 = n + 2
      OBVIOUS
    <3> QED BY <1>1, <1>4, <3>1 DEF V
  <2> QED BY <1>6, <1>8, <2>1, <2>2, <2>3, CompletedIs
<1> QED BY <1>8, <1>10, <1>11 DEF others, V, m

LEMMA TopKept ==
    ASSUME NEW T, NEW ts \in Seq(T), NEW t \in T, NEW expr, NEW begun, IsSeq(begun),
           Wanted(Continuations(T, ts), ts, expr, begun)
    PROVE  Wanted(Continuations(T, Append(ts, t)), Append(ts, t), expr, Append(begun, t))
<1> DEFINE U == Continuations(T, ts)
           V == Continuations(T, Append(ts, t))
           w == Append(ts, t)
           more == Append(begun, t)
<1>1. PICK n \in Nat : n = Len(ts)
  OBVIOUS
<1>2. V \subseteq U
  BY ContinuationsShrink
<1>3. w \in Seq(T) /\ Len(w) = n + 1 /\ (\A j \in 1 .. n : w[j] = ts[j]) /\ w[n + 1] = t
  BY <1>1, LongerIs
<1>4. PICK c \in 1 .. n + 1 : c + Len(begun) = n + 1 /\ Begun(ts, c, begun) /\ Waiting(U, expr, c)
  BY <1>1 DEF Wanted
<1>5. PICK h \in Nat : /\ h = Len(begun) /\ Len(more) = h + 1
                       /\ (\A i \in 1 .. h : more[i] = begun[i]) /\ more[h + 1] = t
  <2>1. PICK S : begun \in Seq(S)
    BY DEF IsSeq
  <2>2. begun \in Seq(S \cup {t}) /\ t \in S \cup {t}
    BY <2>1
  <2> HIDE DEF more
  <2>3. Len(more) = Len(begun) + 1 /\ (\A i \in 1 .. Len(begun) : more[i] = begun[i]) /\ more[Len(begun) + 1] = t
    BY <2>2, AppendFacts DEF more
  <2> QED BY <2>1, <2>3
<1> HIDE DEF U, V, w, more
<1>6. Begun(w, c, more)
  <2>1. c + Len(more) <= Len(w) + 1
    BY <1>3, <1>4, <1>5
  <2>2. ASSUME NEW i \in 1 .. h + 1 PROVE w[c + i - 1] = more[i]
    <3>1. CASE i = h + 1
      <4>1. c + i - 1 = n + 1
        BY <1>4, <1>5, <3>1
      <4> QED BY <1>3, <1>5, <3>1, <4>1
    <3>2. CASE i # h + 1
      <4>1. i \in 1 .. h /\ c + i - 1 \in 1 .. n
        BY <1>4, <1>5, <3>2
      <4>2. ts[c + i - 1] = begun[i]
        BY <1>4, <1>5, <4>1 DEF Begun
      <4> QED BY <1>3, <1>5, <4>1, <4>2
    <3> QED BY <3>1, <3>2
  <2> QED BY <1>5, <2>1, <2>2 DEF Begun
<1>7. c \in 1 .. Len(w) + 1 /\ c + Len(more) = Len(w) + 1
  BY <1>3, <1>4, <1>5
<1>8. Waiting(V, expr, c)
  BY <1>2, <1>4, WaitingKept
<1> QED BY <1>6, <1>7, <1>8 DEF Wanted, V, w, more

LEMMA ParenOpens ==
    ASSUME NEW T, NEW ts \in Seq(T), NEW t \in T, t.kind = "(", NEW exprs,
           LevelsOpen(Continuations(T, ts), ts, exprs),
           Wanted(Continuations(T, ts), ts, exprs[Len(exprs)], <<>>),
           NEW new, new = [at |-> Len(ts) + 1, groups |-> <<<<>>>>]
    PROVE  /\ LevelsOpen(Continuations(T, Append(ts, t)), Append(ts, t), Append(exprs, new))
           /\ Wanted(Continuations(T, Append(ts, t)), Append(ts, t),
                     Append(exprs, new)[Len(Append(exprs, new))], <<>>)
<1> DEFINE U == Continuations(T, ts)
           V == Continuations(T, Append(ts, t))
           w == Append(ts, t)
           others == Append(exprs, new)
<1>1. PICK n \in Nat : n = Len(ts)
  OBVIOUS
<1>2. \A u \in V : u \in U /\ u \in Seq(T) /\ n + 1 \in 1 .. Len(u) /\ u[n + 1] = t
  BY <1>1, ContinuationsShrink
<1>3. w \in Seq(T) /\ Len(w) = n + 1 /\ (\A j \in 1 .. n : w[j] = ts[j]) /\ w[n + 1] = t
  BY <1>1, LongerIs
<1>4. PICK m \in Nat \ {0} : m = Len(exprs) /\ IsSeq(exprs)
  <2>1. IsSeq(exprs) /\ Len(exprs) > 0
    BY DEF LevelsOpen
  <2> QED BY <2>1 DEF IsSeq
<1>5. /\ IsSeq(others) /\ Len(others) = m + 1 /\ others[m + 1] = new
      /\ \A k \in 1 .. m : others[k] = exprs[k]
  <2>1. PICK S : exprs \in Seq(S)
    BY <1>4 DEF IsSeq
  <2>2. exprs \in Seq(S \cup {new}) /\ new \in S \cup {new}
    BY <2>1
  <2>3. /\ others \in Seq(S \cup {new}) /\ Len(others) = Len(exprs) + 1
        /\ (\A i \in 1 .. Len(exprs) : others[i] = exprs[i]) /\ others[Len(exprs) + 1] = new
    BY <2>2, AppendFacts
  <2> HIDE DEF others
  <2> QED BY <1>4, <2>3, SeqIs
<1>6. new = Level(n + 1, <<>>, <<>>)
  <2>1. Append(<<>>, <<>>) = <<<<>>>>
    OBVIOUS
  <2> QED BY <1>1, <2>1 DEF Level
<1>7. PICK c \in 1 .. n + 1 : c = n + 1 /\ Waiting(U, exprs[m], c)
  <2>1. PICK z : z = <<>> /\ Len(z) = 0
    BY EmptyIsSeq
  <2>2. PICK c \in 1 .. n + 1 : c + Len(z) = n + 1 /\ Waiting(U, exprs[m], c)
    BY <1>1, <1>4, <2>1 DEF Wanted
  <2> QED BY <2>1, <2>2
<1>8. LevelsOpen(V, w, exprs)
  <2>1. V \subseteq U
    BY <1>2
  <2> HIDE DEF V, U, w
  <2>2. LevelsOpen(U, ts, exprs)
    BY DEF U
  <2>3. LevelsOpen(V, Append(ts, t), exprs)
    BY <1>4, <2>1, <2>2, LevelsKept
  <2> QED BY <2>3 DEF w
<1>9. Waiting(V, exprs[m], n + 1)
  <2>1. V \subseteq U
    BY <1>2
  <2> HIDE DEF V, U
  <2> QED BY <1>7, <2>1, WaitingKept
<1> HIDE DEF U, V, w, others
<1>10. ASSUME NEW k \in 1 .. m
       PROVE  /\ others[k + 1].at \in 1 .. Len(w) /\ w[others[k + 1].at].kind = "("
              /\ Waiting(V, others[k], others[k + 1].at)
  <2>1. CASE k = m
    <3>1. others[k + 1] = new /\ others[k] = exprs[m] /\ new.at = n + 1
      BY <1>5, <1>6, <2>1, LevelIs
    <3> QED BY <1>3, <1>9, <3>1
  <2>2. CASE k # m
    <3>1. k \in 1 .. m - 1 /\ k + 1 \in 1 .. m
      BY <2>2
    <3>2. others[k + 1] = exprs[k + 1] /\ others[k] = exprs[k]
      BY <1>5, <3>1
    <3>3. /\ exprs[k + 1].at \in 1 .. Len(w) /\ w[exprs[k + 1].at].kind = "("
          /\ Waiting(V, exprs[k], exprs[k + 1].at)
      BY <1>4, <1>8, <3>1 DEF LevelsOpen
    <3> QED BY <3>2, <3>3
  <2> QED BY <2>1, <2>2
<1>11. LevelsOpen(V, w, others)
  <2>1. others[1].at = 0
    <3>1. 1 \in 1 .. m /\ exprs[1].at = 0
      BY <1>8 DEF LevelsOpen
    <3> QED BY <1>5, <3>1
  <2>2. Len(others) > 0 /\ Len(others) - 1 = m
    BY <1>5
  <2> QED BY <1>5, <1>10, <2>1, <2>2 DEF LevelsOpen
<1>12. Waiting(V, new, n + 2)
  <2>1. ASSUME NEW u \in V PROVE Leads(u, n + 1, <<>>, <<>>, n + 2, n + 2)
    <3>1. u \in Seq(T) /\ n + 1 \in 0 .. Len(u)
      BY <1>2
    <3>2. Leads(u, n + 1, <<>>, <<>>, n + 1 + 1, n + 1 + 1)
      BY <3>1, LeadsAtStart
    <3>3. n + 1 + 1 = n + 2
      OBVIOUS
    <3> QED BY <3>2, <3>3
  <2>2. AllLead(V, n + 1, <<>>, <<>>, n + 2, n + 2)
    BY <2>1 DEF AllLead
  <2>3. n + 1 \in 0 .. n + 2 - 1
    OBVIOUS
  <2> QED BY <1>6, <2>2, <2>3, EmptyIsSeq, WaitingIs
<1>13. Wanted(V, w, others[Len(others)], <<>>)
  <2>1. Waiting(V, others[Len(others)], n + 2)
    BY <1>5, <1>12
  <2> QED BY <1>1, <2>1, NothingBegun DEF Wanted, w
<1> QED BY <1>11, <1>13 DEF V, w, others

LEMMA ParenCloses ==
    ASSUME NEW T, NEW ts \in Seq(T), NEW t \in T, t.kind = ")", NEW exprs, Len(exprs) > 1,
           LevelsOpen(Continuations(T, ts), ts, exprs),
           Completed(Continuations(T, ts), ts, exprs[Len(exprs)]),
           NEW inner, inner = SubSeq(exprs, 1, Len(exprs) - 1),
           NEW others, others = WithClause(inner, Group(exprs[Len(exprs)].groups))
    PROVE  /\ LevelsOpen(Continuations(T, Append(ts, t)), Append(ts, t), others)
           /\ Completed(Continuations(T, Append(ts, t)), Append(ts, t), others[Len(others)])
<1> DEFINE U == Continuations(T, ts)
           V == Continuations(T, Append(ts, t))
<1>1. PICK n \in Nat : n = Len(ts)
  OBVIOUS
<1>2. \A u \in V : u \in U /\ u \in Seq(T) /\ n + 1 \in 1 .. Len(u) /\ u[n + 1] = t
  BY <1>1, ContinuationsShrink
<1>3. PICK m \in Nat \ {0} : m + 1 = Len(exprs) /\ IsSeq(exprs)
  <2>1. IsSeq(exprs)
    BY DEF LevelsOpen
  <2>2. Len(exprs) \in Nat
    BY <2>1 DEF IsSeq
  <2>3. Len(exprs) - 1 \in Nat \ {0} /\ (Len(exprs) - 1) + 1 = Len(exprs)
    BY <2>2
  <2> QED BY <2>1, <2>3
<1>4. IsSeq(inner) /\ Len(inner) = m /\ \A k \in 1 .. m : inner[k] = exprs[k]
  <2>1. PICK S : exprs \in Seq(S)
    BY <1>3 DEF IsSeq
  <2>2. inner = SubSeq(exprs, 1, m)
    BY <1>3
  <2>3. inner \in Seq(S) /\ Len(inner) = m /\ \A k \in 1 .. m : inner[k] = exprs[k]
    BY <1>3, <2>1, <2>2
  <2> QED BY <2>3, SeqIs
<1>5. LevelsOpen(U, ts, inner)
  <2>1. inner[1].at = 0 /\ Len(inner) > 0
    <3>1. 1 \in 1 .. m /\ exprs[1].at = 0
      BY DEF LevelsOpen
    <3> QED BY <1>4, <3>1
  <2>2. ASSUME NEW k \in 1 .. m - 1
        PROVE  /\ inner[k + 1].at \in 1 .. Len(ts) /\ ts[inner[k + 1].at].kind = "("
               /\ Waiting(U, inner[k], inner[k + 1].at)
    <3>1. k \in 1 .. Len(exprs) - 1 /\ k \in 1 .. m /\ k + 1 \in 1 .. m
      BY <1>3
    <3>2. inner[k + 1] = exprs[k + 1] /\ inner[k] = exprs[k]
      BY <1>4, <3>1
    <3> QED BY <3>1, <3>2 DEF LevelsOpen
  <2> QED BY <1>4, <2>1, <2>2 DEF LevelsOpen
<1>6. PICK a : a = exprs[m + 1].at /\ a \in 1 .. n /\ ts[a].kind = "(" /\ Waiting(U, inner[m], a)
  <2>1. m \in 1 .. Len(exprs) - 1 /\ m \in 1 .. m
    BY <1>3
  <2>2. inner[m] = exprs[m]
    BY <1>4, <2>1
  <2> QED BY <1>1, <2>1, <2>2 DEF LevelsOpen
<1> DEFINE top == exprs[m + 1]
<1>7. Completed(U, ts, top)
  BY <1>3
<1> HIDE DEF top
<1>8. PICK at \in 0 .. n : \E done, run, node, e, c :
        /\ IsSeq(done) /\ IsSeq(run) /\ top = Level(at, done, Append(run, node))
        /\ \A u \in U : Leads(u, at, done, run, e, c) /\ Operand(u, c) = Done(node, Len(ts) + 1)
  <2> HIDE DEF U
  <2> QED BY <1>1, <1>7, Zenon DEF Completed
<1>9. PICK done, run, node, e, c :
        /\ IsSeq(done) /\ IsSeq(run) /\ top = Level(at, done, Append(run, node))
        /\ \A u \in U : Leads(u, at, done, run, e, c) /\ Operand(u, c) = Done(node, n + 1)
  <2> HIDE DEF U
  <2> QED BY <1>1, <1>8
<1>10. at = a /\ top.groups = Append(done, Append(run, node))
  <2>3. top = Level(at, done, Append(run, node))
    BY <1>9
  <2>1. top.at = at /\ top.groups = Append(done, Append(run, node))
    <3> DEFINE last == Append(run, node)
    <3>1. top = Level(at, done, last)
      BY <2>3
    <3> HIDE DEF last
    <3>2. Level(at, done, last).at = at
      BY LevelIs
    <3>3. Level(at, done, last).groups = Append(done, last)
      BY LevelIs
    <3>4. top.at = at /\ top.groups = Append(done, last)
      BY <3>1, <3>2, <3>3
    <3> QED BY <3>4 DEF last
  <2>2. top.at = a
    BY <1>6 DEF top
  <2> QED BY <2>1, <2>2
<1> DEFINE clause == Group(top.groups)
<1>11. AllRead(V, a, clause, n + 2)
  <2> SUFFICES ASSUME NEW u \in V PROVE Operand(u, a) = Done(clause, n + 2)
    BY DEF AllRead
  <2>1. u \in U /\ u \in Seq(T) /\ n + 1 \in 1 .. Len(u) /\ u[n + 1] = t
    BY <1>2
  <2>2. a \in 1 .. Len(u) /\ u[a].kind = "("
    <3>1. u[a] = ts[a] /\ Len(u) \in Nat
      BY <1>1, <1>6, <2>1 DEF Continuations
    <3> QED BY <1>6, <2>1, <3>1
  <2> HIDE DEF U, V
  <2>3. Leads(u, a, done, run, e, c) /\ Operand(u, c) = Done(node, n + 1)
    BY <1>9, <1>10, <2>1
  <2>4. ~IsWord(u, n + 1, "and") /\ ~IsWord(u, n + 1, "or")
    <3>1. u[n + 1].kind # "ident"
      BY <2>1
    <3> QED BY <3>1 DEF IsWord, Is
  <2>5. ExprAt(u, a + 1) = Done(top.groups, n + 1)
    <3>1. ExprAt(u, a + 1) = Done(Append(done, Append(run, node)), n + 1)
      BY <1>9, <2>3, <2>4, LeadsToEnd
    <3> QED BY <1>10, <3>1
  <2>6. Operand(u, a) = ParseGroup(u, a, Done(top.groups, n + 1))
    BY <2>1, <2>2, <2>5, OperandIsGroup
  <2>7. ParseGroup(u, a, Done(top.groups, n + 1)) = Done(Group(top.groups), n + 1 + 1)
    BY <2>1, GroupClosed
  <2>8. n + 1 + 1 = n + 2
    OBVIOUS
  <2> QED BY <2>6, <2>7, <2>8
<1>12. others = WithClause(inner, clause)
  BY <1>3 DEF top
<1> HIDE DEF clause
<1>13. /\ LevelsOpen(V, Append(ts, t), WithClause(inner, clause))
       /\ Completed(V, Append(ts, t), WithClause(inner, clause)[Len(WithClause(inner, clause))])
  <2>1. a \in 1 .. Len(ts) + 1 /\ Waiting(U, inner[Len(inner)], a)
    BY <1>1, <1>4, <1>6
  <2>2. AllRead(V, a, clause, Len(ts) + 2)
    BY <1>1, <1>11
  <2>3. LevelsOpen(V, Append(ts, t), WithClause(inner, clause))
    BY <1>5, <2>1, <2>2, ClauseCompletes
  <2>4. Completed(V, Append(ts, t), WithClause(inner, clause)[Len(WithClause(inner, clause))])
    BY <1>5, <2>1, <2>2, ClauseCompletes
  <2> QED BY <2>3, <2>4
<1> QED BY <1>12, <1>13

LEMMA GroupFailureIsResult ==
    ASSUME NEW T, NEW ts \in Seq(T), NEW U, NEW exprs, LevelsOpen(U, ts, exprs), Len(exprs) > 1,
           NEW u \in U, u \in Continuations(T, ts), NEW r, Failed(r),
           Operand(u, exprs[Len(exprs)].at) = r
    PROVE  Parse(u) = r
<1>1. PICK m \in Nat \ {0} : m + 1 = Len(exprs)
  <2>1. IsSeq(exprs)
    BY DEF LevelsOpen
  <2>2. Len(exprs) \in Nat
    BY <2>1 DEF IsSeq
  <2>3. Len(exprs) - 1 \in Nat \ {0} /\ (Len(exprs) - 1) + 1 = Len(exprs)
    BY <2>2
  <2> QED BY <2>3
<1>2. Waiting(U, exprs[m], exprs[m + 1].at)
  <2>1. m \in 1 .. Len(exprs) - 1
    BY <1>1
  <2> QED BY <2>1 DEF LevelsOpen
<1>3. PICK at, done, run, e : exprs[m] = Level(at, done, run) /\ Leads(u, at, done, run, e, exprs[m + 1].at)
  BY <1>2 DEF Waiting
<1>4. ExprAt(u, at + 1) = r
  BY <1>1, <1>3, LeadsToFailure
<1>5. exprs[m].at = at
  BY <1>3, LevelIs
<1>6. m \in 1 .. Len(exprs) /\ ExprAt(u, exprs[m].at + 1) = r
  BY <1>1, <1>4, <1>5
<1> QED BY <1>6, FailureIsResult

\* A text goes on with a token that does not fit in a clause that is begun, or ends there.
LEMMA HalfIsRefused ==
    ASSUME NEW T, NEW ts \in Seq(T), NEW exprs, LevelsOpen(Continuations(T, ts), ts, exprs),
           WellBegun(place, half), Wanted(Continuations(T, ts), ts, exprs[Len(exprs)], half),
           NEW u \in Continuations(T, ts), NEW at, at = Len(ts) + 1,
           at <= Len(u) => ~Fits(u[at]), place = "clause" => ~WantedByJoin(u, at)
    PROVE  Parse(u) = Fail(at, Cause(u, at))
<1> DEFINE U == Continuations(T, ts)
<1>1. PICK n \in Nat : n = Len(ts)
  OBVIOUS
<1>2. u \in Seq(T) /\ n <= Len(u) /\ \A j \in 1 .. n : u[j] = ts[j]
  BY <1>1 DEF Continuations
<1>3. PICK m \in Nat \ {0} : m = Len(exprs)
  <2>1. IsSeq(exprs) /\ Len(exprs) > 0
    BY DEF LevelsOpen
  <2> QED BY <2>1 DEF IsSeq
<1> HIDE DEF U
<1>4. PICK c \in 1 .. n + 1 : c + Len(half) = n + 1 /\ Begun(ts, c, half) /\ Waiting(U, exprs[m], c)
  BY <1>1, <1>3 DEF Wanted, U
<1>5. Len(half) \in Nat
  <2>1. \E h : half = <<>> \/ (\E a : half = <<a>>) \/ (\E a, b : half = <<a, b>>)
    BY Zenon DEF WellBegun
  <2> QED BY <2>1
<1>6. Begun(u, c, half) /\ c \in 1 .. Len(u) + 1
  <2>1. c \in 1 .. Len(u) + 1 /\ c + Len(half) <= Len(u) + 1
    BY <1>2, <1>4
  <2>2. ASSUME NEW i \in 1 .. Len(half) PROVE u[c + i - 1] = half[i]
    <3>1. c + i - 1 \in 1 .. n
      BY <1>4, <1>5
    <3>2. ts[c + i - 1] = half[i]
      BY <1>4 DEF Begun
    <3> QED BY <1>2, <3>1, <3>2
  <2> QED BY <2>1, <2>2 DEF Begun
<1>7. at = c + Len(half) /\ (place = "clause" => ~WantedByJoin(u, c))
  <2>1. at = c + Len(half)
    BY <1>1, <1>4
  <2>2. place = "clause" => at = c
    <3>1. place = "clause" => half = <<>>
      BY Zenon DEF WellBegun
    <3>2. half = <<>> => c + Len(half) = c
      BY <1>4
    <3> QED BY <2>1, <3>1, <3>2
  <2> QED BY <2>1, <2>2
<1>8. Operand(u, c) = Fail(at, Cause(u, at))
  BY <1>2, <1>6, <1>7, HalfFails
<1>9. PICK a, done, run, e : exprs[m] = Level(a, done, run) /\ Leads(u, a, done, run, e, c)
  BY <1>4 DEF Waiting, U
<1>10. Failed(Fail(at, Cause(u, at)))
  BY DEF Failed
<1>11. ExprAt(u, a + 1) = Fail(at, Cause(u, at))
  BY <1>8, <1>9, <1>10, LeadsToFailure
<1>12. m \in 1 .. Len(exprs) /\ ExprAt(u, exprs[m].at + 1) = Fail(at, Cause(u, at))
  BY <1>3, <1>9, <1>11, LevelIs
<1> QED BY <1>10, <1>12, FailureIsResult

\* A text ends with AND or OR.
LEMMA JoinAtEndIsRefused ==
    ASSUME NEW T, NEW ts \in Seq(T), NEW exprs, LevelsOpen(Continuations(T, ts), ts, exprs),
           Wanted(Continuations(T, ts), ts, exprs[Len(exprs)], <<>>),
           ts # <<>>, IsJoin(ts, Len(ts))
    PROVE  Parse(ts) = Fail(Len(ts), "end")
<1> DEFINE U == Continuations(T, ts)
<1>1. PICK n \in Nat \ {0} : n = Len(ts)
  OBVIOUS
<1>2. ts \in U
  BY DEF Continuations
<1>3. PICK m \in Nat \ {0} : m = Len(exprs)
  <2>1. IsSeq(exprs) /\ Len(exprs) > 0
    BY DEF LevelsOpen
  <2> QED BY <2>1 DEF IsSeq
<1> HIDE DEF U
<1>4. Waiting(U, exprs[m], n + 1)
  <2>1. PICK z : z = <<>> /\ Len(z) = 0
    BY EmptyIsSeq
  <2>2. PICK c \in 1 .. n + 1 : c + Len(z) = n + 1 /\ Waiting(U, exprs[m], c)
    BY <1>1, <1>3, <2>1 DEF Wanted, U
  <2>3. c = n + 1
    BY <2>1, <2>2
  <2> QED BY <2>2, <2>3
<1>5. Operand(ts, n + 1) = Fail(n, "end")
  <2>1. n + 1 - 1 = n /\ n + 1 > n /\ n + 1 > 1
    OBVIOUS
  <2>2. WantedByJoin(ts, n + 1)
    BY <1>1, <2>1 DEF WantedByJoin
  <2> QED BY <2>1, <2>2 DEF Operand
<1>6. PICK a, done, run, e : exprs[m] = Level(a, done, run) /\ Leads(ts, a, done, run, e, n + 1)
  BY <1>2, <1>4 DEF Waiting
<1>7. Failed(Fail(n, "end"))
  BY DEF Failed
<1>8. ExprAt(ts, a + 1) = Fail(n, "end")
  BY <1>5, <1>6, <1>7, LeadsToFailure
<1>9. m \in 1 .. Len(exprs) /\ ExprAt(ts, exprs[m].at + 1) = Fail(n, "end")
  BY <1>3, <1>6, <1>8, LevelIs
<1> QED BY <1>1, <1>2, <1>7, <1>9, FailureIsResult DEF U

\* What is read behind a clause that is complete: the level ends there, unless a
\* word joins a clause to it.
LEMMA CompletedEnds ==
    ASSUME NEW T, NEW ts \in Seq(T), NEW expr, Completed(Continuations(T, ts), ts, expr),
           NEW u \in Continuations(T, ts), NEW j, j = Len(ts) + 1, ~IsJoin(u, j)
    PROVE  ExprAt(u, expr.at + 1) = Done(expr.groups, j)
<1> DEFINE U == Continuations(T, ts)
<1>1. Completed(U, ts, expr) /\ u \in U
  OBVIOUS
<1> HIDE DEF U
<1>2. PICK at, done, run, node, e, c :
        /\ IsSeq(done) /\ IsSeq(run) /\ expr = Level(at, done, Append(run, node))
        /\ Leads(u, at, done, run, e, c) /\ Operand(u, c) = Done(node, j)
  <2>1. PICK at \in 0 .. Len(ts) : \E done, run, node, e, c :
          /\ IsSeq(done) /\ IsSeq(run) /\ expr = Level(at, done, Append(run, node))
          /\ \A v \in U : Leads(v, at, done, run, e, c) /\ Operand(v, c) = Done(node, Len(ts) + 1)
    BY <1>1, Zenon DEF Completed
  <2>2. PICK done, run, node, e, c :
          /\ IsSeq(done) /\ IsSeq(run) /\ expr = Level(at, done, Append(run, node))
          /\ \A v \in U : Leads(v, at, done, run, e, c) /\ Operand(v, c) = Done(node, j)
    BY <2>1
  <2>3. Leads(u, at, done, run, e, c) /\ Operand(u, c) = Done(node, j)
    BY <1>1, <2>2
  <2> QED BY <2>2, <2>3, Zenon
<1>3. ~IsWord(u, j, "and") /\ ~IsWord(u, j, "or")
  BY DEF IsJoin
<1>4. ExprAt(u, at + 1) = Done(Append(done, Append(run, node)), j)
  BY <1>2, <1>3, LeadsToEnd
<1> DEFINE last == Append(run, node)
<1>5. expr = Level(at, done, last) /\ ExprAt(u, at + 1) = Done(Append(done, last), j)
  BY <1>2, <1>4
<1> HIDE DEF last
<1>6. expr.at = at
  <2>1. Level(at, done, last).at = at
    BY LevelIs
  <2> QED BY <1>5, <2>1
<1>7. expr.groups = Append(done, last)
  <2>1. Level(at, done, last).groups = Append(done, last)
    BY LevelIs
  <2> QED BY <1>5, <2>1
<1> QED BY <1>5, <1>6, <1>7

\* A text that ends behind a complete query.
LEMMA CompleteIsParsed ==
    ASSUME NEW T, NEW ts \in Seq(T), NEW expr, expr.at = 0,
           Completed(Continuations(T, ts), ts, expr)
    PROVE  Parse(ts) = Done(expr.groups, Len(ts) + 1)
<1>1. PICK n \in Nat : n = Len(ts)
  OBVIOUS
<1>2. ts \in Continuations(T, ts)
  BY DEF Continuations
<1>3. ~IsJoin(ts, n + 1)
  BY <1>1 DEF IsJoin, IsWord, Is
<1>4. ExprAt(ts, expr.at + 1) = Done(expr.groups, n + 1)
  BY <1>1, <1>2, <1>3, CompletedEnds
<1>5. ExprAt(ts, 1) = Done(expr.groups, n + 1)
  <2>1. 0 + 1 = 1
    OBVIOUS
  <2> QED BY <1>4, <2>1
<1>6. ~(Done(expr.groups, n + 1).next <= Len(ts))
  <2>1. Done(expr.groups, n + 1).next = n + 1
    BY DoneIs
  <2> QED BY <1>1, <2>1
<1>7. ~(ExprAt(ts, 1).ok /\ ExprAt(ts, 1).next <= Len(ts))
  BY <1>5, <1>6
<1> QED BY <1>1, <1>5, <1>7, ParseIs, Zenon

\* A text that goes on behind a complete query with what joins no clause.
LEMMA RestIsRefused ==
    ASSUME NEW T, NEW ts \in Seq(T), NEW expr, expr.at = 0,
           Completed(Continuations(T, ts), ts, expr),
           NEW u \in Continuations(T, ts), NEW j, j = Len(ts) + 1, j <= Len(u), ~IsJoin(u, j)
    PROVE  Parse(u) = Fail(j, "token")
<1>1. u \in Seq(T)
  BY DEF Continuations
<1>2. ExprAt(u, expr.at + 1) = Done(expr.groups, j)
  BY CompletedEnds
<1>3. ExprAt(u, 1) = Done(expr.groups, j)
  <2>1. 0 + 1 = 1
    OBVIOUS
  <2> QED BY <1>2, <2>1
<1>4. Done(expr.groups, j).ok /\ Done(expr.groups, j).next = j
  BY DoneIs, Zenon
<1>5. ExprAt(u, 1).ok /\ ExprAt(u, 1).next = j
  BY <1>3, <1>4
<1>6. Parse(u) = Fail(ExprAt(u, 1).next, "token")
  <2>1. ExprAt(u, 1).ok /\ ExprAt(u, 1).next <= Len(u)
    BY <1>5
  <2> QED BY <1>1, <2>1, ParseIs, Zenon
<1> QED BY <1>5, <1>6

\* A text that ends in a group, or goes on with what neither joins nor closes.
LEMMA GroupIsRefused ==
    ASSUME NEW T, NEW ts \in Seq(T), NEW exprs, Len(exprs) > 1,
           LevelsOpen(Continuations(T, ts), ts, exprs),
           Completed(Continuations(T, ts), ts, exprs[Len(exprs)]),
           NEW u \in Continuations(T, ts), NEW j, j = Len(ts) + 1, ~IsJoin(u, j)
    PROVE  /\ j > Len(u) => Parse(u) = Fail(exprs[Len(exprs)].at, "end")
           /\ j <= Len(u) /\ u[j].kind # ")" => Parse(u) = Fail(j, "token")
<1> DEFINE top == exprs[Len(exprs)]
           U == Continuations(T, ts)
<1>1. PICK n \in Nat : n = Len(ts)
  OBVIOUS
<1>2. u \in Seq(T) /\ n <= Len(u) /\ \A i \in 1 .. n : u[i] = ts[i]
  BY <1>1 DEF Continuations
<1>3. ExprAt(u, top.at + 1) = Done(top.groups, j)
  BY CompletedEnds
<1> HIDE DEF U
<1>4. PICK m \in Nat \ {0} : m + 1 = Len(exprs)
  <2>1. IsSeq(exprs)
    BY DEF LevelsOpen
  <2>2. Len(exprs) \in Nat
    BY <2>1 DEF IsSeq
  <2>3. Len(exprs) - 1 \in Nat \ {0} /\ (Len(exprs) - 1) + 1 = Len(exprs)
    BY <2>2
  <2> QED BY <2>3
<1>5. PICK a : a = top.at /\ a \in 1 .. n /\ ts[a].kind = "("
  <2>1. m \in 1 .. Len(exprs) - 1
    BY <1>4
  <2> QED BY <1>1, <1>4, <2>1 DEF LevelsOpen
<1> HIDE DEF top
<1>6. a \in 1 .. Len(u) /\ u[a].kind = "("
  <2>1. Len(u) \in Nat
    BY <1>2
  <2> QED BY <1>2, <1>5, <2>1
<1>7. Operand(u, a) = ParseGroup(u, a, Done(top.groups, j))
  BY <1>2, <1>3, <1>5, <1>6, OperandIsGroup
<1>8. ASSUME j > Len(u) PROVE Parse(u) = Fail(a, "end")
  <2>1. Operand(u, a) = Fail(a, "end")
    BY <1>1, <1>2, <1>7, <1>8, GroupUnclosed
  <2>2. Failed(Fail(a, "end"))
    BY DEF Failed
  <2> QED BY <1>5, <2>1, <2>2, GroupFailureIsResult DEF top
<1>9. ASSUME j <= Len(u), u[j].kind # ")" PROVE Parse(u) = Fail(j, "token")
  <2>1. j \in 1 .. Len(u)
    BY <1>1, <1>2, <1>9
  <2>2. Operand(u, a) = Fail(j, "token")
    BY <1>2, <1>7, <1>9, <2>1, GroupGoesWrong
  <2>3. Failed(Fail(j, "token"))
    BY DEF Failed
  <2> QED BY <1>5, <2>2, <2>3, GroupFailureIsResult DEF top
<1> QED BY <1>5, <1>8, <1>9 DEF top
-----------------------------------------------------------------------------
(* The invariant of a query that is typed. *)

\* As long as no token is wrong: every open level, as it was built, is what any
\* text that begins with these tokens is read as up to here.
Followed(T, ts, exprs, at, begun) ==
    /\ LevelsOpen(Continuations(T, ts), ts, exprs)
    /\ \/ /\ WellBegun(at, begun)
          /\ Wanted(Continuations(T, ts), ts, exprs[Len(exprs)], begun)
       \/ /\ at = "join" /\ begun = <<>>
          /\ Completed(Continuations(T, ts), ts, exprs[Len(exprs)])

LEMMA FollowedIs ==
    ASSUME NEW T, NEW ts, NEW exprs, NEW at, NEW begun, Followed(T, ts, exprs, at, begun)
    PROVE  /\ LevelsOpen(Continuations(T, ts), ts, exprs)
           /\ at # "join" => WellBegun(at, begun)
           /\ at # "join" => Wanted(Continuations(T, ts), ts, exprs[Len(exprs)], begun)
           /\ at = "join" => Completed(Continuations(T, ts), ts, exprs[Len(exprs)])
           /\ at = "join" => begun = <<>>
           /\ at # "lost"
<1>1. WellBegun(at, begun) => at # "join" /\ at # "lost"
  BY DEF WellBegun
<1> QED BY <1>1, Zenon DEF Followed

LEMMA LevelsStay ==
    ASSUME NEW T, NEW ts \in Seq(T), NEW t \in T, NEW exprs, LevelsOpen(Continuations(T, ts), ts, exprs)
    PROVE  LevelsOpen(Continuations(T, Append(ts, t)), Append(ts, t), exprs)
<1> DEFINE U == Continuations(T, ts)
           V == Continuations(T, Append(ts, t))
<1>1. V \subseteq U
  BY ContinuationsShrink
<1>2. LevelsOpen(U, ts, exprs)
  OBVIOUS
<1>3. IsSeq(exprs)
  BY DEF LevelsOpen
<1> HIDE DEF U, V
<1>4. LevelsOpen(V, Append(ts, t), exprs)
  BY <1>1, <1>2, <1>3, LevelsKept
<1> QED BY <1>4 DEF V

LEMMA HalfContinues ==
    ASSUME NEW T, NEW ts \in Seq(T), NEW t \in T, NEW exprs, NEW at, NEW begun,
           Followed(T, ts, exprs, at, begun), at # "join",
           NEW then, WellBegun(then, Append(begun, t))
    PROVE  Followed(T, Append(ts, t), exprs, then, Append(begun, t))
<1>1. /\ LevelsOpen(Continuations(T, ts), ts, exprs) /\ WellBegun(at, begun)
      /\ Wanted(Continuations(T, ts), ts, exprs[Len(exprs)], begun)
  BY FollowedIs
<1>2. IsSeq(begun)
  <2>1. \E h : begun = <<>> \/ (\E a : begun = <<a>>) \/ (\E a, b : begun = <<a, b>>)
    BY <1>1, Zenon DEF WellBegun
  <2>2. ASSUME NEW a, begun = <<a>> PROVE IsSeq(begun)
    BY <2>2, SingleSeq
  <2>3. ASSUME NEW a, NEW b, begun = <<a, b>> PROVE IsSeq(begun)
    <3>1. begun \in Seq({a, b})
      BY <2>3
    <3> QED BY <3>1, SeqIs
  <2> QED BY <2>1, <2>2, <2>3, EmptyIsSeq
<1>3. LevelsOpen(Continuations(T, Append(ts, t)), Append(ts, t), exprs)
  BY <1>1, LevelsStay
<1>4. Wanted(Continuations(T, Append(ts, t)), Append(ts, t), exprs[Len(exprs)], Append(begun, t))
  BY <1>1, <1>2, TopKept
<1> QED BY <1>3, <1>4 DEF Followed

\* A token ends the clause that is begun.
Ends(T, ts, t, begun, clause) ==
    \A u \in Continuations(T, Append(ts, t)) : \A c \in 1 .. Len(u) :
        (Begun(u, c, begun) /\ c + Len(begun) = Len(ts) + 1 /\ u[Len(ts) + 1] = t)
            => Operand(u, c) = Done(clause, Len(ts) + 2)

LEMMA ClauseFinishes ==
    ASSUME NEW T, NEW ts \in Seq(T), NEW t \in T, NEW exprs, NEW at, NEW begun,
           Followed(T, ts, exprs, at, begun), at # "join",
           NEW clause, Ends(T, ts, t, begun, clause)
    PROVE  Followed(T, Append(ts, t), WithClause(exprs, clause), "join", <<>>)
<1> DEFINE U == Continuations(T, ts)
           V == Continuations(T, Append(ts, t))
<1>1. /\ LevelsOpen(U, ts, exprs) /\ WellBegun(at, begun)
      /\ Wanted(U, ts, exprs[Len(exprs)], begun)
  BY FollowedIs
<1>2. PICK n \in Nat : n = Len(ts)
  OBVIOUS
<1>3. \A u \in V : u \in U /\ u \in Seq(T) /\ n + 1 \in 1 .. Len(u) /\ u[n + 1] = t
  BY <1>2, ContinuationsShrink
<1>4. Len(begun) \in Nat
  <2>1. \E h : begun = <<>> \/ (\E a : begun = <<a>>) \/ (\E a, b : begun = <<a, b>>)
    BY <1>1, Zenon DEF WellBegun
  <2> QED BY <2>1
<1>5. \A u \in U : u \in Seq(T) /\ n <= Len(u) /\ \A i \in 1 .. n : u[i] = ts[i]
  BY <1>2 DEF Continuations
<1>6. \A u \in V : \A c \in 1 .. Len(u) :
        (Begun(u, c, begun) /\ c + Len(begun) = n + 1) => Operand(u, c) = Done(clause, n + 2)
  BY <1>2, <1>3 DEF Ends
<1> HIDE DEF U, V
<1>7. PICK c \in 1 .. n + 1 : /\ c + Len(begun) = n + 1 /\ Begun(ts, c, begun)
                              /\ Waiting(U, exprs[Len(exprs)], c)
  BY <1>1, <1>2 DEF Wanted
<1>8. AllRead(V, c, clause, n + 2)
  <2> SUFFICES ASSUME NEW u \in V PROVE Operand(u, c) = Done(clause, n + 2)
    BY DEF AllRead
  <2>1. u \in U /\ u \in Seq(T) /\ n + 1 \in 1 .. Len(u)
    BY <1>3
  <2>2. c \in 1 .. Len(u) /\ c + Len(begun) <= Len(u) + 1
    BY <1>7, <2>1
  <2>3. ASSUME NEW i \in 1 .. Len(begun) PROVE u[c + i - 1] = begun[i]
    <3>1. c + i - 1 \in 1 .. n
      BY <1>4, <1>7
    <3>2. ts[c + i - 1] = begun[i]
      BY <1>7 DEF Begun
    <3>3. u[c + i - 1] = ts[c + i - 1]
      BY <1>5, <2>1, <3>1
    <3> QED BY <3>2, <3>3
  <2>4. Begun(u, c, begun)
    BY <2>2, <2>3 DEF Begun
  <2> QED BY <1>6, <1>7, <2>2, <2>4
<1> DEFINE others == WithClause(exprs, clause)
<1>9. c \in 1 .. Len(ts) + 1 /\ AllRead(V, c, clause, Len(ts) + 2)
  BY <1>2, <1>8
<1>10. LevelsOpen(V, Append(ts, t), others)
  BY <1>1, <1>7, <1>9, ClauseCompletes DEF U, V
<1>11. Completed(V, Append(ts, t), others[Len(others)])
  BY <1>1, <1>7, <1>9, ClauseCompletes DEF U, V
<1> HIDE DEF others
<1>12. Followed(T, Append(ts, t), others, "join", <<>>)
  BY <1>10, <1>11, Zenon DEF Followed, V
<1> QED BY <1>12 DEF others
-----------------------------------------------------------------------------
(* What each action does to it. *)

LEMMA OpenParenFollows ==
    ASSUME NEW T, tokens \in Seq(T), NEW t \in T, Followed(T, tokens, open, place, half), OpenParen(t)
    PROVE  Followed(T, tokens', open', place', half')
<1>1. place = "clause" /\ t.kind = "(" /\ half' = half /\ place' = "clause"
  BY DEF OpenParen, Type
<1>2. tokens' = Append(tokens, t)
  BY DEF OpenParen, Type
<1> DEFINE new == [at |-> Len(tokens) + 1, groups |-> <<<<>>>>]
<1>3. open' = Append(open, new)
  BY DEF OpenParen
<1> HIDE DEF new
<1>4. /\ LevelsOpen(Continuations(T, tokens), tokens, open) /\ half = <<>>
      /\ Wanted(Continuations(T, tokens), tokens, open[Len(open)], <<>>)
  <2>1. WellBegun(place, half) /\ LevelsOpen(Continuations(T, tokens), tokens, open)
    BY <1>1, FollowedIs
  <2>2. Wanted(Continuations(T, tokens), tokens, open[Len(open)], half)
    BY <1>1, FollowedIs
  <2>3. half = <<>>
    BY <1>1, <2>1 DEF WellBegun
  <2> QED BY <2>1, <2>2, <2>3
<1>5. new = [at |-> Len(tokens) + 1, groups |-> <<<<>>>>]
  BY DEF new
<1> DEFINE others == Append(open, new)
<1>6. LevelsOpen(Continuations(T, Append(tokens, t)), Append(tokens, t), others)
  BY <1>1, <1>4, <1>5, ParenOpens
<1>7. Wanted(Continuations(T, Append(tokens, t)), Append(tokens, t), others[Len(others)], <<>>)
  BY <1>1, <1>4, <1>5, ParenOpens
<1>8. WellBegun("clause", <<>>)
  BY DEF WellBegun
<1> HIDE DEF others
<1>9. Followed(T, Append(tokens, t), others, "clause", <<>>)
  BY <1>6, <1>7, <1>8 DEF Followed
<1> QED BY <1>1, <1>2, <1>3, <1>4, <1>9 DEF others

LEMMA CloseParenFollows ==
    ASSUME NEW T, tokens \in Seq(T), NEW t \in T, Followed(T, tokens, open, place, half),
           Fits(t), CloseParen(t)
    PROVE  Followed(T, tokens', open', place', half')
<1>1. place = "join" /\ t.kind = ")" /\ half' = half /\ place' = "join" /\ tokens' = Append(tokens, t)
  BY DEF CloseParen, Type
<1>2. Len(open) > 1
  <2>1. ~OneOf(t, {"and", "or"})
    BY <1>1 DEF OneOf
  <2> QED BY <1>1, <2>1, FitsIs
<1>3. /\ LevelsOpen(Continuations(T, tokens), tokens, open) /\ half = <<>>
      /\ Completed(Continuations(T, tokens), tokens, open[Len(open)])
  BY <1>1, FollowedIs
<1> DEFINE inner == SubSeq(open, 1, Len(open) - 1)
           others == WithClause(inner, Group(open[Len(open)].groups))
<1>4. open' = others
  BY DEF CloseParen, Top
<1>5. inner = SubSeq(open, 1, Len(open) - 1)
  OBVIOUS
<1> HIDE DEF inner
<1>6. others = WithClause(inner, Group(open[Len(open)].groups))
  OBVIOUS
<1> HIDE DEF others
<1>7. LevelsOpen(Continuations(T, Append(tokens, t)), Append(tokens, t), others)
  BY <1>1, <1>2, <1>3, <1>5, <1>6, ParenCloses
<1>8. Completed(Continuations(T, Append(tokens, t)), Append(tokens, t), others[Len(others)])
  BY <1>1, <1>2, <1>3, <1>5, <1>6, ParenCloses
<1>9. Followed(T, Append(tokens, t), others, "join", <<>>)
  BY <1>7, <1>8 DEF Followed
<1> QED BY <1>1, <1>3, <1>4, <1>9

LEMMA AndFollows ==
    ASSUME NEW T, tokens \in Seq(T), NEW t \in T, Followed(T, tokens, open, place, half), And(t)
    PROVE  Followed(T, tokens', open', place', half')
<1>1. /\ place = "join" /\ OneOf(t, {"and"}) /\ half' = half /\ open' = open
      /\ place' = "clause" /\ tokens' = Append(tokens, t)
  BY DEF And, Type
<1>2. /\ LevelsOpen(Continuations(T, tokens), tokens, open) /\ half = <<>>
      /\ Completed(Continuations(T, tokens), tokens, open[Len(open)])
  BY <1>1, FollowedIs
<1>3. LevelsOpen(Continuations(T, Append(tokens, t)), Append(tokens, t), open)
  BY <1>2, LevelsStay
<1>4. Wanted(Continuations(T, Append(tokens, t)), Append(tokens, t), open[Len(open)], <<>>)
  BY <1>1, <1>2, AndJoins
<1>5. WellBegun("clause", <<>>)
  BY DEF WellBegun
<1>6. Followed(T, Append(tokens, t), open, "clause", <<>>)
  BY <1>3, <1>4, <1>5 DEF Followed
<1> QED BY <1>1, <1>2, <1>6

LEMMA OrFollows ==
    ASSUME NEW T, tokens \in Seq(T), NEW t \in T, Followed(T, tokens, open, place, half), Or(t)
    PROVE  Followed(T, tokens', open', place', half')
<1>1. /\ place = "join" /\ OneOf(t, {"or"}) /\ half' = half
      /\ place' = "clause" /\ tokens' = Append(tokens, t)
  BY DEF Or, Type
<1>2. /\ LevelsOpen(Continuations(T, tokens), tokens, open) /\ half = <<>>
      /\ Completed(Continuations(T, tokens), tokens, open[Len(open)])
  BY <1>1, FollowedIs
<1>3. IsSeq(open) /\ Len(open) > 0
  BY <1>2 DEF LevelsOpen
<1> DEFINE top == open[Len(open)]
           new == WithGroups(top, Append(top.groups, <<>>))
           others == Replaced(open, Len(open), new)
<1>4. open' = others
  BY DEF Or, Replaced, WithGroups
<1>5. new.at = top.at /\ Wanted(Continuations(T, Append(tokens, t)), Append(tokens, t), new, <<>>)
  <2>1. new.at = top.at
    BY <1>1, <1>2, OrJoins
  <2>2. Wanted(Continuations(T, Append(tokens, t)), Append(tokens, t), new, <<>>)
    BY <1>1, <1>2, OrJoins
  <2> QED BY <2>1, <2>2
<1> HIDE DEF new
<1>6. /\ IsSeq(others) /\ Len(others) = Len(open) /\ others[Len(open)] = new
      /\ \A k \in 1 .. Len(open) - 1 : others[k] = open[k]
  BY <1>3, ReplacedIs
<1> HIDE DEF others
<1>7. LevelsOpen(Continuations(T, Append(tokens, t)), Append(tokens, t), others)
  <2>1. Continuations(T, Append(tokens, t)) \subseteq Continuations(T, tokens)
    BY ContinuationsShrink
  <2>2. others[Len(open)].at = open[Len(open)].at
    BY <1>5, <1>6
  <2> QED BY <1>2, <1>6, <2>1, <2>2, LevelsKept
<1>8. WellBegun("clause", <<>>)
  BY DEF WellBegun
<1>9. Followed(T, Append(tokens, t), others, "clause", <<>>)
  BY <1>5, <1>6, <1>7, <1>8 DEF Followed
<1> QED BY <1>1, <1>2, <1>4, <1>9

LEMMA OneMore ==
    ASSUME NEW begun, NEW f, begun = <<f>>, NEW t
    PROVE  Append(begun, t) = <<f, t>>
<1> DEFINE R == {f, t}
           pair == <<f, t>>
<1>1. begun \in Seq(R) /\ t \in R /\ Len(begun) = 1 /\ begun[1] = f
  OBVIOUS
<1>2. pair \in Seq(R) /\ Len(pair) = 2 /\ pair[1] = f /\ pair[2] = t
  OBVIOUS
<1> HIDE DEF R, pair
<1> DEFINE more == Append(begun, t)
<1>3. more \in Seq(R) /\ Len(more) = 2 /\ more[1] = f /\ more[2] = t
  BY <1>1
<1> HIDE DEF more
<1>4. more = pair
  BY <1>2, <1>3
<1> QED BY <1>4 DEF more, pair

\* The words, operators and numbers that leave a clause unfinished.
LEMMA HalfFollows ==
    ASSUME NEW T, tokens \in Seq(T), NEW t \in T, Followed(T, tokens, open, place, half), Fits(t),
           \/ FieldName(t) \/ Operator(t) \/ ContainsWord(t)
           \/ LastWord(t) \/ Amount(t) \/ SinceWord(t)
    PROVE  Followed(T, tokens', open', place', half')
<1>1. ASSUME NEW then, Continue(t, then), place # "join", WellBegun(then, Append(half, t))
      PROVE  Followed(T, tokens', open', place', half')
  <2>1. Followed(T, Append(tokens, t), open, then, Append(half, t))
    BY <1>1, HalfContinues
  <2>2. /\ tokens' = Append(tokens, t) /\ place' = then /\ half' = Append(half, t) /\ open' = open
    BY <1>1 DEF Continue, Type
  <2> QED BY <2>1, <2>2
<1>2. place # "join" => WellBegun(place, half)
  BY FollowedIs
<1>3. place = "clause" => Append(half, t) = <<t>>
  <2>1. place = "clause" => half = <<>>
    BY <1>2 DEF WellBegun
  <2> QED BY <2>1
<1>4. CASE FieldName(t)
  <2>1. place = "clause" /\ t.kind = "ident" /\ ~OneOf(t, Reserved) /\ Continue(t, "operator")
    BY <1>4 DEF FieldName
  <2>2. FieldToken(t)
    <3>1. ~OneOf(t, {"last", "since"})
      BY <2>1 DEF OneOf, Reserved
    <3> QED BY <2>1, <3>1, FitsIs DEF FieldToken
  <2>3. WellBegun("operator", Append(half, t))
    BY <1>3, <2>1, <2>2 DEF WellBegun
  <2> QED BY <1>1, <2>1, <2>3
<1>5. CASE Operator(t)
  <2>1. place = "operator" /\ IsOp(t) /\ Continue(t, "value")
    BY <1>5 DEF Operator
  <2>2. PICK f : half = <<f>> /\ FieldToken(f)
    BY <1>2, <2>1 DEF WellBegun
  <2>3. Append(half, t) = <<f, t>>
    BY <2>2, OneMore
  <2>4. WellBegun("value", Append(half, t))
    BY <2>1, <2>2, <2>3 DEF WellBegun
  <2> QED BY <1>1, <2>1, <2>4
<1>6. CASE ContainsWord(t)
  <2>1. place = "operator" /\ ~IsOp(t) /\ Continue(t, "text")
    BY <1>6 DEF ContainsWord
  <2>2. PICK f : half = <<f>> /\ FieldToken(f)
    BY <1>2, <2>1 DEF WellBegun
  <2>3. Append(half, t) = <<f, t>> /\ OneOf(t, {"contains"})
    BY <2>1, <2>2, FitsIs, OneMore
  <2>4. WellBegun("text", Append(half, t))
    BY <2>2, <2>3 DEF WellBegun
  <2> QED BY <1>1, <2>1, <2>4
<1>7. CASE LastWord(t)
  <2>1. place = "clause" /\ OneOf(t, {"last"}) /\ Continue(t, "amount")
    BY <1>7 DEF LastWord
  <2>2. WellBegun("amount", Append(half, t))
    BY <1>3, <2>1 DEF WellBegun
  <2> QED BY <1>1, <2>1, <2>2
<1>8. CASE Amount(t)
  <2>1. place = "amount" /\ Continue(t, "unit")
    BY <1>8 DEF Amount
  <2>2. PICK w : half = <<w>> /\ OneOf(w, {"last"})
    BY <1>2, <2>1 DEF WellBegun
  <2>3. Append(half, t) = <<w, t>> /\ IsAmount(t)
    BY <2>1, <2>2, FitsIs, OneMore
  <2>4. WellBegun("unit", Append(half, t))
    BY <2>2, <2>3 DEF WellBegun
  <2> QED BY <1>1, <2>1, <2>4
<1>9. CASE SinceWord(t)
  <2>1. place = "clause" /\ OneOf(t, {"since"}) /\ Continue(t, "moment")
    BY <1>9 DEF SinceWord
  <2>2. WellBegun("moment", Append(half, t))
    BY <1>3, <2>1 DEF WellBegun
  <2> QED BY <1>1, <2>1, <2>2
<1> QED BY <1>4, <1>5, <1>6, <1>7, <1>8, <1>9

\* A value has the type that its user means.
LEMMA TypedIsMeant ==
    ASSUME NEW t, IsValue(t)
    PROVE  Typed(t) = [text |-> t.text, type |-> Meant(t)]
<1> DEFINE type == CASE t.kind = "quoted" -> "String"
                     [] t.kind = "number" /\ t.text \in Decimals -> "Float"
                     [] t.kind = "number" /\ t.text \notin Decimals -> "Integer"
                     [] t.kind = "ident" /\ Lower[t.text] \in {"true", "false"} -> "Bool"
                     [] OTHER -> "String"
<1>1. CASE t.kind = "quoted"
  <2>1. t.kind # "number" /\ t.kind # "ident" /\ ~OneOf(t, {"true", "false"})
    BY <1>1 DEF OneOf
  <2>2. type = "String"
    BY <1>1, <2>1, Zenon
  <2>3. Meant(t) = "String"
    BY <2>1, Zenon DEF Meant
  <2> QED BY <2>2, <2>3 DEF Typed
<1>2. CASE t.kind = "number" /\ t.text \in Decimals
  <2>1. t.kind # "quoted" /\ t.kind # "ident" /\ ~OneOf(t, {"true", "false"}) /\ t.text \notin I64
    BY <1>2, NumbersAssumption DEF OneOf
  <2>2. type = "Float"
    BY <1>2, <2>1, Zenon
  <2>3. Meant(t) = "Float"
    BY <1>2, <2>1, Zenon DEF Meant
  <2> QED BY <2>2, <2>3 DEF Typed
<1>3. CASE t.kind = "number" /\ t.text \notin Decimals
  <2>1. t.kind # "quoted" /\ t.kind # "ident" /\ ~OneOf(t, {"true", "false"}) /\ t.text \in I64
    BY <1>3 DEF OneOf, IsValue
  <2>2. type = "Integer"
    BY <1>3, <2>1, Zenon
  <2>3. Meant(t) = "Integer"
    BY <1>3, <2>1, Zenon DEF Meant
  <2> QED BY <2>2, <2>3 DEF Typed
<1>4. CASE t.kind = "ident" /\ Lower[t.text] \in {"true", "false"}
  <2>1. t.kind # "quoted" /\ t.kind # "number" /\ OneOf(t, {"true", "false"})
    BY <1>4 DEF OneOf
  <2>2. type = "Bool"
    BY <1>4, <2>1, Zenon
  <2>3. Meant(t) = "Bool"
    BY <2>1, Zenon DEF Meant
  <2> QED BY <2>2, <2>3 DEF Typed
<1>5. CASE t.kind = "ident" /\ Lower[t.text] \notin {"true", "false"}
  <2>1. t.kind # "quoted" /\ t.kind # "number" /\ ~OneOf(t, {"true", "false"})
    BY <1>5 DEF OneOf
  <2>2. type = "String"
    BY <1>5, <2>1, Zenon
  <2>3. Meant(t) = "String"
    BY <2>1, Zenon DEF Meant
  <2> QED BY <2>2, <2>3 DEF Typed
<1>6. t.kind = "quoted" \/ t.kind = "ident" \/ t.kind = "number"
  BY DEF IsValue
<1> QED BY <1>1, <1>2, <1>3, <1>4, <1>5, <1>6

\* The token that completes a clause with two others before it.
LEMMA EndsAfterTwo ==
    ASSUME NEW T, NEW ts \in Seq(T), NEW t \in T, NEW a, NEW b, NEW clause,
           ASSUME NEW u \in Seq(T), NEW c \in 1 .. Len(u), c + 2 <= Len(u),
                  u[c] = a, u[c + 1] = b, u[c + 2] = t
           PROVE  Operand(u, c) = Done(clause, c + 3)
    PROVE  Ends(T, ts, t, <<a, b>>, clause)
<1> DEFINE pair == <<a, b>>
<1>1. Len(pair) = 2
  OBVIOUS
<1>2. PICK n \in Nat : n = Len(ts)
  OBVIOUS
<1>3. ASSUME NEW u \in Continuations(T, Append(ts, t)), NEW c \in 1 .. Len(u),
             Begun(u, c, pair), c + Len(pair) = Len(ts) + 1, u[Len(ts) + 1] = t
      PROVE  Operand(u, c) = Done(clause, Len(ts) + 2)
  <2>1. u \in Seq(T) /\ n + 1 \in 1 .. Len(u)
    BY <1>2, ContinuationsShrink
  <2>2. c + 2 = n + 1 /\ c + 3 = n + 2 /\ c \in Nat \ {0} /\ Len(u) \in Nat
    BY <1>1, <1>2, <1>3, <2>1
  <2>3. u[c] = a /\ u[c + 1] = b
    BY <1>3, <2>2, BegunTwo
  <2>4. u[c + 2] = t /\ c + 2 <= Len(u)
    BY <1>2, <1>3, <2>1, <2>2
  <2>5. Operand(u, c) = Done(clause, c + 3)
    BY <2>1, <2>3, <2>4
  <2> QED BY <1>2, <2>2, <2>5
<1> HIDE DEF pair
<1>4. Ends(T, ts, t, pair, clause)
  BY <1>3, Zenon DEF Ends
<1> QED BY <1>4 DEF pair

LEMMA ValueFollows ==
    ASSUME NEW T, tokens \in Seq(T), NEW t \in T, Followed(T, tokens, open, place, half), Fits(t), Value(t)
    PROVE  Followed(T, tokens', open', place', half')
<1> DEFINE clause == [tag |-> "compare", field |-> half[1].text, op |-> half[2].kind,
                      value |-> [text |-> t.text, type |-> Meant(t)]]
<1>1. place = "value" /\ Finish(t, clause)
  BY DEF Value
<1>2. WellBegun(place, half) /\ place # "join"
  BY <1>1, FollowedIs
<1>3. PICK f, op : half = <<f, op>> /\ FieldToken(f) /\ IsOp(op)
  BY <1>1, <1>2 DEF WellBegun
<1>4. half[1] = f /\ half[2] = op
  BY <1>3
<1>5. IsValue(t)
  BY <1>1, FitsIs
<1>6. clause = Compare(f, op, t)
  BY <1>4, <1>5, TypedIsMeant DEF Compare
<1> HIDE DEF clause
<1>7. ASSUME NEW u \in Seq(T), NEW c \in 1 .. Len(u), c + 2 <= Len(u),
             u[c] = f, u[c + 1] = op, u[c + 2] = t
      PROVE  Operand(u, c) = Done(clause, c + 3)
  <2>1. ~OneOf(op, {"contains"})
    BY <1>3 DEF IsOp, OneOf
  <2>2. FieldToken(u[c]) /\ ~IsWord(u, c + 1, "contains")
    BY <1>3, <1>7, <2>1, WordIs
  <2>3. Has(u, c + 1, "operator") /\ Has(u, c + 2, "value")
    BY <1>3, <1>5, <1>7, AcceptsIs DEF Has
  <2>4. Operand(u, c) = Done(Compare(u[c], u[c + 1], u[c + 2]), c + 3)
    BY <2>2, <2>3, ComparisonIs
  <2> QED BY <1>6, <1>7, <2>4
<1>8. Ends(T, tokens, t, <<f, op>>, clause)
  BY <1>7, EndsAfterTwo
<1>9. Followed(T, Append(tokens, t), WithClause(open, clause), "join", <<>>)
  BY <1>2, <1>3, <1>8, ClauseFinishes
<1>10. /\ tokens' = Append(tokens, t) /\ open' = WithClause(open, clause)
       /\ place' = "join" /\ half' = <<>>
  BY <1>1 DEF Finish, Type
<1> QED BY <1>9, <1>10

LEMMA TextFollows ==
    ASSUME NEW T, tokens \in Seq(T), NEW t \in T, Followed(T, tokens, open, place, half), Fits(t), Text(t)
    PROVE  Followed(T, tokens', open', place', half')
<1> DEFINE clause == ContainsClause(half[1], t)
<1>1. place = "text" /\ Finish(t, clause)
  BY DEF Text
<1>2. WellBegun(place, half) /\ place # "join"
  BY <1>1, FollowedIs
<1>3. PICK f, w : half = <<f, w>> /\ FieldToken(f) /\ OneOf(w, {"contains"})
  BY <1>1, <1>2 DEF WellBegun
<1>4. clause = ContainsClause(f, t) /\ IsText(t)
  BY <1>1, <1>3, FitsIs
<1> HIDE DEF clause
<1>5. ASSUME NEW u \in Seq(T), NEW c \in 1 .. Len(u), c + 2 <= Len(u),
             u[c] = f, u[c + 1] = w, u[c + 2] = t
      PROVE  Operand(u, c) = Done(clause, c + 3)
  <2>1. FieldToken(u[c]) /\ IsWord(u, c + 1, "contains")
    <3>1. c + 1 <= Len(u)
      BY <1>5
    <3>2. OneOf(u[c + 1], {"contains"})
      BY <1>3, <1>5
    <3> QED BY <1>3, <1>5, <3>1, <3>2, WordIs
  <2>2. Has(u, c + 2, "text")
    BY <1>4, <1>5, AcceptsIs DEF Has
  <2>3. Operand(u, c) = Done(ContainsClause(u[c], u[c + 2]), c + 3)
    BY <2>1, <2>2, ContainsIs
  <2> QED BY <1>4, <1>5, <2>3
<1>6. Ends(T, tokens, t, <<f, w>>, clause)
  BY <1>5, EndsAfterTwo
<1>7. Followed(T, Append(tokens, t), WithClause(open, clause), "join", <<>>)
  BY <1>2, <1>3, <1>6, ClauseFinishes
<1>8. /\ tokens' = Append(tokens, t) /\ open' = WithClause(open, clause)
      /\ place' = "join" /\ half' = <<>>
  BY <1>1 DEF Finish, Type
<1> QED BY <1>7, <1>8

LEMMA UnitFollows ==
    ASSUME NEW T, tokens \in Seq(T), NEW t \in T, Followed(T, tokens, open, place, half), Fits(t), Unit(t)
    PROVE  Followed(T, tokens', open', place', half')
<1> DEFINE clause == LastDuration(half[2], t)
<1>1. place = "unit" /\ Finish(t, clause)
  BY DEF Unit
<1>2. WellBegun(place, half) /\ place # "join"
  BY <1>1, FollowedIs
<1>3. PICK w, n : half = <<w, n>> /\ OneOf(w, {"last"}) /\ IsAmount(n)
  BY <1>1, <1>2 DEF WellBegun
<1>4. clause = LastDuration(n, t) /\ IsUnit(t)
  BY <1>1, <1>3, FitsIs
<1> HIDE DEF clause
<1>5. ASSUME NEW u \in Seq(T), NEW c \in 1 .. Len(u), c + 2 <= Len(u),
             u[c] = w, u[c + 1] = n, u[c + 2] = t
      PROVE  Operand(u, c) = Done(clause, c + 3)
  <2>1. Has(u, c + 1, "amount") /\ Has(u, c + 2, "unit")
    BY <1>3, <1>4, <1>5, AcceptsIs DEF Has
  <2>2. Operand(u, c) = Done(LastDuration(u[c + 1], u[c + 2]), c + 3)
    BY <1>3, <1>5, <2>1, LastIs
  <2> QED BY <1>4, <1>5, <2>2
<1>6. Ends(T, tokens, t, <<w, n>>, clause)
  BY <1>5, EndsAfterTwo
<1>7. Followed(T, Append(tokens, t), WithClause(open, clause), "join", <<>>)
  BY <1>2, <1>3, <1>6, ClauseFinishes
<1>8. /\ tokens' = Append(tokens, t) /\ open' = WithClause(open, clause)
      /\ place' = "join" /\ half' = <<>>
  BY <1>1 DEF Finish, Type
<1> QED BY <1>7, <1>8

LEMMA MomentFollows ==
    ASSUME NEW T, tokens \in Seq(T), NEW t \in T, Followed(T, tokens, open, place, half), Fits(t), Moment(t)
    PROVE  Followed(T, tokens', open', place', half')
<1> DEFINE clause == SinceDatetime(t)
<1>1. place = "moment" /\ Finish(t, clause)
  BY DEF Moment
<1>2. WellBegun(place, half) /\ place # "join"
  BY <1>1, FollowedIs
<1>3. PICK w : half = <<w>> /\ OneOf(w, {"since"})
  BY <1>1, <1>2 DEF WellBegun
<1>4. clause = SinceDatetime(t) /\ IsMoment(t)
  BY <1>1, FitsIs
<1> HIDE DEF clause
<1>5. PICK n \in Nat : n = Len(tokens)
  OBVIOUS
<1>6. ASSUME NEW u \in Continuations(T, Append(tokens, t)), NEW c \in 1 .. Len(u),
             Begun(u, c, half), c + Len(half) = Len(tokens) + 1, u[Len(tokens) + 1] = t
      PROVE  Operand(u, c) = Done(clause, Len(tokens) + 2)
  <2>1. u \in Seq(T) /\ n + 1 \in 1 .. Len(u)
    BY <1>5, ContinuationsShrink
  <2>2. Len(half) = 1
    BY <1>3
  <2>3. c + 1 = n + 1 /\ c + 2 = n + 2 /\ c \in Nat \ {0} /\ Len(u) \in Nat
    BY <1>5, <1>6, <2>1, <2>2
  <2>4. u[c] = w
    BY <1>3, <1>6, <2>3, BegunOne
  <2>5. u[c + 1] = t /\ c + 1 <= Len(u)
    BY <1>5, <1>6, <2>1, <2>3
  <2>6. Has(u, c + 1, "moment")
    BY <1>4, <2>5, AcceptsIs DEF Has
  <2>7. Operand(u, c) = Done(SinceDatetime(u[c + 1]), c + 2)
    BY <1>3, <2>1, <2>4, <2>6, SinceIs
  <2> QED BY <1>4, <1>5, <2>3, <2>5, <2>7
<1>7. Ends(T, tokens, t, half, clause)
  BY <1>6, Zenon DEF Ends
<1>8. Followed(T, Append(tokens, t), WithClause(open, clause), "join", <<>>)
  BY <1>2, <1>7, ClauseFinishes
<1>9. /\ tokens' = Append(tokens, t) /\ open' = WithClause(open, clause)
      /\ place' = "join" /\ half' = <<>>
  BY <1>1 DEF Finish, Type
<1> QED BY <1>8, <1>9

LEMMA RightFollows ==
    ASSUME NEW T, tokens \in Seq(T), NEW t \in T, Followed(T, tokens, open, place, half), Right(t)
    PROVE  Followed(T, tokens', open', place', half') /\ tokens' = Append(tokens, t) /\ wrongAt' = wrongAt
<1>1. Fits(t)
  BY DEF Right
<1>2. CASE OpenParen(t)
  BY <1>2, OpenParenFollows DEF OpenParen, Type
<1>3. CASE CloseParen(t)
  BY <1>1, <1>3, CloseParenFollows DEF CloseParen, Type
<1>4. CASE And(t)
  BY <1>4, AndFollows DEF And, Type
<1>5. CASE Or(t)
  BY <1>5, OrFollows DEF Or, Type
<1>6. CASE \/ FieldName(t) \/ Operator(t) \/ ContainsWord(t)
           \/ LastWord(t) \/ Amount(t) \/ SinceWord(t)
  <2>1. Followed(T, tokens', open', place', half')
    BY <1>1, <1>6, HalfFollows
  <2>2. tokens' = Append(tokens, t) /\ wrongAt' = wrongAt
    BY <1>6 DEF FieldName, Operator, ContainsWord, LastWord, Amount, SinceWord, Continue, Type
  <2> QED BY <2>1, <2>2
<1>7. CASE Value(t) \/ Text(t) \/ Unit(t) \/ Moment(t)
  <2>1. Followed(T, tokens', open', place', half')
    BY <1>1, <1>7, ValueFollows, TextFollows, UnitFollows, MomentFollows
  <2>2. tokens' = Append(tokens, t) /\ wrongAt' = wrongAt
    BY <1>7, Zenon DEF Value, Text, Unit, Moment, Finish, Type
  <2> QED BY <2>1, <2>2
<1> QED BY <1>2, <1>3, <1>4, <1>5, <1>6, <1>7 DEF Right

\* A token that does not fit is the fault of every text that begins with it.
LEMMA WrongIsRefused ==
    ASSUME NEW T, tokens \in Seq(T), NEW t \in T, Followed(T, tokens, open, place, half), ~Fits(t),
           NEW u \in Continuations(T, Append(tokens, t))
    PROVE  Parse(u) = Fail(Len(tokens) + 1, "token")
<1>1. PICK n \in Nat : n = Len(tokens)
  OBVIOUS
<1>2. u \in Continuations(T, tokens) /\ u \in Seq(T) /\ n + 1 \in 1 .. Len(u) /\ u[n + 1] = t
  BY <1>1, ContinuationsShrink
<1>3. n + 1 <= Len(u)
  BY <1>2
<1>4. CASE place # "join"
  <2>1. /\ LevelsOpen(Continuations(T, tokens), tokens, open) /\ WellBegun(place, half)
        /\ Wanted(Continuations(T, tokens), tokens, open[Len(open)], half)
    BY <1>4, FollowedIs
  <2>2. ~WantedByJoin(u, n + 1)
    <3>1. ~(n + 1 > Len(u))
      BY <1>2
    <3> QED BY <3>1 DEF WantedByJoin
  <2>3. Parse(u) = Fail(n + 1, Cause(u, n + 1))
    BY <1>1, <1>2, <2>1, <2>2, HalfIsRefused
  <2>4. Cause(u, n + 1) = "token"
    <3>1. ~(n + 1 > Len(u))
      BY <1>2
    <3> QED BY <3>1 DEF Cause
  <2> QED BY <1>1, <2>3, <2>4
<1>5. CASE place = "join"
  <2>1. /\ LevelsOpen(Continuations(T, tokens), tokens, open)
        /\ Completed(Continuations(T, tokens), tokens, open[Len(open)])
    BY <1>5, FollowedIs
  <2>2. ~OneOf(t, {"and", "or"}) /\ ~(t.kind = ")" /\ Len(open) > 1)
    BY <1>5, FitsIs
  <2>3. ~IsJoin(u, n + 1)
    BY <1>2, <2>2, JoinIs
  <2>4. Len(open) \in Nat \ {0} /\ open[1].at = 0
    <3>1. IsSeq(open) /\ Len(open) > 0 /\ open[1].at = 0
      BY <2>1 DEF LevelsOpen
    <3> QED BY <3>1 DEF IsSeq
  <2>5. CASE Len(open) = 1
    <3>1. open[Len(open)].at = 0
      BY <2>4, <2>5
    <3> QED BY <1>1, <1>2, <1>3, <2>1, <2>3, <3>1, RestIsRefused
  <2>6. CASE Len(open) # 1
    <3>1. Len(open) > 1 /\ u[n + 1].kind # ")"
      <4>1. Len(open) > 1
        <5>1. PICK m \in Nat \ {0} : m = Len(open)
          BY <2>4
        <5>2. m # 1 => m > 1
          OBVIOUS
        <5> QED BY <2>6, <5>1, <5>2
      <4> QED BY <1>2, <2>2, <4>1
    <3> QED BY <1>1, <1>2, <1>3, <2>1, <2>3, <3>1, GroupIsRefused
  <2> QED BY <2>5, <2>6
<1> QED BY <1>4, <1>5
-----------------------------------------------------------------------------
(* The invariant. *)

\* After a wrong token every text that begins with what is typed is refused there.
GoneWrong ==
    /\ place = "lost" /\ wrongAt \in 1 .. Len(tokens)
    /\ \A u \in Continuations(session.tokens, tokens) : Parse(u) = Fail(wrongAt, "token")

\* The inductive invariant.
QueryInv ==
    /\ tokens \in Seq(session.tokens)
    /\ \/ wrongAt = 0 /\ Followed(session.tokens, tokens, open, place, half)
       \/ GoneWrong

LEMMA InvInitially == ASSUME Init PROVE QueryInv
<1> DEFINE T == session.tokens
           U == Continuations(T, tokens)
           top == [at |-> 0, groups |-> <<<<>>>>]
<1>1. tokens = <<>> /\ half = <<>> /\ wrongAt = 0 /\ open = <<top>> /\ place = "clause"
  BY DEF Init
<1>2. top = Level(0, <<>>, <<>>) /\ top.at = 0
  <2>1. Append(<<>>, <<>>) = <<<<>>>>
    OBVIOUS
  <2> QED BY <2>1 DEF Level
<1> HIDE DEF top
<1>3. tokens \in Seq(T) /\ Len(tokens) = 0
  BY <1>1
<1>4. \A u \in U : u \in Seq(T)
  BY DEF Continuations
<1> HIDE DEF U, T
<1>5. IsSeq(open) /\ Len(open) = 1 /\ open[1] = top
  BY <1>1, SingleSeq
<1>6. LevelsOpen(U, tokens, open)
  <2>1. Len(open) > 0 /\ 1 .. Len(open) - 1 = {}
    BY <1>5
  <2> QED BY <1>2, <1>5, <2>1 DEF LevelsOpen
<1>7. Waiting(U, top, 1)
  <2>1. ASSUME NEW u \in U PROVE Leads(u, 0, <<>>, <<>>, 1, 1)
    <3>1. u \in Seq(T)
      BY <1>4
    <3>2. 0 \in 0 .. Len(u)
      BY <3>1
    <3>3. Leads(u, 0, <<>>, <<>>, 0 + 1, 0 + 1)
      BY <3>1, <3>2, LeadsAtStart
    <3>4. 0 + 1 = 1
      OBVIOUS
    <3> QED BY <3>3, <3>4
  <2>2. AllLead(U, 0, <<>>, <<>>, 1, 1)
    BY <2>1 DEF AllLead
  <2>3. 0 \in 0 .. 1 - 1
    OBVIOUS
  <2> QED BY <1>2, <2>2, <2>3, EmptyIsSeq, WaitingIs
<1>8. Wanted(U, tokens, open[Len(open)], half)
  <2>1. Len(half) = 0
    BY <1>1
  <2>2. 1 \in 1 .. Len(tokens) + 1 /\ 1 + Len(half) = Len(tokens) + 1
    BY <1>3, <2>1
  <2>3. Begun(tokens, 1, half)
    BY <1>3, <2>1 DEF Begun
  <2>4. Waiting(U, open[Len(open)], 1)
    BY <1>5, <1>7
  <2> QED BY <2>2, <2>3, <2>4 DEF Wanted
<1>9. WellBegun(place, half)
  BY <1>1 DEF WellBegun
<1>10. Followed(T, tokens, open, place, half)
  BY <1>6, <1>8, <1>9 DEF Followed, U
<1> QED BY <1>1, <1>3, <1>10 DEF QueryInv, T

LEMMA InvKept == ASSUME QueryInv, [Next]_vars PROVE QueryInv'
<1> DEFINE T == session.tokens
<1>1. tokens \in Seq(T)
  BY DEF QueryInv
<1>2. CASE UNCHANGED vars
  BY <1>2 DEF vars, QueryInv, GoneWrong
<1>3. CASE Next
  <2>1. PICK t \in T : Right(t) \/ Wrong(t)
    BY <1>3 DEF Next
  <2>2. session' = session
    BY <1>3 DEF Next
  <2>3. CASE Right(t)
    <3>1. ~GoneWrong
      <4>1. Fits(t)
        BY <2>3 DEF Right
      <4> QED BY <4>1, FitsIs DEF GoneWrong
    <3>2. wrongAt = 0 /\ Followed(T, tokens, open, place, half)
      BY <3>1 DEF QueryInv
    <3>3. Followed(T, tokens', open', place', half') /\ tokens' = Append(tokens, t) /\ wrongAt' = 0
      BY <1>1, <2>3, <3>2, RightFollows
    <3>4. tokens' \in Seq(T)
      BY <1>1, <3>3, LongerIs
    <3> QED BY <2>2, <3>3, <3>4 DEF QueryInv
  <2>4. CASE Wrong(t)
    <3>1. /\ ~Fits(t) /\ tokens' = Append(tokens, t) /\ place' = "lost"
          /\ wrongAt' = IF wrongAt = 0 THEN Len(tokens) + 1 ELSE wrongAt
      BY <2>4 DEF Wrong
    <3>2. tokens' \in Seq(T) /\ Len(tokens') = Len(tokens) + 1
      BY <1>1, <3>1, LongerIs
    <3>3. CASE wrongAt = 0 /\ Followed(T, tokens, open, place, half)
      <4>1. wrongAt' = Len(tokens) + 1
        BY <3>1, <3>3
      <4>2. \A u \in Continuations(T, tokens') : Parse(u) = Fail(wrongAt', "token")
        BY <1>1, <3>1, <3>3, <4>1, WrongIsRefused
      <4>3. wrongAt' \in 1 .. Len(tokens')
        BY <1>1, <3>2, <4>1
      <4> QED BY <2>2, <3>1, <3>2, <4>2, <4>3 DEF QueryInv, GoneWrong
    <3>4. CASE GoneWrong
      <4>1. wrongAt \in 1 .. Len(tokens) /\ \A u \in Continuations(T, tokens) : Parse(u) = Fail(wrongAt, "token")
        BY <3>4 DEF GoneWrong
      <4>2. wrongAt' = wrongAt
        BY <3>1, <4>1
      <4>3. \A u \in Continuations(T, tokens') : Parse(u) = Fail(wrongAt', "token")
        BY <1>1, <3>1, <4>1, <4>2, ContinuationsShrink
      <4>4. wrongAt' \in 1 .. Len(tokens')
        BY <1>1, <3>2, <4>1, <4>2
      <4> QED BY <2>2, <3>1, <3>2, <4>3, <4>4 DEF QueryInv, GoneWrong
    <3> QED BY <3>3, <3>4 DEF QueryInv
  <2> QED BY <2>1, <2>3, <2>4
<1> QED BY <1>2, <1>3
-----------------------------------------------------------------------------
(* The theorems. *)

LEMMA InvStarted ==
    ASSUME QueryInv
    PROVE  /\ tokens \in Seq(session.tokens)
           /\ tokens \in Continuations(session.tokens, tokens)
           /\ place # "lost" => Followed(session.tokens, tokens, open, place, half)
<1>1. tokens \in Seq(session.tokens)
  BY DEF QueryInv
<1>2. place # "lost" => Followed(session.tokens, tokens, open, place, half)
  BY DEF QueryInv, GoneWrong
<1> QED BY <1>1, <1>2 DEF Continuations

LEMMA InvParses == ASSUME QueryInv PROVE ParsedAsMeant
<1> DEFINE T == session.tokens
<1> SUFFICES ASSUME Complete PROVE Parse(tokens) = Done(Top.groups, Len(tokens) + 1)
  BY DEF ParsedAsMeant, Parsed
<1>1. place = "join" /\ Len(open) = 1
  BY DEF Complete
<1>2. tokens \in Seq(T) /\ Followed(T, tokens, open, place, half)
  BY <1>1, InvStarted
<1> HIDE DEF T
<1>3. LevelsOpen(Continuations(T, tokens), tokens, open)
  BY <1>2, FollowedIs
<1>4. Completed(Continuations(T, tokens), tokens, open[Len(open)])
  BY <1>1, <1>2, FollowedIs
<1>5. open[1].at = 0
  BY <1>3 DEF LevelsOpen
<1>6. open[Len(open)].at = 0
  BY <1>1, <1>5
<1>7. Parse(tokens) = Done(open[Len(open)].groups, Len(tokens) + 1)
  BY <1>2, <1>4, <1>6, CompleteIsParsed
<1> QED BY <1>7 DEF Top

LEMMA InvRefuses == ASSUME QueryInv PROVE RefusedAtFault
<1> DEFINE T == session.tokens
           n == Len(tokens)
<1>1. tokens \in Seq(T) /\ tokens \in Continuations(T, tokens)
  BY InvStarted
<1>2. n \in Nat
  BY <1>1
<1>3. ASSUME place = "lost" PROVE Parse(tokens) = Fail(wrongAt, "token")
  <2>1. GoneWrong
    BY <1>3, FollowedIs DEF QueryInv
  <2> QED BY <1>1, <2>1 DEF GoneWrong
<1>4. ASSUME place # "lost", ~Complete
      PROVE  Parse(tokens) =
                 Fail(CASE place = "join" -> Top.at
                        [] place = "clause" /\ tokens # <<>> /\ IsJoin(tokens, n) -> n
                        [] OTHER -> n + 1, "end")
  <2> DEFINE at == CASE place = "join" -> Top.at
                     [] place = "clause" /\ tokens # <<>> /\ IsJoin(tokens, n) -> n
                     [] OTHER -> n + 1
  <2>1. Followed(T, tokens, open, place, half)
    BY <1>4, InvStarted
  <2> HIDE DEF T
  <2>2. LevelsOpen(Continuations(T, tokens), tokens, open)
    BY <2>1, FollowedIs
  <2>3. CASE place = "join"
    <3>1. Completed(Continuations(T, tokens), tokens, open[Len(open)])
      BY <2>1, <2>3, FollowedIs
    <3>2. Len(open) > 1
      <4>1. IsSeq(open) /\ Len(open) > 0
        BY <2>2 DEF LevelsOpen
      <4>2. Len(open) \in Nat /\ Len(open) # 1
        BY <1>4, <2>3, <4>1 DEF IsSeq, Complete
      <4>3. PICK m \in Nat \ {0} : m = Len(open)
        BY <4>1, <4>2
      <4>4. m # 1 => m > 1
        OBVIOUS
      <4> QED BY <4>2, <4>3, <4>4
    <3>3. n + 1 > Len(tokens) /\ ~IsJoin(tokens, n + 1)
      <4>1. n + 1 > Len(tokens) /\ ~(n + 1 <= Len(tokens))
        BY <1>2
      <4> QED BY <4>1 DEF IsJoin, IsWord, Is
    <3>4. Parse(tokens) = Fail(open[Len(open)].at, "end")
      BY <1>1, <2>2, <3>1, <3>2, <3>3, GroupIsRefused
    <3>5. at = Top.at
      BY <2>3, Zenon
    <3> QED BY <3>4, <3>5 DEF Top
  <2>4. CASE place = "clause" /\ tokens # <<>> /\ IsJoin(tokens, n)
    <3>1. WellBegun(place, half) /\ Wanted(Continuations(T, tokens), tokens, open[Len(open)], half)
      <4>1. place # "join"
        BY <2>4
      <4> QED BY <2>1, <4>1, FollowedIs
    <3>2. half = <<>>
      BY <2>4, <3>1 DEF WellBegun
    <3>3. Parse(tokens) = Fail(n, "end")
      BY <1>1, <2>2, <2>4, <3>1, <3>2, JoinAtEndIsRefused
    <3>4. at = n
      <4>1. place # "join"
        BY <2>4
      <4> QED BY <2>4, <4>1, Zenon
    <3> QED BY <3>3, <3>4
  <2>5. CASE place # "join" /\ ~(place = "clause" /\ tokens # <<>> /\ IsJoin(tokens, n))
    <3>1. WellBegun(place, half) /\ Wanted(Continuations(T, tokens), tokens, open[Len(open)], half)
      BY <2>1, <2>5, FollowedIs
    <3>2. ~(n + 1 <= Len(tokens)) /\ n + 1 > Len(tokens)
      BY <1>2
    <3>3. place = "clause" => ~WantedByJoin(tokens, n + 1)
      <4> SUFFICES ASSUME place = "clause", WantedByJoin(tokens, n + 1) PROVE FALSE
        OBVIOUS
      <4>1. n + 1 > 1 /\ IsJoin(tokens, n + 1 - 1)
        BY DEF WantedByJoin
      <4>2. n + 1 - 1 = n /\ n # 0
        BY <1>2, <4>1
      <4>3. tokens # <<>>
        BY <4>2
      <4> QED BY <2>5, <4>1, <4>2, <4>3
    <3>4. Parse(tokens) = Fail(n + 1, Cause(tokens, n + 1))
      BY <1>1, <2>2, <3>1, <3>2, <3>3, HalfIsRefused
    <3>5. Cause(tokens, n + 1) = "end"
      BY <3>2 DEF Cause
    <3>6. at = n + 1
      BY <2>5, Zenon
    <3> QED BY <3>4, <3>5, <3>6
  <2> QED BY <2>3, <2>4, <2>5
<1>5. IncompleteIsRefused
  BY <1>4, Zenon DEF IncompleteIsRefused, Parsed
<1>6. FirstWrongTokenReported
  BY <1>3 DEF FirstWrongTokenReported, Parsed
<1> QED BY <1>5, <1>6 DEF RefusedAtFault

\* Whatever is typed, the levels that are open are what the parser has read,
\* until a token is wrong, from which on the parse fails there.
THEOREM QueryInvariant == Spec => []QueryInv
<1>1. Init => QueryInv
  BY InvInitially
<1>2. QueryInv /\ [Next]_vars => QueryInv'
  BY InvKept
<1> QED BY <1>1, <1>2, PTL DEF Spec

\* A complete query is parsed to the tree its user means: AND binds tighter
\* than OR, parentheses override that and nothing else, no clause is lost,
\* moved or read with another operator or value type (parse_or_expr,
\* parse_and_expr and parse_clause of query.rs).
THEOREM ParsedAsMeantHolds == Spec => []ParsedAsMeant
<1>1. QueryInv => ParsedAsMeant
  BY InvParses
<1> QED BY <1>1, QueryInvariant, PTL

\* A query that is not complete is refused as incomplete, at what waits to be
\* completed, and one with a wrong token at the first such token, whatever
\* comes behind it (the positions of QueryParseError in query.rs).
THEOREM RefusedAtFaultHolds == Spec => []RefusedAtFault
<1>1. QueryInv => RefusedAtFault
  BY InvRefuses
<1> QED BY <1>1, QueryInvariant, PTL
=============================================================================
