----------------------------- MODULE LineProofs -----------------------------
(***************************************************************************)
(* What a logger writes is what is stored, in either format, what is       *)
(* stored is found by the names, values and texts that a user types, and   *)
(* what is printed says what is stored: for texts and records of any       *)
(* length and any characters.                                              *)
(***************************************************************************)
EXTENDS TextProofs

LEMMA Upwards ==
    ASSUME NEW n \in Nat, NEW Good, 0 \in Good,
           \A k \in 0 .. n - 1 : k \in Good => k + 1 \in Good
    PROVE  \A k \in 0 .. n : k \in Good
<1> DEFINE T == {k \in 0 .. n : k \notin Good}
<1>1. ASSUME NEW i \in 0 .. n, i \notin Good PROVE FALSE
  <2>1. i \in T /\ T \in SUBSET Nat
    BY <1>1
  <2>2. PICK k \in T : \A m \in T : k <= m
    BY <2>1, Smallest
  <2>3. k \in 0 .. n /\ k \notin Good /\ k # 0
    BY <2>2
  <2>4. k - 1 \in 0 .. n - 1 /\ k - 1 + 1 = k /\ ~(k <= k - 1)
    BY <2>3
  <2>5. k - 1 \in Good
    BY <2>2, <2>4
  <2> QED BY <2>3, <2>4, <2>5
<1> QED BY <1>1

-----------------------------------------------------------------------------
(* Sequences joined to one: FlattenSeq by way of what is joined so far. *)

FlatFrom(parts, flat, i) == IF i = 1 THEN parts[i] ELSE flat[i - 1] \o parts[i]
IsFlat(parts, flat) == flat = [i \in 1 .. Len(parts) |-> FlatFrom(parts, flat, i)]

LEMMA FlatExists ==
    ASSUME NEW T, NEW parts \in Seq(T)
    PROVE  \E flat : IsFlat(parts, flat)
<1>1. PICK n \in Nat : n = Len(parts)
  OBVIOUS
<1> DEFINE Solves(g, k) == \A j \in 1 .. k : g[j] = FlatFrom(parts, g, j)
           Good == {k \in 0 .. n : \E g : Solves(g, k)}
<1>2. 0 \in Good
  OBVIOUS
<1>3. ASSUME NEW k \in 0 .. n - 1, k \in Good PROVE k + 1 \in Good
  <2>1. PICK g : \A j \in 1 .. k : g[j] = FlatFrom(parts, g, j)
    BY <1>3
  <2> DEFINE h == [j \in 1 .. k + 1 |-> IF j = k + 1 THEN FlatFrom(parts, g, k + 1) ELSE g[j]]
  <2>2. \A j \in 1 .. k : h[j] = g[j]
    OBVIOUS
  <2>3. h[k + 1] = FlatFrom(parts, g, k + 1)
    OBVIOUS
  <2> HIDE DEF h
  <2>4. ASSUME NEW j \in 1 .. k + 1 PROVE FlatFrom(parts, h, j) = FlatFrom(parts, g, j)
    <3>1. CASE j = 1
      BY <3>1 DEF FlatFrom
    <3>2. CASE j # 1
      <4>1. j - 1 \in 1 .. k
        BY <3>2
      <4>2. h[j - 1] = g[j - 1]
        BY <2>2, <4>1
      <4> QED BY <4>2 DEF FlatFrom
    <3> QED BY <3>1, <3>2
  <2>5. ASSUME NEW j \in 1 .. k + 1 PROVE h[j] = FlatFrom(parts, h, j)
    <3>1. j = k + 1 \/ j \in 1 .. k
      OBVIOUS
    <3> QED BY <2>1, <2>2, <2>3, <2>4, <3>1
  <2>6. k + 1 \in 0 .. n
    OBVIOUS
  <2> QED BY <2>5, <2>6
<1>4. n \in Good
  <2> HIDE DEF Good
  <2>1. \A k \in 0 .. n : k \in Good
    BY <1>2, <1>3, Upwards
  <2> QED BY <2>1
<1>5. PICK g : \A j \in 1 .. n : g[j] = FlatFrom(parts, g, j)
  BY <1>4
<1> DEFINE f == [j \in 1 .. n |-> g[j]]
<1>6. ASSUME NEW j \in 1 .. n PROVE FlatFrom(parts, f, j) = FlatFrom(parts, g, j)
  <2>1. CASE j = 1
    BY <2>1 DEF FlatFrom
  <2>2. CASE j # 1
    <3>1. j - 1 \in 1 .. n
      BY <2>2
    <3>2. f[j - 1] = g[j - 1]
      BY <3>1
    <3> QED BY <3>2 DEF FlatFrom
  <2> QED BY <2>1, <2>2
<1>7. f = [j \in 1 .. n |-> FlatFrom(parts, f, j)]
  <2>1. \A j \in 1 .. n : g[j] = FlatFrom(parts, f, j)
    <3> HIDE DEF f
    <3> QED BY <1>5, <1>6
  <2> HIDE DEF f
  <2>2. f = [j \in 1 .. n |-> g[j]]
    BY DEF f
  <2> QED BY <2>1, <2>2
<1> HIDE DEF f
<1> QED BY <1>1, <1>7 DEF IsFlat

LEMMA FlattenIsFlat ==
    ASSUME NEW T, NEW parts \in Seq(T), Len(parts) # 0
    PROVE  \E flat : IsFlat(parts, flat) /\ FlattenSeq(parts) = flat[Len(parts)]
<1>1. \E flat : IsFlat(parts, flat)
  BY FlatExists
<1> QED BY <1>1 DEF FlattenSeq, IsFlat, FlatFrom

\* What is joined of the first k parts, for every k.
JoinedSoFar(S, parts, pre) ==
    /\ pre[0] = <<>>
    /\ \A k \in 0 .. Len(parts) : pre[k] \in Seq(S)
    /\ \A k \in 1 .. Len(parts) : pre[k] = pre[k - 1] \o parts[k]

LEMMA FlattenIs ==
    ASSUME NEW S, NEW parts \in Seq(Seq(S))
    PROVE  \E pre : JoinedSoFar(S, parts, pre) /\ FlattenSeq(parts) = pre[Len(parts)]
<1>1. PICK n \in Nat : n = Len(parts)
  OBVIOUS
<1>2. CASE n = 0
  <2> DEFINE pre == [k \in 0 .. 0 |-> <<>>]
  <2>1. FlattenSeq(parts) = parts /\ parts = <<>>
    BY <1>1, <1>2, EmptySeq DEF FlattenSeq
  <2>2. pre[0] = <<>> /\ <<>> \in Seq(S)
    OBVIOUS
  <2>3. \A k \in 0 .. Len(parts) : pre[k] \in Seq(S)
    BY <1>1, <1>2, <2>2
  <2>4. \A k \in 1 .. Len(parts) : FALSE
    BY <1>1, <1>2
  <2> HIDE DEF pre
  <2>5. JoinedSoFar(S, parts, pre)
    BY <2>2, <2>3, <2>4 DEF JoinedSoFar
  <2> QED BY <1>1, <1>2, <2>1, <2>2, <2>5
<1>3. CASE n # 0
  <2>1. PICK flat : IsFlat(parts, flat) /\ FlattenSeq(parts) = flat[n]
    BY <1>1, <1>3, FlattenIsFlat
  <2> DEFINE pre == [k \in 0 .. n |-> IF k = 0 THEN <<>> ELSE flat[k]]
  <2>2. pre[0] = <<>> /\ (\A k \in 1 .. n : pre[k] = flat[k])
    OBVIOUS
  <2>3. \A k \in 1 .. n : flat[k] = FlatFrom(parts, flat, k)
    BY <1>1, <2>1 DEF IsFlat
  <2>4. \A k \in 1 .. n : parts[k] \in Seq(S)
    BY <1>1
  <2> HIDE DEF pre
  <2>5. ASSUME NEW k \in 1 .. n PROVE pre[k] = pre[k - 1] \o parts[k]
    <3>1. CASE k = 1
      <4>1. flat[1] = parts[1] /\ pre[1] = parts[1]
        BY <2>2, <2>3, <3>1 DEF FlatFrom
      <4>2. parts[1] \in Seq(S)
        BY <2>4, <3>1
      <4>3. <<>> \o parts[1] = parts[1]
        BY <4>2, ConcatEmptySeq
      <4>4. pre[1] = pre[0] \o parts[1]
        BY <2>2, <4>1, <4>3
      <4>5. k - 1 = 0
        BY <3>1
      <4> QED BY <3>1, <4>4, <4>5
    <3>2. CASE k # 1
      <4>1. k - 1 \in 1 .. n
        BY <3>2
      <4>2. flat[k] = flat[k - 1] \o parts[k]
        BY <2>3, <3>2 DEF FlatFrom
      <4> QED BY <2>2, <4>1, <4>2
    <3> QED BY <3>1, <3>2
  <2> DEFINE Good == {k \in 0 .. n : pre[k] \in Seq(S)}
  <2>6. 0 \in Good
    <3>1. pre[0] \in Seq(S)
      <4>1. <<>> \in Seq(S)
        OBVIOUS
      <4> QED BY <2>2, <4>1, Zenon
    <3> QED BY <3>1
  <2>7. ASSUME NEW k \in 0 .. n - 1, k \in Good PROVE k + 1 \in Good
    <3>1. k + 1 \in 1 .. n /\ k + 1 - 1 = k
      OBVIOUS
    <3> DEFINE l == k + 1
    <3>2. l \in 1 .. n /\ l - 1 = k
      BY <3>1
    <3> HIDE DEF l
    <3>5. pre[l] = pre[l - 1] \o parts[l]
      BY <2>5, <3>2
    <3>3. pre[l - 1] \in Seq(S) /\ parts[l] \in Seq(S)
      BY <2>4, <2>7, <3>2
    <3>4. pre[l] \in Seq(S)
      BY <3>3, <3>5, ConcatProperties
    <3> QED BY <3>1, <3>4 DEF l
  <2>8. \A k \in 0 .. n : k \in Good
    <3> HIDE DEF Good
    <3> QED BY <2>6, <2>7, Upwards
  <2>9. JoinedSoFar(S, parts, pre)
    BY <1>1, <2>2, <2>5, <2>8 DEF JoinedSoFar
  <2>10. FlattenSeq(parts) = pre[n]
    BY <1>3, <2>1, <2>2
  <2> QED BY <1>1, <2>9, <2>10
<1> QED BY <1>2, <1>3

LEMMA Extended ==
    ASSUME NEW S, NEW s \in Seq(S), NEW t \in Seq(S)
    PROVE  /\ s \o t \in Seq(S) /\ Len(s \o t) = Len(s) + Len(t) /\ Continues(s, s \o t)
           /\ \A m \in 1 .. Len(t) : (s \o t)[Len(s) + m] = t[m]
<1> DEFINE u == s \o t
<1>1. /\ u \in Seq(S) /\ Len(u) = Len(s) + Len(t)
      /\ \A i \in 1 .. Len(s) + Len(t) : u[i] = IF i <= Len(s) THEN s[i] ELSE t[i - Len(s)]
  BY ConcatProperties
<1> HIDE DEF u
<1>2. PICK a \in Nat, b \in Nat : a = Len(s) /\ b = Len(t)
  OBVIOUS
<1>3. \A i \in 1 .. a : u[i] = s[i]
  BY <1>1, <1>2
<1>4. ASSUME NEW m \in 1 .. b PROVE u[a + m] = t[m]
  <2>1. a + m \in 1 .. a + b /\ ~(a + m <= a) /\ a + m - a = m
    BY <1>2
  <2> QED BY <1>1, <1>2, <2>1
<1>5. Continues(s, u)
  BY <1>1, <1>2, <1>3 DEF Continues
<1> QED BY <1>1, <1>2, <1>4, <1>5 DEF u

Grown(p, q, r) ==
    /\ q = p \o r /\ Len(q) = Len(p) + Len(r) /\ Continues(p, q)
    /\ \A m \in 1 .. Len(r) : q[Len(p) + m] = r[m]

LEMMA PrefixesAre ==
    ASSUME NEW S, NEW parts \in Seq(Seq(S)), NEW pre, JoinedSoFar(S, parts, pre),
           NEW k \in 1 .. Len(parts)
    PROVE  \E p \in Seq(S), q \in Seq(S), r \in Seq(S) :
             p = pre[k - 1] /\ q = pre[k] /\ r = parts[k] /\ Grown(p, q, r)
<1>1. PICK n \in Nat : n = Len(parts)
  OBVIOUS
<1>2. k - 1 \in 0 .. n /\ k \in 0 .. n
  BY <1>1
<1>3. PICK p \in Seq(S), r \in Seq(S) : p = pre[k - 1] /\ r = parts[k]
  <2>1. pre[k - 1] \in Seq(S)
    BY <1>1, <1>2 DEF JoinedSoFar
  <2>2. parts[k] \in Seq(S)
    OBVIOUS
  <2> QED BY <2>1, <2>2
<1>4. pre[k] = p \o r
  BY <1>3 DEF JoinedSoFar
<1> DEFINE q == p \o r
<1>5. /\ q \in Seq(S) /\ Len(q) = Len(p) + Len(r) /\ Continues(p, q)
      /\ \A m \in 1 .. Len(r) : q[Len(p) + m] = r[m]
  BY Extended
<1>6. pre[k] = q
  BY <1>4
<1> QED
  <2>1. q = p \o r
    OBVIOUS
  <2> HIDE DEF q
  <2>2. Grown(p, q, r)
    BY <1>5, <2>1 DEF Grown
  <2> QED BY <1>3, <1>5, <1>6, <2>2

LEMMA ContinuesOn ==
    ASSUME NEW S, NEW s \in Seq(S), NEW t \in Seq(S), NEW u \in Seq(S), Continues(s, t), Continues(t, u)
    PROVE  Continues(s, u)
<1>1. PICK a \in Nat, b \in Nat, c \in Nat : a = Len(s) /\ b = Len(t) /\ c = Len(u)
  OBVIOUS
<1>2. a <= b /\ b <= c /\ (\A j \in 1 .. a : t[j] = s[j]) /\ (\A j \in 1 .. b : u[j] = t[j])
  BY <1>1 DEF Continues
<1>3. a <= c
  BY <1>2
<1>4. ASSUME NEW j \in 1 .. a PROVE u[j] = s[j]
  <2>1. j \in 1 .. b
    BY <1>2
  <2> QED BY <1>2, <2>1
<1> QED BY <1>1, <1>3, <1>4 DEF Continues

\* The first parts joined are how all of them begin.
LEMMA PrefixStays ==
    ASSUME NEW S, NEW parts \in Seq(Seq(S)), NEW pre, JoinedSoFar(S, parts, pre), NEW k \in 0 .. Len(parts)
    PROVE  Continues(pre[k], pre[Len(parts)])
<1>1. PICK n \in Nat : n = Len(parts) /\ k \in 0 .. n
  OBVIOUS
<1> DEFINE Good == {l \in 0 .. n - k : Continues(pre[k], pre[k + l])}
<1>2. \A l \in 0 .. n : pre[l] \in Seq(S)
  BY <1>1 DEF JoinedSoFar
<1>3. 0 \in Good
  <2>1. k + 0 = k /\ 0 \in 0 .. n - k
    BY <1>1
  <2>2. Continues(pre[k], pre[k])
    BY <1>1, <1>2 DEF Continues
  <2> QED BY <2>1, <2>2
<1>4. ASSUME NEW l \in 0 .. n - k - 1, l \in Good PROVE l + 1 \in Good
  <2>1. PICK j \in Nat : j = k + l /\ j \in 0 .. n - 1 /\ k + (l + 1) = j + 1 /\ l + 1 \in 0 .. n - k
    BY <1>1
  <2>2. j + 1 \in 1 .. Len(parts) /\ j + 1 - 1 = j
    BY <1>1, <2>1
  <2> DEFINE m == j + 1
  <2>3. m \in 1 .. Len(parts) /\ m - 1 = j
    BY <2>2
  <2> HIDE DEF m
  <2>4. Continues(pre[m - 1], pre[m])
    <3>1. PICK p \in Seq(S), q \in Seq(S), r \in Seq(S) :
              p = pre[m - 1] /\ q = pre[m] /\ r = parts[m] /\ Grown(p, q, r)
      BY <2>3, PrefixesAre
    <3> QED BY <3>1 DEF Grown
  <2>5. Continues(pre[j], pre[m]) /\ Continues(pre[k], pre[j])
    BY <1>4, <2>1, <2>3, <2>4
  <2>6. pre[j] \in Seq(S) /\ pre[m] \in Seq(S) /\ pre[k] \in Seq(S)
    <3>1. j \in 0 .. n /\ m \in 0 .. n
      BY <1>1, <2>1, <2>3
    <3> QED BY <1>1, <1>2, <3>1
  <2>7. Continues(pre[k], pre[m])
    BY <2>5, <2>6, ContinuesOn
  <2> QED BY <2>1, <2>7 DEF m
<1>5. n - k \in Nat /\ n - k \in 0 .. n - k /\ k + (n - k) = n
  BY <1>1
<1>6. n - k \in Good
  <2> HIDE DEF Good
  <2>1. \A l \in 0 .. n - k : l \in Good
    BY <1>3, <1>4, <1>5, Upwards
  <2> QED BY <1>5, <2>1
<1> QED BY <1>1, <1>5, <1>6

\* Where the k-th part is within the whole.
Within(w, a, r) == a + Len(r) <= Len(w) /\ \A m \in 1 .. Len(r) : w[a + m] = r[m]

LEMMA PartIsAt ==
    ASSUME NEW S, NEW parts \in Seq(Seq(S)), NEW pre, JoinedSoFar(S, parts, pre), NEW k \in 1 .. Len(parts)
    PROVE  Within(pre[Len(parts)], Len(pre[k - 1]), parts[k])
<1>1. k \in 0 .. Len(parts)
  OBVIOUS
<1>2. Continues(pre[k], pre[Len(parts)])
  BY <1>1, PrefixStays
<1>7. PICK p \in Seq(S), q \in Seq(S), r \in Seq(S) :
          p = pre[k - 1] /\ q = pre[k] /\ r = parts[k] /\ Grown(p, q, r)
  BY PrefixesAre
<1>3. PICK a \in Nat, b \in Nat, c \in Nat : a = Len(pre[k - 1]) /\ b = Len(parts[k]) /\ c = Len(pre[k])
  <2>1. Len(p) \in Nat /\ Len(q) \in Nat /\ Len(r) \in Nat
    OBVIOUS
  <2> QED BY <1>7, <2>1
<1>4. c = a + b /\ \A m \in 1 .. b : pre[k][a + m] = parts[k][m]
  BY <1>3, <1>7 DEF Grown
<1>5. c <= Len(pre[Len(parts)]) /\ \A j \in 1 .. c : pre[Len(parts)][j] = pre[k][j]
  BY <1>2, <1>3 DEF Continues
<1>6. ASSUME NEW m \in 1 .. b PROVE pre[Len(parts)][a + m] = parts[k][m]
  <2>1. a + m \in 1 .. c
    BY <1>4
  <2> QED BY <1>4, <1>5, <2>1
<1> QED BY <1>3, <1>4, <1>5, <1>6 DEF Within

-----------------------------------------------------------------------------
(* A quoted value is read back. *)

Escaped(c) ==
    CASE c \in {"\"", "\\"} -> <<"\\", c>> [] c = "\n" -> <<"\\", "n">> [] OTHER -> <<c>>
KeptOf(c) == IF c = "\n" THEN <<"\\", "n">> ELSE <<c>>
EscapedParts(text) == [i \in DOMAIN text |-> Escaped(text[i])]
KeptParts(text) == [i \in DOMAIN text |-> KeptOf(text[i])]

\* The characters that a logger adds are characters.
Marked(S) ==
    /\ "\\" \in S /\ "n" \in S /\ "\"" \in S /\ "=" \in S /\ " " \in S
    /\ {"t", "r", "u", "e"} \subseteq S

LEMMA EscapedIs ==
    ASSUME NEW c
    PROVE  /\ c \in {"\"", "\\"} => Escaped(c) = <<"\\", c>> /\ KeptOf(c) = <<c>>
           /\ c = "\n" => Escaped(c) = <<"\\", "n">> /\ KeptOf(c) = <<"\\", "n">>
           /\ c \notin {"\"", "\\", "\n"} => Escaped(c) = <<c>> /\ KeptOf(c) = <<c>>
<1>1. "\n" # "\"" /\ "\n" # "\\"
  OBVIOUS
<1>2. CASE c \in {"\"", "\\"}
  <2>1. c # "\n"
    BY <1>1, <1>2
  <2>2. Escaped(c) = <<"\\", c>>
    BY <1>2, <2>1, Zenon DEF Escaped
  <2> QED BY <1>2, <2>1, <2>2 DEF KeptOf
<1>3. CASE c = "\n"
  <2>1. c \notin {"\"", "\\"}
    BY <1>1, <1>3
  <2>2. Escaped(c) = <<"\\", "n">>
    BY <1>3, <2>1, Zenon DEF Escaped
  <2> QED BY <1>3, <2>1, <2>2 DEF KeptOf
<1>4. CASE c \notin {"\"", "\\", "\n"}
  <2>1. c \notin {"\"", "\\"} /\ c # "\n"
    BY <1>4
  <2>2. Escaped(c) = <<c>>
    BY <2>1, Zenon DEF Escaped
  <2> QED BY <1>4, <2>1, <2>2 DEF KeptOf
<1> QED BY <1>2, <1>3, <1>4

\* A place in a text at which it has another text.
Has(s, i, t) == i + Len(t) <= Len(s) + 1 /\ \A m \in 1 .. Len(t) : s[i - 1 + m] = t[m]

LEMMA OneIs == ASSUME NEW a, NEW S, a \in S PROVE <<a>> \in Seq(S) /\ Len(<<a>>) = 1 /\ <<a>>[1] = a
OBVIOUS

LEMMA TwoAre ==
    ASSUME NEW a, NEW b, NEW S, a \in S, b \in S
    PROVE  <<a, b>> \in Seq(S) /\ Len(<<a, b>>) = 2 /\ <<a, b>>[1] = a /\ <<a, b>>[2] = b
OBVIOUS

LEMMA HasOne ==
    ASSUME NEW s, NEW i \in Nat, NEW c, Has(s, i, <<c>>)
    PROVE  s[i] = c /\ i + 1 <= Len(s) + 1
<1>1. Len(<<c>>) = 1 /\ <<c>>[1] = c
  OBVIOUS
<1> QED BY <1>1 DEF Has

LEMMA HasTwo ==
    ASSUME NEW s, NEW i \in Nat, NEW a, NEW b, Has(s, i, <<a, b>>)
    PROVE  s[i] = a /\ s[i + 1] = b /\ i + 2 <= Len(s) + 1
<1>1. Len(<<a, b>>) = 2 /\ <<a, b>>[1] = a /\ <<a, b>>[2] = b
  OBVIOUS
<1>2. i - 1 + 1 = i /\ i - 1 + 2 = i + 1
  OBVIOUS
<1>3. s[i - 1 + 1] = a /\ s[i - 1 + 2] = b /\ i + 2 <= Len(s) + 1
  BY <1>1 DEF Has
<1> QED BY <1>2, <1>3

\* What the reader makes of an escaped character.
ReadAs(s, j, c) ==
    /\ s[j] # "\"" /\ Width(s, j) = Len(Escaped(c)) /\ Chunk(s, j) = KeptOf(c)
    /\ Len(Escaped(c)) \in 1 .. 2 /\ j + Len(Escaped(c)) <= Len(s) + 1

LEMMA EscapedRead ==
    ASSUME NEW s, NEW j \in Nat, NEW c, Has(s, j, Escaped(c))
    PROVE  ReadAs(s, j, c)
<1>1. CASE c \in {"\"", "\\"}
  <2>3. Escaped(c) = <<"\\", c>> /\ KeptOf(c) = <<c>>
    BY <1>1, EscapedIs
  <2>1. Escaped(c) = <<"\\", c>> /\ KeptOf(c) = <<c>> /\ Len(Escaped(c)) = 2
    BY <2>3
  <2>2. s[j] = "\\" /\ s[j + 1] = c /\ j + 2 <= Len(s) + 1
    BY <2>1, HasTwo
  <2>4. Chunk(s, j) = <<c>> /\ Width(s, j) = 2
    BY <1>1, <2>2 DEF Width, Chunk
  <2>5. s[j] # "\""
    BY <1>1, <2>2
  <2>6. Len(Escaped(c)) = 2 /\ KeptOf(c) = <<c>>
    BY <2>1, Zenon
  <2>7. Chunk(s, j) = KeptOf(c)
    BY <2>4, <2>6, Zenon
  <2>8. Width(s, j) = Len(Escaped(c)) /\ j + Len(Escaped(c)) <= Len(s) + 1
    BY <2>2, <2>4, <2>6
  <2>9. Len(Escaped(c)) \in 1 .. 2
    BY <2>6
  <2> QED BY <2>5, <2>7, <2>8, <2>9, Zenon DEF ReadAs
<1>2. CASE c = "\n"
  <2>3. Escaped(c) = <<"\\", "n">> /\ KeptOf(c) = <<"\\", "n">>
    BY <1>2, EscapedIs
  <2>1. Escaped(c) = <<"\\", "n">> /\ KeptOf(c) = <<"\\", "n">> /\ Len(Escaped(c)) = 2
    BY <2>3
  <2>2. s[j] = "\\" /\ s[j + 1] = "n" /\ j + 2 <= Len(s) + 1
    BY <2>1, HasTwo
  <2> QED BY <2>1, <2>2 DEF Width, Chunk, ReadAs
<1>3. CASE c \notin {"\"", "\\", "\n"}
  <2>3. Escaped(c) = <<c>> /\ KeptOf(c) = <<c>>
    BY <1>3, EscapedIs
  <2>1. Escaped(c) = <<c>> /\ KeptOf(c) = <<c>> /\ Len(Escaped(c)) = 1
    BY <2>3
  <2>2. s[j] = c /\ j + 1 <= Len(s) + 1
    BY <2>1, HasOne
  <2>4. Chunk(s, j) = <<c>> /\ Width(s, j) = 1
    BY <1>3, <2>2 DEF Width, Chunk
  <2>5. s[j] # "\""
    BY <1>3, <2>2
  <2>6. Len(Escaped(c)) = 1 /\ KeptOf(c) = <<c>>
    BY <2>1, Zenon
  <2>7. Chunk(s, j) = KeptOf(c)
    BY <2>4, <2>6, Zenon
  <2>8. Width(s, j) = Len(Escaped(c)) /\ j + Len(Escaped(c)) <= Len(s) + 1
    BY <2>2, <2>4, <2>6
  <2>9. Len(Escaped(c)) \in 1 .. 2
    BY <2>6
  <2> QED BY <2>5, <2>7, <2>8, <2>9, Zenon DEF ReadAs
<1> QED BY <1>1, <1>2, <1>3

LEMMA EscapedText ==
    ASSUME NEW S, Marked(S), NEW c \in S
    PROVE  Escaped(c) \in Seq(S) /\ KeptOf(c) \in Seq(S)
<1>1. CASE c \in {"\"", "\\"}
  <2>1. Escaped(c) = <<"\\", c>> /\ KeptOf(c) = <<c>>
    BY <1>1, EscapedIs
  <2>2. "\\" \in S
    BY Zenon DEF Marked
  <2> QED BY <2>1, <2>2, OneIs, TwoAre
<1>2. CASE c = "\n"
  <2>1. Escaped(c) = <<"\\", "n">> /\ KeptOf(c) = <<"\\", "n">>
    BY <1>2, EscapedIs
  <2>2. "\\" \in S /\ "n" \in S
    BY Zenon DEF Marked
  <2> QED BY <2>1, <2>2, TwoAre
<1>3. CASE c \notin {"\"", "\\", "\n"}
  <2>1. Escaped(c) = <<c>> /\ KeptOf(c) = <<c>>
    BY <1>3, EscapedIs
  <2> QED BY <2>1, OneIs
<1> QED BY <1>1, <1>2, <1>3

LEMMA EscapedTyped ==
    ASSUME NEW S, Marked(S), NEW text \in Seq(S)
    PROVE  /\ EscapedParts(text) \in Seq(Seq(S)) /\ Len(EscapedParts(text)) = Len(text)
           /\ KeptParts(text) \in Seq(Seq(S)) /\ Len(KeptParts(text)) = Len(text)
           /\ \A k \in 1 .. Len(text) : EscapedParts(text)[k] = Escaped(text[k])
           /\ \A k \in 1 .. Len(text) : KeptParts(text)[k] = KeptOf(text[k])
<1>1. \A k \in 1 .. Len(text) : Escaped(text[k]) \in Seq(S) /\ KeptOf(text[k]) \in Seq(S)
  <2>1. \A k \in 1 .. Len(text) : text[k] \in S
    OBVIOUS
  <2> QED BY <2>1, EscapedText
<1>2. DOMAIN text = 1 .. Len(text)
  OBVIOUS
<1> QED BY <1>1, <1>2 DEF EscapedParts, KeptParts

LEMMA WithOne ==
    ASSUME NEW a, NEW e, NEW text
    PROVE  With({[text |-> a, next |-> e]}, text) = {[text |-> text \o a, next |-> e]}
<1> DEFINE v == [text |-> a, next |-> e]
<1>1. [v EXCEPT !.text = text \o @] = [text |-> text \o a, next |-> e]
  BY TextChanged
<1>2. With({v}, text) = {[v EXCEPT !.text = text \o @]}
  BY DEF With
<1> QED BY <1>1, <1>2

\* From i on there is this text and a quote behind it.
ClosedAt(s, i, written) ==
    /\ Has(s, i, written) /\ i + Len(written) <= Len(s)
    /\ s[i + Len(written)] = "\""

LEMMA HasPart ==
    ASSUME NEW S, NEW parts \in Seq(Seq(S)), NEW pre, JoinedSoFar(S, parts, pre), NEW k \in 1 .. Len(parts),
           NEW s \in Seq(S), NEW i \in Nat, Has(s, i, pre[Len(parts)])
    PROVE  Has(s, i + Len(pre[k - 1]), parts[k])
<1>1. PICK p \in Seq(S), q \in Seq(S), r \in Seq(S) : p = pre[k - 1] /\ q = pre[k] /\ r = parts[k] /\ Grown(p, q, r)
  BY PrefixesAre
<1>2. PICK w \in Seq(S) : w = pre[Len(parts)]
  <2>1. Len(parts) \in 0 .. Len(parts)
    OBVIOUS
  <2>2. pre[Len(parts)] \in Seq(S)
    BY <2>1 DEF JoinedSoFar
  <2> QED BY <2>2
<1>3. PICK a \in Nat, b \in Nat, c \in Nat, d \in Nat : a = Len(p) /\ b = Len(r) /\ c = Len(w) /\ d = Len(s)
  OBVIOUS
<1>4. a + b <= c /\ \A m \in 1 .. b : w[a + m] = r[m]
  <2>1. Within(pre[Len(parts)], Len(pre[k - 1]), parts[k])
    BY PartIsAt
  <2>2. Within(w, a, r)
    BY <1>1, <1>2, <1>3, <2>1
  <2> QED BY <1>3, <2>2 DEF Within
<1>5. i + c <= d + 1 /\ \A m \in 1 .. c : s[i - 1 + m] = w[m]
  BY <1>2, <1>3 DEF Has
<1>6. i + a + b <= d + 1
  BY <1>4, <1>5
<1>7. ASSUME NEW m \in 1 .. b PROVE s[i + a - 1 + m] = r[m]
  <2>1. a + m \in 1 .. c /\ i + a - 1 + m = i - 1 + (a + m)
    BY <1>4
  <2> QED BY <1>4, <1>5, <2>1
<1>8. Has(s, i + a, r)
  BY <1>3, <1>6, <1>7 DEF Has
<1> QED BY <1>1, <1>3, <1>8

ReadBack(s, i, text, next) == ReadQuotedValue(s, i) = {[text |-> Kept(text), next |-> next]}

LEMMA KeptIs == ASSUME NEW text PROVE FlattenSeq(KeptParts(text)) = Kept(text)
BY DEF Kept, KeptParts, KeptOf

LEMMA EscapedIsRead ==
    ASSUME NEW S, Marked(S), NEW s \in Seq(S), NEW i \in 1 .. Len(s), NEW text \in Seq(S),
           NEW written, written = FlattenSeq(EscapedParts(text)), ClosedAt(s, i, written)
    PROVE  ReadBack(s, i, text, i + Len(written) + 1)
<1>1. PICK n \in Nat : n = Len(text)
  OBVIOUS
<1>2. PICK parts \in Seq(Seq(S)) : parts = EscapedParts(text) /\ Len(parts) = n
                                   /\ \A k \in 1 .. n : parts[k] = Escaped(text[k])
  BY <1>1, EscapedTyped
<1>3. PICK kept \in Seq(Seq(S)) : kept = KeptParts(text) /\ Len(kept) = n
                                  /\ \A k \in 1 .. n : kept[k] = KeptOf(text[k])
  BY <1>1, EscapedTyped
<1>4. PICK pre : JoinedSoFar(S, parts, pre) /\ written = pre[n]
  BY <1>2, FlattenIs
<1>5. PICK ahead : JoinedSoFar(S, kept, ahead) /\ FlattenSeq(kept) = ahead[n]
  BY <1>3, FlattenIs
<1>6. PICK body : IsBody(s, i, body) /\ ReadQuotedValue(s, i) = body[i]
  <2>1. i \in 1 .. Len(s) + 2
    OBVIOUS
  <2> QED BY <2>1, ReadIs
<1>7. \A k \in 0 .. n : pre[k] \in Seq(S) /\ Len(pre[k]) \in Nat /\ ahead[k] \in Seq(S)
  <2>1. \A k \in 0 .. n : pre[k] \in Seq(S) /\ ahead[k] \in Seq(S)
    BY <1>2, <1>3, <1>4, <1>5 DEF JoinedSoFar
  <2> QED BY <2>1
<1> DEFINE pos(k) == i + Len(pre[k])
           Reached(k, a, e) == body[pos(k)] = {[text |-> a, next |-> e]}
           Good == {k \in 0 .. n : \A a \in Seq(S), e \in Nat :
                        Reached(k, a, e) => body[i] = {[text |-> ahead[k] \o a, next |-> e]}}
<1>8. 0 \in Good
  <2>1. Len(pre[0]) = 0 /\ ahead[0] = <<>>
    BY <1>4, <1>5 DEF JoinedSoFar
  <2>2. pos(0) = i
    BY <2>1
  <2>3. ASSUME NEW a \in Seq(S) PROVE ahead[0] \o a = a
    BY <2>1, ConcatEmptySeq
  <2>4. ASSUME NEW a \in Seq(S), NEW e \in Nat, Reached(0, a, e)
        PROVE  body[i] = {[text |-> ahead[0] \o a, next |-> e]}
    BY <2>2, <2>3, <2>4
  <2>5. 0 \in 0 .. n
    OBVIOUS
  <2> QED BY <2>4, <2>5
<1>9. ASSUME NEW k \in 0 .. n - 1, k \in Good PROVE k + 1 \in Good
  <2> DEFINE l == k + 1
  <2>1. l \in 1 .. n /\ l - 1 = k /\ l \in 0 .. n
    BY <1>1
  <2> HIDE DEF l
  <2>9. l \in 1 .. Len(parts) /\ l \in 1 .. Len(kept)
    BY <1>2, <1>3, <2>1
  <2>2. PICK p \in Seq(S), q \in Seq(S), r \in Seq(S) :
            p = pre[l - 1] /\ q = pre[l] /\ r = parts[l] /\ Grown(p, q, r)
    BY <1>4, <2>9, PrefixesAre
  <2>3. PICK front \in Seq(S), last \in Seq(S), chunk \in Seq(S) :
            front = ahead[l - 1] /\ last = ahead[l] /\ chunk = kept[l] /\ Grown(front, last, chunk)
    BY <1>5, <2>9, PrefixesAre
  <2>4. r = Escaped(text[l]) /\ chunk = KeptOf(text[l])
    BY <1>2, <1>3, <2>1, <2>2, <2>3
  <2>5. Has(s, i + Len(p), r)
    <3>1. Has(s, i, pre[Len(parts)])
      BY <1>2, <1>4 DEF ClosedAt
    <3>3. i \in Nat
      OBVIOUS
    <3>2. Has(s, i + Len(pre[l - 1]), parts[l])
      BY <1>4, <2>9, <3>1, <3>3, HasPart
    <3> QED BY <2>1, <2>2, <3>2
  <2>6. PICK j \in Nat : j = i + Len(p) /\ j \in i .. Len(s) + 2
    <3>1. PICK a \in Nat, b \in Nat, c \in Nat : a = Len(p) /\ b = Len(r) /\ c = Len(s)
      OBVIOUS
    <3>2. i + a + b <= c + 1
      BY <2>5, <3>1 DEF Has
    <3>3. i + a \in Nat /\ i + a \in i .. c + 2
      BY <3>1, <3>2
    <3> QED BY <3>1, <3>3
  <2>7. ReadAs(s, j, text[l])
    BY <2>4, <2>5, <2>6, EscapedRead
  <2>8. ASSUME NEW a \in Seq(S), NEW e \in Nat, Reached(l, a, e)
        PROVE  body[i] = {[text |-> ahead[l] \o a, next |-> e]}
    <3>1. PICK w \in 1 .. 2 : w = Width(s, j) /\ w = Len(r) /\ j + w <= Len(s) + 1
      BY <2>4, <2>7 DEF ReadAs
    <3>2. j + w = pos(l) /\ j <= Len(s)
      <4>1. PICK b \in Nat, c \in Nat, d \in Nat : b = Len(p) /\ c = Len(q) /\ d = Len(s)
        OBVIOUS
      <4>2. c = b + w /\ j = i + b /\ j + w <= d + 1
        BY <2>2, <2>6, <3>1, <4>1 DEF Grown
      <4>3. j + w = i + c /\ j <= d
        BY <4>2
      <4> QED BY <2>2, <4>1, <4>3
    <3>3. BodyFrom(s, body, j) = With(body[j + Width(s, j)], Chunk(s, j))
      BY <2>7, <3>1, <3>2, BodyCases DEF ReadAs
    <3>4. body[j] = BodyFrom(s, body, j)
      BY <1>6, <2>6 DEF IsBody
    <3>5. Chunk(s, j) = chunk
      BY <2>4, <2>7 DEF ReadAs
    <3>6. body[j] = With({[text |-> a, next |-> e]}, chunk)
      BY <2>8, <3>1, <3>2, <3>3, <3>4, <3>5
    <3>7. body[j] = {[text |-> chunk \o a, next |-> e]}
      BY <3>6, WithOne
    <3>8. chunk \o a \in Seq(S) /\ Reached(k, chunk \o a, e)
      <4>1. pos(k) = j
        BY <2>1, <2>2, <2>6
      <4> QED BY <3>7, <4>1, ConcatProperties
    <3>9. body[i] = {[text |-> ahead[k] \o (chunk \o a), next |-> e]}
      BY <1>9, <3>8
    <3>10. (front \o chunk) \o a = front \o (chunk \o a)
      <4>1. Grouped(front, chunk, a)
        BY InOneRow
      <4> QED BY <4>1, Zenon DEF Grouped
    <3>11. last = front \o chunk
      BY <2>3 DEF Grown
    <3> QED BY <2>1, <2>3, <3>9, <3>10, <3>11
  <2> QED BY <2>1, <2>8 DEF l
<1>10. n \in Good
  <2> HIDE DEF Good
  <2>1. \A k \in 0 .. n : k \in Good
    BY <1>8, <1>9, Upwards
  <2>2. n \in 0 .. n
    OBVIOUS
  <2> QED BY <2>1, <2>2
<1>16. PICK d \in Nat, m \in Nat : d = Len(s) /\ m = Len(pre[n]) /\ m = Len(written)
  <2>1. n \in 0 .. n
    BY <1>1
  <2> QED BY <1>4, <1>7, <2>1
<1>17. i + m <= d /\ s[i + m] = "\""
  BY <1>16 DEF ClosedAt
<1>11. i + m = pos(n) /\ i + m \in Nat /\ i + m \in i .. d + 2 /\ i + m + 1 \in Nat
  <2>1. i + m = pos(n)
    BY <1>16, Zenon
  <2>2. i + m \in Nat /\ i + m \in i .. d + 2 /\ i + m + 1 \in Nat
    <3>1. i + m <= d
      BY <1>17
    <3>2. PICK k \in Nat : k = i
      OBVIOUS
    <3>3. k + m \in Nat /\ k + m \in k .. d + 2 /\ k + m + 1 \in Nat
      BY <3>1, <3>2
    <3> QED BY <3>2, <3>3
  <2> QED BY <2>1, <2>2
<1>12. body[i + m] = {[text |-> <<>>, next |-> i + m + 1]}
  <2>1. body[i + m] = BodyFrom(s, body, i + m)
    BY <1>6, <1>11, <1>16 DEF IsBody
  <2>2. BodyFrom(s, body, i + m) = {[text |-> <<>>, next |-> i + m + 1]}
    <3> DEFINE j == i + m
    <3>1. j \in Nat /\ j <= Len(s) /\ s[j] = "\""
      BY <1>11, <1>16, <1>17
    <3> HIDE DEF j
    <3>2. BodyFrom(s, body, j) = {[text |-> <<>>, next |-> j + 1]}
      BY <3>1, BodyCases
    <3> QED BY <3>2 DEF j
  <2> QED BY <2>1, <2>2
<1>13. Reached(n, <<>>, i + m + 1)
  BY <1>11, <1>12
<1>14. body[i] = {[text |-> ahead[n] \o <<>>, next |-> i + m + 1]}
  <2>1. <<>> \in Seq(S)
    OBVIOUS
  <2> QED BY <1>10, <1>11, <1>13, <2>1
<1>15. ahead[n] \o <<>> = ahead[n]
  <2>1. ahead[n] \in Seq(S)
    BY <1>7
  <2> QED BY <2>1, ConcatEmptySeq
<1>18. ahead[n] = Kept(text)
  BY <1>3, <1>5, KeptIs
<1> QED BY <1>6, <1>16, <1>14, <1>15, <1>18 DEF ReadBack

\* A string in quotes, and what is between them.
InQuotes(json, written) ==
    /\ Len(json) = Len(written) + 2 /\ json[1] = "\"" /\ json[Len(written) + 2] = "\""
    /\ \A m \in 1 .. Len(written) : json[m + 1] = written[m]

LEMMA QuotesAround ==
    ASSUME NEW S, NEW c \in S, NEW written \in Seq(S), NEW quote, quote = <<c>>,
           NEW json, json = (quote \o written) \o quote
    PROVE  /\ json \in Seq(S) /\ Len(json) = Len(written) + 2 /\ json[1] = c /\ json[Len(written) + 2] = c
           /\ \A m \in 1 .. Len(written) : json[m + 1] = written[m]
<1>1. quote \in Seq(S) /\ Len(quote) = 1 /\ quote[1] = c
  OBVIOUS
<1>2. PICK m \in Nat : m = Len(written)
  OBVIOUS
<1> DEFINE opened == quote \o written
<1>3. /\ opened \in Seq(S) /\ Len(opened) = 1 + m /\ opened[1] = c
      /\ \A k \in 1 .. m : opened[k + 1] = written[k]
  BY <1>1, <1>2
<1>4. json = opened \o quote
  OBVIOUS
<1> HIDE DEF opened
<1>5. /\ json \in Seq(S) /\ Len(json) = m + 2 /\ json[m + 2] = c
      /\ \A k \in 1 .. m + 1 : json[k] = opened[k]
  BY <1>1, <1>2, <1>3, <1>4
<1>6. json[1] = c /\ \A k \in 1 .. m : json[k + 1] = written[k]
  BY <1>2, <1>3, <1>5
<1> QED BY <1>2, <1>5, <1>6

LEMMA JsonStringIs ==
    ASSUME NEW S, Marked(S), NEW text \in Seq(S)
    PROVE  \E written \in Seq(S), json \in Seq(S) :
             written = FlattenSeq(EscapedParts(text)) /\ json = JsonString(text) /\ InQuotes(json, written)
<1>1. PICK written \in Seq(S) : written = FlattenSeq(EscapedParts(text))
  <2>1. PICK parts \in Seq(Seq(S)) : parts = EscapedParts(text)
    BY EscapedTyped
  <2>2. PICK pre : JoinedSoFar(S, parts, pre) /\ FlattenSeq(parts) = pre[Len(parts)]
    BY FlattenIs
  <2>3. Len(parts) \in 0 .. Len(parts)
    OBVIOUS
  <2>4. pre[Len(parts)] \in Seq(S)
    BY <2>2, <2>3 DEF JoinedSoFar
  <2> QED BY <2>1, <2>2, <2>4
<1>2. PICK c \in S : c = "\""
  BY Zenon DEF Marked
<1>3. PICK quote : quote = <<c>>
  OBVIOUS
<1> DEFINE json == (quote \o written) \o quote
<1>4. json = JsonString(text)
  BY <1>1, <1>2, <1>3, Zenon DEF JsonString, EscapedParts, Escaped
<1>5. json \in Seq(S)
  BY <1>3, QuotesAround
<1>6. Len(json) = Len(written) + 2
  BY <1>3, QuotesAround
<1>7. json[1] = c
  BY <1>3, QuotesAround
<1>8. json[Len(written) + 2] = c
  BY <1>3, QuotesAround
<1>9. \A m \in 1 .. Len(written) : json[m + 1] = written[m]
  BY <1>3, QuotesAround
<1> HIDE DEF json
<1>10. InQuotes(json, written)
  BY <1>2, <1>6, <1>7, <1>8, <1>9, Zenon DEF InQuotes
<1> QED BY <1>1, <1>4, <1>5, <1>10

LEMMA StringIsRead ==
    ASSUME NEW S, Marked(S), NEW front \in Seq(S), NEW text \in Seq(S),
           NEW line, line = front \o JsonString(text)
    PROVE  /\ line \in Seq(S) /\ Len(line) >= Len(front) + 2 /\ line[Len(front) + 1] = "\""
           /\ Continues(front, line)
           /\ ReadBack(line, Len(front) + 2, text, Len(line) + 1)
<1>1. PICK written \in Seq(S), json \in Seq(S) :
          written = FlattenSeq(EscapedParts(text)) /\ json = JsonString(text) /\ InQuotes(json, written)
  BY JsonStringIs
<1>2. PICK a \in Nat, m \in Nat : a = Len(front) /\ m = Len(written)
  OBVIOUS
<1>10. PICK c : c = "\""
  OBVIOUS
<1>11. /\ Len(json) = m + 2 /\ json[1] = c /\ json[m + 2] = c
       /\ \A k \in 1 .. m : json[k + 1] = written[k]
  BY <1>1, <1>2, <1>10, Zenon DEF InQuotes
<1>3. /\ line \in Seq(S) /\ Len(line) = a + (m + 2) /\ Continues(front, line)
      /\ \A k \in 1 .. m + 2 : line[a + k] = json[k]
  <2>1. line = front \o json
    BY <1>1
  <2>2. line \in Seq(S) /\ Len(line) = Len(front) + Len(json) /\ Continues(front, line)
    BY <2>1, Extended
  <2>3. \A k \in 1 .. Len(json) : line[Len(front) + k] = json[k]
    BY <2>1, Extended
  <2> QED BY <1>2, <1>11, <2>2, <2>3
<1>4. line[a + 1] = c /\ line[a + (m + 2)] = c /\ \A k \in 1 .. m : line[a + (k + 1)] = written[k]
  <2>1. 1 \in 1 .. m + 2 /\ m + 2 \in 1 .. m + 2 /\ \A k \in 1 .. m : k + 1 \in 1 .. m + 2
    OBVIOUS
  <2> QED BY <1>11, <1>3, <2>1
<1>5. Has(line, a + 2, written)
  <2>1. \A k \in 1 .. m : a + 2 - 1 + k = a + (k + 1)
    OBVIOUS
  <2>2. \A k \in 1 .. m : line[a + 2 - 1 + k] = written[k]
    BY <1>4, <2>1
  <2>3. a + 2 + m <= a + (m + 2) + 1
    OBVIOUS
  <2> QED BY <1>2, <1>3, <2>2, <2>3 DEF Has
<1>6. ClosedAt(line, a + 2, written)
  <2>1. a + 2 + m = a + (m + 2) /\ a + 2 + m <= a + (m + 2)
    OBVIOUS
  <2>2. line[a + 2 + m] = c /\ a + 2 + m <= Len(line)
    BY <1>3, <1>4, <2>1
  <2> QED BY <1>2, <1>5, <1>10, <2>2, Zenon DEF ClosedAt
<1>7. ReadBack(line, a + 2, text, a + 2 + Len(written) + 1)
  <2>1. a + 2 \in 1 .. Len(line)
    BY <1>3
  <2> DEFINE i == a + 2
  <2>2. i \in 1 .. Len(line) /\ ClosedAt(line, i, written)
    BY <1>6, <2>1
  <2> HIDE DEF i
  <2>3. ReadBack(line, i, text, i + Len(written) + 1)
    BY <1>1, <1>3, <2>2, EscapedIsRead
  <2> QED BY <2>3 DEF i
<1>8. a + 2 + Len(written) + 1 = Len(line) + 1 /\ Len(line) >= a + 2
  BY <1>2, <1>3
<1> QED BY <1>2, <1>3, <1>4, <1>7, <1>8, <1>10
-----------------------------------------------------------------------------
(* A pair is read back. *)

Pair(key, value) == [key |-> key, value |-> value]
IsKey(key) == key # <<>> /\ key[1] \in Letter /\ \A i \in 1 .. Len(key) : key[i] \in KeyContinue
Read(s, pair) == PairAt(s, 1) = {[pairs |-> <<pair>>, next |-> Len(s) + 1]}

\* A line that is one pair.
LEMMA OnePair ==
    ASSUME NEW S, Marked(S), NEW s \in Seq(S), Len(s) > 0, s[1] \in Letter,
           NEW pair \in KeyValues(S), Read(s, pair)
    PROVE  ParsePairs(s) = {<<pair>>}
<1>1. {"t", "r", "u", "e"} \subseteq S
  BY DEF Marked
<1>2. PICK n \in Nat \ {0} : n = Len(s)
  OBVIOUS
<1>3. PICK scan : IsScan(s, scan) /\ ParsePairs(s) = scan[1]
  BY <1>1, ParseIs
<1>4. s[1] \notin Space
  BY CharactersAssumption
<1> DEFINE t == [pairs |-> <<pair>>, next |-> n + 1]
<1>5. scan[1] = UNION {After(u, scan) : u \in PairAt(s, 1)}
  <2>1. 1 \in 1 .. Len(s) + 1 /\ 1 <= Len(s)
    BY <1>2
  <2>2. scan[1] = ScanFrom(s, scan, 1)
    BY <1>3, <2>1 DEF IsScan
  <2> QED BY <1>4, <2>1, <2>2, ScanCases
<1>6. PairAt(s, 1) = {t}
  BY <1>2 DEF Read
<1>7. scan[n + 1] = {<<>>}
  BY <1>1, <1>2, <1>3, ScanTyped
<1>8. After(t, scan) = {<<pair>>}
  <2>1. t.pairs = <<pair>> /\ t.next = n + 1
    OBVIOUS
  <2>2. <<pair>> \o <<>> = <<pair>>
    <3>1. <<pair>> \in Seq(KeyValues(S))
      OBVIOUS
    <3> QED BY <3>1, ConcatEmptySeq
  <2> HIDE DEF t
  <2>3. After(t, scan) = {<<pair>> \o rest : rest \in {<<>>}}
    BY <1>7, <2>1 DEF After
  <2> QED BY <2>2, <2>3
<1> HIDE DEF t
<1>9. scan[1] = After(t, scan)
  BY <1>5, <1>6
<1> QED BY <1>3, <1>8, <1>9

\* A key that ends at a character that keys have not.
LEMMA KeyEnds ==
    ASSUME NEW S, NEW key \in Seq(S), IsKey(key), NEW s \in Seq(S), Continues(key, s),
           Len(key) < Len(s) => s[Len(key) + 1] \notin KeyContinue
    PROVE  /\ Len(s) > 0 /\ s[1] \in Letter /\ RunEnd(s, 1, KeyContinue) = Len(key) + 1
           /\ SubSeq(s, 1, Len(key)) = key
<1>1. PICK a \in Nat \ {0}, n \in Nat : a = Len(key) /\ n = Len(s)
  <2>1. Len(key) \in Nat /\ Len(s) \in Nat /\ Len(key) # 0
    BY EmptySeq DEF IsKey
  <2> QED BY <2>1
<1>2. a <= n /\ \A j \in 1 .. a : s[j] = key[j]
  BY <1>1 DEF Continues
<1>3. s[1] \in Letter /\ \A j \in 1 .. a : s[j] \in KeyContinue
  BY <1>1, <1>2 DEF IsKey
<1>4. PICK stop \in 1 .. n + 1 : /\ stop = RunEnd(s, 1, KeyContinue)
                                 /\ stop <= n => s[stop] \notin KeyContinue
                                 /\ \A j \in 1 .. stop - 1 : s[j] \in KeyContinue
  <2>1. 1 \in 1 .. Len(s) + 1
    BY <1>1
  <2> QED BY <1>1, <2>1, RunEndIs
<1>5. ~(stop <= a)
  BY <1>2, <1>3, <1>4
<1>6. ~(stop > a + 1)
  <2>1. stop > a + 1 => a + 1 \in 1 .. stop - 1 /\ a < n
    BY <1>2
  <2> QED BY <1>1, <1>4, <2>1
<1>7. stop = a + 1
  BY <1>5, <1>6
<1>8. SubSeq(s, 1, a) = key
  <2>1. SubSeq(s, 1, a) \in Seq(S) /\ Len(SubSeq(s, 1, a)) = a /\ \A j \in 1 .. a : SubSeq(s, 1, a)[j] = s[j]
    BY <1>1, <1>2
  <2> QED BY <1>1, <1>2, <2>1
<1> QED BY <1>1, <1>2, <1>3, <1>4, <1>7, <1>8

\* The token of a line that begins with a letter, by the end of its key.
LEMMA PairFound ==
    ASSUME NEW s, s[1] \in Letter, NEW stop, stop = RunEnd(s, 1, KeyContinue), NEW key, key = SubSeq(s, 1, stop - 1)
    PROVE  /\ AtWordEnd(s, stop) => PairAt(s, 1) = Keyed(key, {[text |-> True, next |-> stop]})
           /\ ~AtWordEnd(s, stop) /\ s[stop] = "=" => PairAt(s, 1) = Keyed(key, ValueAt(s, stop + 1))
<1>1. ASSUME AtWordEnd(s, stop) PROVE PairAt(s, 1) = Keyed(key, {[text |-> True, next |-> stop]})
  BY <1>1, SMT DEF PairAt, KeyStart, Keyed
<1>2. ASSUME ~AtWordEnd(s, stop), s[stop] = "=" PROVE PairAt(s, 1) = Keyed(key, ValueAt(s, stop + 1))
  BY <1>2, SMT DEF PairAt, KeyStart, Keyed
<1> QED BY <1>1, <1>2

LEMMA KeyedOne ==
    ASSUME NEW key, NEW text, NEW next
    PROVE  Keyed(key, {[text |-> text, next |-> next]}) = {[pairs |-> <<Pair(key, text)>>, next |-> next]}
BY SMT DEF Keyed, Pair

LEMMA TrueTyped == ASSUME NEW S, Marked(S) PROVE True \in Seq(S)
<1>1. {"t", "r", "u", "e"} \subseteq S
  BY Zenon DEF Marked
<1> QED BY <1>1 DEF True

LEMMA FlagParsed ==
    ASSUME NEW S, Marked(S), NEW key \in Seq(S), IsKey(key)
    PROVE  ParsePairs(key) = {<<Pair(key, True)>>}
<1>1. Len(key) > 0 /\ key[1] \in Letter /\ RunEnd(key, 1, KeyContinue) = Len(key) + 1
      /\ SubSeq(key, 1, Len(key)) = key
  <2>1. Continues(key, key)
    BY DEF Continues
  <2> QED BY <2>1, KeyEnds
<1>2. PICK n \in Nat, stop \in Nat : n = Len(key) /\ stop = n + 1 /\ stop - 1 = n
  OBVIOUS
<1>3. AtWordEnd(key, stop)
  BY <1>2 DEF AtWordEnd
<1>4. PairAt(key, 1) = Keyed(key, {[text |-> True, next |-> stop]})
  BY <1>1, <1>2, <1>3, PairFound
<1>5. Read(key, Pair(key, True))
  <2>1. Keyed(key, {[text |-> True, next |-> stop]}) = {[pairs |-> <<Pair(key, True)>>, next |-> stop]}
    BY KeyedOne
  <2> QED BY <1>2, <1>4, <2>1, Zenon DEF Read
<1>6. Pair(key, True) \in KeyValues(S)
  BY TrueTyped DEF Pair, KeyValues
<1> QED BY <1>1, <1>5, <1>6, OnePair

LEMMA KeptTyped ==
    ASSUME NEW S, Marked(S), NEW text \in Seq(S)
    PROVE  Kept(text) \in Seq(S)
<1>1. PICK parts \in Seq(Seq(S)) : parts = KeptParts(text)
  BY EscapedTyped
<1>2. PICK pre : JoinedSoFar(S, parts, pre) /\ FlattenSeq(parts) = pre[Len(parts)]
  BY FlattenIs
<1>3. Len(parts) \in 0 .. Len(parts)
  OBVIOUS
<1>4. pre[Len(parts)] \in Seq(S)
  BY <1>2, <1>3 DEF JoinedSoFar
<1> QED BY <1>1, <1>2, <1>4, KeptIs

LEMMA Opened ==
    ASSUME NEW S, NEW c \in S, NEW key \in Seq(S), NEW front, front = key \o <<c>>
    PROVE  front \in Seq(S) /\ Len(front) = Len(key) + 1 /\ Continues(key, front) /\ front[Len(key) + 1] = c
<1>1. PICK one \in Seq(S) : one = <<c>> /\ Len(one) = 1 /\ one[1] = c
  BY OneIs
<1>2. front = key \o one
  BY <1>1
<1>3. front \in Seq(S) /\ Len(front) = Len(key) + Len(one) /\ Continues(key, front)
  BY <1>2, Extended
<1>4. \A m \in 1 .. Len(one) : front[Len(key) + m] = one[m]
  BY <1>2, Extended
<1> QED BY <1>1, <1>3, <1>4

Gives(line, key, value) == ParsePairs(line) = {<<Pair(key, Kept(value))>>}

LEMMA WrittenParsed ==
    ASSUME NEW S, Marked(S), NEW key \in Seq(S), IsKey(key), NEW value \in Seq(S), NEW pair, pair = Pair(key, value),
           NEW line, line = Written(pair)
    PROVE  line \in Seq(S) /\ Gives(line, key, value) /\ Len(line) > 0 /\ line[1] \in Letter
<1>1. PICK c \in S : c = "="
  BY Zenon DEF Marked
<1>2. PICK front : front = key \o <<c>>
  OBVIOUS
<1>3. front \in Seq(S) /\ Len(front) = Len(key) + 1 /\ Continues(key, front) /\ front[Len(key) + 1] = c
  BY <1>2, Opened
<1>4. line = front \o JsonString(value)
  <2>1. pair.key = key /\ pair.value = value
    BY DEF Pair
  <2> QED BY <1>1, <1>2, <2>1, Zenon DEF Written
<1>5. PICK a \in Nat, n \in Nat : a = Len(key) /\ n = Len(line) /\ a + 1 = Len(front)
  <2>1. line \in Seq(S)
    BY <1>3, <1>4, StringIsRead
  <2> QED BY <1>3, <2>1
<1>6. line \in Seq(S)
  BY <1>3, <1>4, StringIsRead
<1>7. n >= a + 3
  <2>1. Len(line) >= Len(front) + 2
    BY <1>3, <1>4, StringIsRead
  <2> QED BY <1>5, <2>1
<1>8. PICK q : q = "\"" /\ line[a + 2] = q
  <2>1. line[Len(front) + 1] = "\""
    BY <1>3, <1>4, StringIsRead
  <2>2. Len(front) + 1 = a + 2
    BY <1>5
  <2> QED BY <2>1, <2>2
<1>9. Continues(front, line)
  BY <1>3, <1>4, StringIsRead
<1>10. ReadBack(line, a + 3, value, n + 1)
  <2>1. ReadBack(line, Len(front) + 2, value, Len(line) + 1)
    BY <1>3, <1>4, StringIsRead
  <2>2. Len(front) + 2 = a + 3
    BY <1>5
  <2> QED BY <1>5, <2>1, <2>2
<1>11. Continues(key, line) /\ line[a + 1] = c
  <2>1. Continues(key, line)
    BY <1>3, <1>6, <1>9, ContinuesOn
  <2>2. line[a + 1] = front[a + 1]
    BY <1>5, <1>9 DEF Continues
  <2> QED BY <1>3, <1>5, <2>1, <2>2
<1>12. c \notin KeyContinue /\ c \notin Space
  BY <1>1, CharactersAssumption DEF KeyContinue
<1>13. Len(line) > 0 /\ line[1] \in Letter /\ RunEnd(line, 1, KeyContinue) = a + 1 /\ SubSeq(line, 1, a) = key
  BY <1>5, <1>6, <1>11, <1>12, KeyEnds
<1>14. PICK stop \in Nat : stop = a + 1 /\ stop - 1 = a /\ stop + 1 = a + 2 /\ (a + 2) + 1 = a + 3
  OBVIOUS
<1>15. ~AtWordEnd(line, stop) /\ line[stop] = c
  BY <1>5, <1>7, <1>11, <1>12, <1>14 DEF AtWordEnd
<1>16. PairAt(line, 1) = Keyed(key, ValueAt(line, a + 2))
  <2>1. line[stop] = "="
    BY <1>1, <1>15
  <2>2. key = SubSeq(line, 1, stop - 1) /\ stop = RunEnd(line, 1, KeyContinue)
    BY <1>13, <1>14
  <2>3. PairAt(line, 1) = Keyed(key, ValueAt(line, stop + 1))
    BY <1>13, <1>15, <2>1, <2>2, PairFound, Zenon
  <2> QED BY <1>14, <2>3
<1>17. ValueAt(line, a + 2) = {[text |-> Kept(value), next |-> n + 1]}
  <2>1. At(line, a + 2, {"\""})
    <3>1. a + 2 <= Len(line)
      BY <1>5, <1>7
    <3> QED BY <1>8, <3>1, Zenon DEF At
  <2>2. ValueAt(line, a + 2) = ReadQuotedValue(line, (a + 2) + 1)
    BY <2>1, Zenon DEF ValueAt
  <2> QED BY <1>10, <1>14, <2>2 DEF ReadBack
<1>18. Read(line, Pair(key, Kept(value)))
  <2>1. Keyed(key, {[text |-> Kept(value), next |-> n + 1]}) = {[pairs |-> <<Pair(key, Kept(value))>>, next |-> n + 1]}
    BY KeyedOne
  <2> QED BY <1>5, <1>16, <1>17, <2>1, Zenon DEF Read
<1>19. Pair(key, Kept(value)) \in KeyValues(S)
  BY KeptTyped DEF Pair, KeyValues
<1> QED BY <1>6, <1>13, <1>18, <1>19, OnePair DEF Gives

Spaced(back, rest) ==
    Len(rest) = Len(back) + 1 /\ rest[1] \in Space /\ \A m \in 1 .. Len(back) : rest[m + 1] = back[m]
FoundBehind(s, f, back) == ParsePairs(s) = Before(f, ParsePairs(back))

LEMMA JoinedParsed ==
    ASSUME NEW S, {"t", "r", "u", "e"} \subseteq S, NEW front \in Seq(S), NEW back \in Seq(S), NEW rest \in Seq(S),
           Spaced(back, rest), NEW s, s = front \o rest, NEW f \in ParsePairs(front)
    PROVE  s \in Seq(S) /\ FoundBehind(s, f, back)
<1>0. Len(rest) = Len(back) + 1 /\ rest[1] \in Space /\ \A m \in 1 .. Len(back) : rest[m + 1] = back[m]
  BY DEF Spaced
<1>1. PICK a \in Nat, b \in Nat : a = Len(front) /\ b = Len(back)
  OBVIOUS
<1>2. /\ s \in Seq(S) /\ Len(s) = a + (b + 1) /\ Continues(front, s)
      /\ \A m \in 1 .. b + 1 : s[a + m] = rest[m]
  <2>1. s \in Seq(S) /\ Len(s) = Len(front) + Len(rest) /\ Continues(front, s)
    BY Extended
  <2>2. \A m \in 1 .. Len(rest) : s[Len(front) + m] = rest[m]
    BY Extended
  <2> QED BY <1>0, <1>1, <2>1, <2>2
<1>3. PICK i \in Nat : i = a + 1 /\ i - 1 = a /\ i \in 1 .. Len(s) /\ Len(s) = i + b
  <2>1. a + 1 \in 1 .. a + (b + 1) /\ a + (b + 1) = (a + 1) + b /\ a + 1 - 1 = a
    OBVIOUS
  <2> QED BY <1>2, <2>1
<1>4. s[i] \in Space
  <2>1. 1 \in 1 .. b + 1
    OBVIOUS
  <2>2. s[a + 1] = rest[1]
    BY <1>2, <2>1
  <2> QED BY <1>0, <1>3, <2>2
<1>5. SubSeq(s, 1, i - 1) = front
  <2>1. 1 \in Nat /\ a <= Len(s) /\ \A j \in 1 .. a : s[j] = front[j]
    BY <1>1, <1>2 DEF Continues
  <2>2. SubSeq(s, 1, a) \in Seq(S) /\ Len(SubSeq(s, 1, a)) = a /\ \A j \in 1 .. a : SubSeq(s, 1, a)[j] = s[j]
    BY <1>1, <1>2, <2>1
  <2> QED BY <1>1, <1>3, <2>1, <2>2
<1>6. SubSeq(s, i + 1, Len(s)) = back
  <2> DEFINE u == SubSeq(s, i + 1, Len(s))
  <2>1. \A m \in 1 .. b : m + 1 \in 1 .. b + 1 /\ a + (m + 1) = m + i
    BY <1>3
  <2>2. \A m \in 1 .. b : s[m + i] = back[m]
    BY <1>0, <1>1, <1>2, <2>1
  <2>4. u \in Seq(S) /\ Len(u) = b /\ \A m \in 1 .. b : u[m] = s[m + i]
    <3>1. PICK n \in Nat : n = Len(s) /\ i \in 1 .. n /\ n - i = b
      BY <1>3
    <3>2. s \in Seq(S)
      BY <1>2
    <3>3. u \in Seq(S) /\ Len(u) = n - i /\ \A m \in 1 .. n - i : u[m] = s[m + i]
      BY <3>1, <3>2
    <3> QED BY <3>1, <3>3
  <2> HIDE DEF u
  <2>5. \A m \in 1 .. b : u[m] = back[m]
    BY <2>2, <2>4
  <2>6. u = back
    <3>1. Len(u) = Len(back) /\ \A m \in 1 .. Len(back) : u[m] = back[m]
      BY <1>1, <2>4, <2>5
    <3> QED BY <2>4, <3>1, SeqEqual
  <2> QED BY <2>6 DEF u
<1>7. f \in ParsePairs(SubSeq(s, 1, i - 1))
  BY <1>5
<1>8. ParsePairs(s) = Before(f, ParsePairs(SubSeq(s, i + 1, Len(s))))
  BY <1>2, <1>3, <1>4, <1>7, ParsedApart
<1> QED BY <1>2, <1>6, <1>8 DEF FoundBehind

LEMMA BeforeOne ==
    ASSUME NEW f, NEW g
    PROVE  Before(f, {g}) = {f \o g}
BY DEF Before

InARow(f, g) == <<f>> \o <<g>> = <<f, g>>
LEMMA TwoInARow == ASSUME NEW f, NEW g PROVE InARow(f, g)
<1>1. PICK one \in Seq({f, g}), other \in Seq({f, g}) :
        one = <<f>> /\ other = <<g>> /\ Len(one) = 1 /\ Len(other) = 1 /\ one[1] = f /\ other[1] = g
  <2> DEFINE T == {f, g}
  <2>1. f \in T /\ g \in T
    OBVIOUS
  <2> HIDE DEF T
  <2>2. <<f>> \in Seq(T) /\ Len(<<f>>) = 1 /\ <<f>>[1] = f
    BY <2>1, OneIs
  <2>3. <<g>> \in Seq(T) /\ Len(<<g>>) = 1 /\ <<g>>[1] = g
    BY <2>1, OneIs
  <2> QED BY <2>2, <2>3, Zenon DEF T
<1>2. PICK both : both = one \o other
  OBVIOUS
<1>3. both \in Seq({f, g}) /\ Len(both) = 2 /\ both[1] = f /\ both[2] = g
  <2>1. both \in Seq({f, g}) /\ Len(both) = Len(one) + Len(other) /\ Continues(one, both)
    BY <1>2, Extended
  <2>2. \A m \in 1 .. Len(other) : both[Len(one) + m] = other[m]
    BY <1>2, Extended
  <2>3. 1 \in 1 .. Len(other) /\ 1 \in 1 .. Len(one)
    BY <1>1
  <2>4. both[1] = one[1] /\ both[1 + 1] = other[1]
    BY <1>1, <2>1, <2>2, <2>3 DEF Continues
  <2> QED BY <1>1, <2>1, <2>4
<1>4. both = <<f, g>>
  BY <1>3
<1> QED BY <1>1, <1>2, <1>4, Zenon DEF InARow

\* What a logger quotes is read back as it was, but for line breaks, and does not
\* reach into what follows.
THEOREM QuotedIsReadBack == Spec => []QuotedReadsBack
<1>1. Typed => QuotedReadsBack
  <2> SUFFICES ASSUME Typed PROVE QuotedReadsBack
    OBVIOUS
  <2> DEFINE S == Sessions[session].alphabet \cup {"\\", "n", "\"", "=", " ", "a", "-", "t", "r", "u", "e"}
  <2>1. input \in Seq(S)
    <3>1. input \in Seq(Sessions[session].alphabet)
      BY DEF Typed
    <3>2. Sessions[session].alphabet \subseteq S
      BY Zenon
    <3> HIDE DEF S
    <3> QED BY <3>1, <3>2
  <2>2. Marked(S)
    BY Zenon DEF Marked
  <2>3. PICK a \in S, dash \in S, blank \in S : a = "a" /\ dash = "-" /\ blank = " "
    OBVIOUS
  <2>4. {"t", "r", "u", "e"} \subseteq S
    OBVIOUS
  <2> HIDE DEF S
  <2>5. a \in Letter /\ dash \in KeyContinue /\ a \in KeyContinue /\ blank \in Space
    BY <2>3, LinesAssumption DEF KeyContinue
  <2> DEFINE pair == Pair(<<a>>, input)
             line == Written(pair)
             flag == <<a, dash>>
             tail == <<blank, a, dash>>
             first == Pair(<<a>>, Kept(input))
             last == Pair(flag, True)
  <2>6. <<a>> \in Seq(S) /\ IsKey(<<a>>)
    BY <2>5 DEF IsKey
  <2>7. flag \in Seq(S) /\ IsKey(flag) /\ Len(flag) = 2 /\ flag[1] = a /\ flag[2] = dash
    BY <2>5 DEF IsKey
  <2>8. tail \in Seq(S) /\ Len(tail) = 3 /\ tail[1] = blank /\ tail[2] = a /\ tail[3] = dash
    OBVIOUS
  <2>9. line \in Seq(S) /\ ParsePairs(line) = {<<first>>}
    <3>1. PICK p, l : p = Pair(<<a>>, input) /\ l = Written(p) /\ p = pair /\ l = line
      BY Zenon
    <3>2. l \in Seq(S)
      BY <2>1, <2>2, <2>6, <3>1, WrittenParsed
    <3>3. Gives(l, <<a>>, input)
      BY <2>1, <2>2, <2>6, <3>1, WrittenParsed
    <3> QED BY <3>1, <3>2, <3>3, Zenon DEF Gives
  <2> HIDE DEF flag
  <2>10. ParsePairs(flag) = {<<last>>}
    BY <2>2, <2>7, FlagParsed
  <2> HIDE DEF tail, line, first, last
  <2>11. \A m \in 1 .. Len(flag) : tail[m + 1] = flag[m]
    <3>1. \A m \in 1 .. 2 : m = 1 \/ m = 2
      OBVIOUS
    <3> QED BY <2>7, <2>8, <3>1
  <2>12. Len(tail) = Len(flag) + 1
    BY <2>7, <2>8
  <2>13. ParsePairs(line \o tail) = Before(<<first>>, {<<last>>})
    <3>1. <<first>> \in ParsePairs(line)
      BY <2>9
    <3>2. PICK s : s = line \o tail
      OBVIOUS
    <3>3. ParsePairs(s) = Before(<<first>>, ParsePairs(flag))
      <4>1. tail[1] \in Space
        BY <2>5, <2>8
      <4>2. line \in Seq(S) /\ tail \in Seq(S) /\ flag \in Seq(S)
        BY <2>7, <2>8, <2>9
      <4>3. PICK f : f = <<first>> /\ f \in ParsePairs(line)
        BY <3>1
      <4>4. Spaced(flag, tail)
        BY <2>11, <2>12, <4>1 DEF Spaced
      <4>5. FoundBehind(s, f, flag)
        BY <2>4, <3>2, <4>2, <4>3, <4>4, JoinedParsed
      <4> QED BY <4>3, <4>5 DEF FoundBehind
    <3> QED BY <2>10, <3>2, <3>3
  <2>14. ParsePairs(line \o tail) = {<<first>> \o <<last>>}
    BY <2>13, BeforeOne
  <2>15. <<first>> \o <<last>> = <<first, last>>
    BY TwoInARow, Zenon DEF InARow
  <2>16. ParsePairs(Written([key |-> <<"a">>, value |-> input]) \o <<" ", "a", "-">>) =
             {<<[key |-> <<"a">>, value |-> Kept(input)], [key |-> <<"a", "-">>, value |-> True]>>}
    BY <2>3, <2>14, <2>15, Zenon DEF line, tail, first, last, flag, Pair
  <2>17. [[key |-> <<"a">>, value |-> input] EXCEPT !.value = Kept(@)] = [key |-> <<"a">>, value |-> Kept(input)]
    OBVIOUS
  <2> QED BY <2>16, <2>17, Zenon DEF QuotedReadsBack
<1> QED BY <1>1, InputTyped, PTL

-----------------------------------------------------------------------------
(* Entries. *)

Lifted(members, key) == key \in KnownKeys /\ key \in DOMAIN members /\ IsScalar(members[key])

LEMMA PromotedIs ==
    ASSUME NEW line, NEW members, NEW entry, entry = Promoted(line, members), NEW key
    PROVE  /\ key \in KnownKeys /\ Lifted(members, key) => entry.known[key] = {members[key].text}
           /\ key \in KnownKeys /\ ~Lifted(members, key) => entry.known[key] = {}
           /\ key \in DOMAIN entry.fields <=> key \in DOMAIN members /\ ~Lifted(members, key)
           /\ key \in DOMAIN members /\ ~Lifted(members, key) => entry.fields[key] = members[key]
<1> DEFINE lifted == {k \in KnownKeys \cap DOMAIN members : IsScalar(members[k])}
           known == [k \in KnownKeys |-> IF k \in lifted THEN {members[k].text} ELSE {}]
           fields == Restrict(members, DOMAIN members \ lifted)
<1>1. entry.known = known /\ entry.fields = fields
  BY DEF Promoted
<1>2. key \in lifted <=> Lifted(members, key)
  BY DEF Lifted
<1> HIDE DEF lifted
<1>3. DOMAIN fields = DOMAIN members \ lifted
  BY DEF Restrict
<1>4. key \in DOMAIN members \ lifted => fields[key] = members[key]
  BY DEF Restrict
<1>5. key \in KnownKeys => known[key] = IF key \in lifted THEN {members[key].text} ELSE {}
  OBVIOUS
<1> HIDE DEF known, fields
<1> QED BY <1>1, <1>2, <1>3, <1>4, <1>5

LEMMA LineIs ==
    ASSUME NEW text, NEW json, NEW line, line = Line(text, json)
    PROVE  /\ line.text = text /\ line.json = json
           /\ IsBlank(line) <=> Range(text) \subseteq Space \cup WideSpace
BY DEF Line, IsBlank

LEMMA LineParsed ==
    ASSUME NEW line
    PROVE  /\ \A format \in {"json", "logfmt", "plain"} : IsBlank(line) => ParseLine(format, line) = {}
           /\ ~IsBlank(line) => ParseLine("json", line) = ParseJson(line)
           /\ ~IsBlank(line) => ParseLine("logfmt", line) = ParseLogfmt(line)
           /\ ~IsBlank(line) => ParseLine("plain", line) = ParsePlain(line)
<1>1. ASSUME NEW format, IsBlank(line) PROVE ParseLine(format, line) = {}
  BY <1>1, Zenon DEF ParseLine
<1>2. "json" # "logfmt" /\ "json" # "plain" /\ "logfmt" # "plain"
  OBVIOUS
<1>3. ASSUME ~IsBlank(line) PROVE ParseLine("json", line) = ParseJson(line)
  BY <1>2, <1>3, Zenon DEF ParseLine
<1>4. ASSUME ~IsBlank(line) PROVE ParseLine("logfmt", line) = ParseLogfmt(line)
  BY <1>2, <1>4, Zenon DEF ParseLine
<1>5. ASSUME ~IsBlank(line) PROVE ParseLine("plain", line) = ParsePlain(line)
  BY <1>2, <1>5, Zenon DEF ParseLine
<1> QED BY <1>1, <1>3, <1>4, <1>5, Zenon

LEMMA PlainKeeps == Typed => PlainKeepsEveryLine
<1> SUFFICES ASSUME Typed PROVE PlainKeepsEveryLine
  OBVIOUS
<1> DEFINE line == Line(input, {})
           visible == Range(input) \ (Space \cup WideSpace)
<1>1. IsBlank(line) <=> visible = {}
  <2>1. IsBlank(line) <=> Range(input) \subseteq Space \cup WideSpace
    BY LineIs
  <2> QED BY <2>1
<1>2. line.text = input
  BY LineIs
<1> HIDE DEF line, visible
<1>3. ASSUME visible = {}, NEW format \in {"json", "logfmt", "plain"} PROVE ParseLine(format, line) = {}
  BY <1>1, <1>3, LineParsed
<1>4. ASSUME visible # {}
      PROVE  \E entry \in ParseLine("plain", line) :
               /\ entry.known[Message] = {input} /\ DOMAIN entry.fields = {}
               /\ \A key \in KnownKeys \ {Message} : entry.known[key] = {}
  <2> DEFINE value == String(input)
             pairs == <<[key |-> Message, value |-> value]>>
             members == Members(pairs)
             entry == Promoted(line, members)
  <2>1. entry \in ParseLine("plain", line)
    <3>1. ParseLine("plain", line) = ParsePlain(line)
      BY <1>1, <1>4, LineParsed
    <3> QED BY <1>2, <3>1, Zenon DEF ParsePlain
  <2>2. DOMAIN members = {Message} /\ members[Message] = value
    <3>1. DOMAIN pairs = {1} /\ pairs[1].key = Message /\ pairs[1].value = value
      OBVIOUS
    <3> HIDE DEF pairs, value
    <3>2. Range(pairs) = {pairs[1]}
      BY <3>1 DEF Range
    <3>3. {p.key : p \in Range(pairs)} = {Message}
      BY <3>1, <3>2
    <3>4. {i \in DOMAIN pairs : pairs[i].key = Message} = {1}
      BY <3>1
    <3>5. Max({1}) = 1
      BY DEF Max
    <3> QED BY <3>1, <3>3, <3>4, <3>5 DEF Members
  <2>3. IsScalar(value) /\ value.text = input
    BY DEF String, Scalar, IsScalar
  <2>4. Message \in KnownKeys
    BY DEF KnownKeys
  <2> HIDE DEF members, value
  <2>5. Lifted(members, Message)
    BY <2>2, <2>3, <2>4 DEF Lifted
  <2>6. \A key : key # Message => ~Lifted(members, key)
    BY <2>2 DEF Lifted
  <2>7. PICK e : e = entry
    OBVIOUS
  <2>8. e.known[Message] = {input}
    BY <2>2, <2>3, <2>4, <2>5, <2>7, PromotedIs
  <2>9. ASSUME NEW key PROVE key \notin DOMAIN e.fields
    BY <2>2, <2>5, <2>7, PromotedIs
  <2>10. ASSUME NEW key \in KnownKeys \ {Message} PROVE e.known[key] = {}
    BY <2>6, <2>7, PromotedIs
  <2> QED BY <2>1, <2>7, <2>8, <2>9, <2>10
<1> QED BY <1>3, <1>4 DEF PlainKeepsEveryLine, line, visible

-----------------------------------------------------------------------------
(* Records. *)

LEMMA MaxIs ==
    ASSUME NEW n \in Nat, NEW T \in SUBSET (1 .. n), T # {}
    PROVE  Max(T) \in T /\ \A y \in T : y <= Max(T)
<1> DEFINE U == {n - x : x \in T}
<1>1. U \in SUBSET Nat /\ U # {}
  <2>1. \A x \in T : x \in 1 .. n
    OBVIOUS
  <2>2. \A x \in T : n - x \in Nat
    BY <2>1
  <2> QED BY <2>2
<1>2. PICK u \in U : \A v \in U : u <= v
  BY <1>1, Smallest
<1>3. PICK x \in T : u = n - x
  BY <1>2
<1>4. \A y \in T : y <= x
  <2> TAKE y \in T
  <2>1. n - y \in U /\ y \in 1 .. n /\ x \in 1 .. n
    OBVIOUS
  <2>2. n - x <= n - y
    BY <1>2, <1>3, <2>1
  <2> QED BY <2>1, <2>2
<1> QED BY <1>3, <1>4 DEF Max

\* The last pair with its key.
LastWith(pairs, i) == i \in 1 .. Len(pairs) /\ \A j \in 1 .. Len(pairs) : j > i => pairs[j].key # pairs[i].key

LEMMA MembersAre ==
    ASSUME NEW T, NEW pairs \in Seq(T), NEW members, members = Members(pairs)
    PROVE  /\ \A i : LastWith(pairs, i) => pairs[i].key \in DOMAIN members /\ members[pairs[i].key] = pairs[i].value
           /\ \A key \in DOMAIN members : \E i : LastWith(pairs, i) /\ pairs[i].key = key
<1>1. PICK n \in Nat : n = Len(pairs) /\ DOMAIN pairs = 1 .. n
  OBVIOUS
<1> DEFINE places(key) == {i \in DOMAIN pairs : pairs[i].key = key}
           keys == {p.key : p \in Range(pairs)}
<1>2. members = [key \in keys |-> pairs[Max(places(key))].value]
  BY DEF Members
<1>3. \A i \in 1 .. n : pairs[i].key \in keys
  BY <1>1 DEF Range
<1>4. \A key \in keys : \E i \in 1 .. n : pairs[i].key = key
  BY <1>1 DEF Range
<1> HIDE DEF keys
<1>5. DOMAIN members = keys /\ \A key \in keys : members[key] = pairs[Max(places(key))].value
  BY <1>2
<1>6. ASSUME NEW i, LastWith(pairs, i)
      PROVE  pairs[i].key \in DOMAIN members /\ members[pairs[i].key] = pairs[i].value
  <2>1. i \in 1 .. n /\ \A j \in 1 .. n : j > i => pairs[j].key # pairs[i].key
    BY <1>1, <1>6 DEF LastWith
  <2> DEFINE T0 == places(pairs[i].key)
  <2>2. i \in T0 /\ T0 \in SUBSET (1 .. n) /\ (\A j \in T0 : j <= i)
    BY <1>1, <2>1
  <2> HIDE DEF T0
  <2>3. Max(T0) \in T0 /\ i <= Max(T0)
    BY <1>1, <2>2, MaxIs
  <2>4. Max(T0) = i
    <3>1. PICK m \in 1 .. n : m = Max(T0) /\ m <= i /\ i <= m
      BY <2>2, <2>3
    <3> QED BY <2>1, <3>1
  <2> QED BY <1>3, <1>5, <2>1, <2>4 DEF T0
<1>7. ASSUME NEW key \in DOMAIN members PROVE \E i : LastWith(pairs, i) /\ pairs[i].key = key
  <2> DEFINE T0 == places(key)
  <2>1. PICK i \in 1 .. n : pairs[i].key = key
    BY <1>4, <1>5
  <2>2. i \in T0 /\ T0 \in SUBSET (1 .. n) /\ (\A j \in 1 .. n : pairs[j].key = key => j \in T0)
        /\ \A j \in T0 : pairs[j].key = key
    BY <1>1, <2>1
  <2> HIDE DEF T0
  <2>3. PICK m \in T0 : m = Max(T0) /\ \A y \in T0 : y <= m
    BY <1>1, <2>2, MaxIs
  <2>4. m \in 1 .. n /\ pairs[m].key = key
    BY <2>2
  <2>5. \A j \in 1 .. n : j > m => pairs[j].key # pairs[m].key
    <3> TAKE j \in 1 .. n
    <3>1. j > m => ~(j <= m)
      BY <2>4
    <3> QED BY <2>2, <2>3, <2>4, <3>1
  <2> QED BY <1>1, <2>4, <2>5 DEF LastWith
<1> QED BY <1>6, <1>7

OneRead(lines, read) == Len(read) = Len(lines) /\ \A i \in 1 .. Len(lines) : ParsePairs(lines[i]) = {<<read[i]>>}
ReadsAs(text, read) == ParsePairs(text) = {read}

LEMMA OneMore ==
    ASSUME NEW T, NEW read \in Seq(T), NEW k \in 1 .. Len(read) - 1, NEW front, front = SubSeq(read, 1, k),
           NEW more, more = SubSeq(read, 1, k + 1)
    PROVE  more = front \o <<read[k + 1]>>
<1>1. PICK n \in Nat : n = Len(read) /\ k \in 1 .. n - 1 /\ k + 1 \in 1 .. n
  OBVIOUS
<1>2. PICK last \in T : last = read[k + 1]
  BY <1>1
<1>3. front \in Seq(T) /\ Len(front) = k /\ \A j \in 1 .. k : front[j] = read[j]
  BY <1>1
<1>4. more \in Seq(T) /\ Len(more) = k + 1 /\ \A j \in 1 .. k + 1 : more[j] = read[j]
  BY <1>1
<1>5. PICK grown : grown = front \o <<last>>
  OBVIOUS
<1>6. grown \in Seq(T) /\ Len(grown) = k + 1 /\ Continues(front, grown) /\ grown[k + 1] = last
  <2>1. Len(grown) = Len(front) + 1 /\ grown[Len(front) + 1] = last
    BY <1>3, <1>5, Opened
  <2>2. grown \in Seq(T)
    BY <1>3, <1>5, Opened
  <2>3. Continues(front, grown)
    BY <1>3, <1>5, Opened
  <2> QED BY <1>3, <2>1, <2>2, <2>3
<1>7. \A j \in 1 .. k + 1 : grown[j] = more[j]
  <2>1. \A j \in 1 .. k : grown[j] = front[j]
    BY <1>3, <1>6 DEF Continues
  <2>2. \A j \in 1 .. k + 1 : j \in 1 .. k \/ j = k + 1
    OBVIOUS
  <2> QED BY <1>2, <1>3, <1>4, <1>6, <2>1, <2>2
<1>8. grown = more
  BY <1>4, <1>6, <1>7, SeqEqual
<1> QED BY <1>2, <1>5, <1>8

LEMMA FirstOnly ==
    ASSUME NEW T, NEW read \in Seq(T), 1 \in 1 .. Len(read)
    PROVE  SubSeq(read, 1, 1) = <<read[1]>>
<1>1. PICK first \in T : first = read[1]
  OBVIOUS
<1>2. PICK one \in Seq(T) : one = <<first>> /\ Len(one) = 1 /\ one[1] = first
  BY OneIs
<1> DEFINE u == SubSeq(read, 1, 1)
<1>3. u \in Seq(T) /\ Len(u) = 1 /\ u[1] = first
  BY <1>1
<1> HIDE DEF u
<1>4. Len(u) = Len(one) /\ \A i \in 1 .. Len(u) : u[i] = one[i]
  <2>1. \A i \in 1 .. 1 : i = 1
    OBVIOUS
  <2> QED BY <1>2, <1>3, <2>1
<1>5. u = one
  BY <1>2, <1>3, <1>4, SeqEqual
<1> QED BY <1>1, <1>2, <1>5 DEF u

\* Lines that are one pair each, joined with a space.
LEMMA JoinedRead ==
    ASSUME NEW S, {"t", "r", "u", "e"} \subseteq S, NEW c \in S, c \in Space,
           NEW lines \in Seq(Seq(S)), Len(lines) > 0,
           NEW T, NEW read \in Seq(T), OneRead(lines, read),
           NEW text, text = Joined(lines, <<c>>)
    PROVE  text \in Seq(S) /\ ReadsAs(text, read) /\ Continues(lines[1], text)
<1>1. PICK n \in Nat : n = Len(lines) /\ n = Len(read) /\ n >= 1 /\ DOMAIN lines = 1 .. n
  BY DEF OneRead
<1> DEFINE parts == [i \in DOMAIN lines |-> IF i = 1 THEN lines[1] ELSE <<c>> \o lines[i]]
<1>2. text = FlattenSeq(parts)
  BY DEF Joined
<1>3. PICK sep \in Seq(S) : sep = <<c>> /\ Len(sep) = 1 /\ sep[1] = c
  BY OneIs
<1>4. \A i \in 1 .. n : lines[i] \in Seq(S)
  BY <1>1
<1>5. ASSUME NEW i \in 1 .. n, i # 1
      PROVE  parts[i] \in Seq(S) /\ Spaced(lines[i], parts[i])
  <2>8. PICK l \in Seq(S) : l = lines[i]
    BY <1>4
  <2>9. PICK r : r = sep \o l
    OBVIOUS
  <2>1. l = lines[i] /\ r = sep \o l
    BY <2>8, <2>9
  <2>2. parts[i] = r
    BY <1>1, <1>3, <1>5, <2>1
  <2>3. r \in Seq(S) /\ Len(r) = Len(sep) + Len(l) /\ Continues(sep, r)
    BY <2>1, Extended
  <2>4. \A m \in 1 .. Len(l) : r[Len(sep) + m] = l[m]
    BY <2>1, Extended
  <2>5. r[1] = c /\ Len(r) = Len(l) + 1
    BY <1>3, <2>1, <2>3 DEF Continues
  <2>6. \A m \in 1 .. Len(l) : 1 + m = m + 1
    OBVIOUS
  <2>7. \A m \in 1 .. Len(l) : r[m + 1] = l[m]
    BY <1>3, <2>4, <2>6
  <2> QED BY <2>1, <2>2, <2>3, <2>5, <2>7 DEF Spaced
<1>6. parts[1] = lines[1] /\ parts[1] \in Seq(S)
  BY <1>1, <1>4
<1>7. parts \in Seq(Seq(S)) /\ Len(parts) = n
  <2>1. \A i \in 1 .. n : parts[i] \in Seq(S)
    BY <1>5, <1>6
  <2>2. DOMAIN parts = 1 .. n /\ parts = [i \in DOMAIN parts |-> parts[i]]
    BY <1>1
  <2> HIDE DEF parts
  <2>3. parts = [i \in 1 .. n |-> parts[i]]
    BY <2>2
  <2> QED BY <1>1, <2>1, <2>3
<1> HIDE DEF parts
<1>14. parts \in Seq(Seq(S))
  BY <1>7
<1>8. PICK pre : JoinedSoFar(S, parts, pre) /\ text = pre[n]
  BY <1>2, <1>7, FlattenIs
<1>15. JoinedSoFar(S, parts, pre)
  BY <1>8
<1> DEFINE Fits(k) == k > 0 => ReadsAs(pre[k], SubSeq(read, 1, k)) /\ pre[k] \in Seq(S)
           Good == {k \in 0 .. n : Fits(k)}
<1>9. 0 \in Good
  BY <1>1
<1>10. ASSUME NEW k \in 0 .. n - 1, k \in Good PROVE k + 1 \in Good
  <2>1. PICK l \in 1 .. n : l = k + 1 /\ l - 1 = k
    BY <1>1
  <2>2. PICK p \in Seq(S), q \in Seq(S), r \in Seq(S) :
            p = pre[l - 1] /\ q = pre[l] /\ r = parts[l] /\ Grown(p, q, r)
    <3>1. l \in 1 .. Len(parts)
      BY <1>7
    <3> QED BY <1>14, <1>15, <3>1, PrefixesAre
  <2>3. q = p \o r
    BY <2>2 DEF Grown
  <2>4. PICK one \in T : one = read[l]
    BY <1>1
  <2>5. ReadsAs(lines[l], <<one>>)
    BY <1>1, <2>4 DEF OneRead, ReadsAs
  <2>6. ReadsAs(q, SubSeq(read, 1, l))
    <3>1. CASE k = 0
      <4>1. p = <<>> /\ r = lines[1] /\ l = 1
        BY <1>6, <1>8, <2>1, <2>2, <3>1 DEF JoinedSoFar
      <4>2. q = lines[l]
        BY <2>3, <4>1, ConcatEmptySeq
      <4>3. SubSeq(read, 1, 1) = <<one>>
        <5>1. 1 \in 1 .. Len(read)
          BY <1>1
        <5>2. SubSeq(read, 1, 1) = <<read[1]>>
          BY <5>1, FirstOnly
        <5> QED BY <2>4, <4>1, <5>2
      <4> QED BY <2>5, <4>1, <4>2, <4>3
    <3>2. CASE k # 0
      <4>1. PICK front \in Seq(T), more \in Seq(T) : front = SubSeq(read, 1, k) /\ more = SubSeq(read, 1, k + 1)
        <5>1. k \in 0 .. Len(read) /\ k + 1 \in 0 .. Len(read)
          BY <1>1
        <5>2. SubSeq(read, 1, k) \in Seq(T)
          BY <5>1
        <5>3. SubSeq(read, 1, k + 1) \in Seq(T)
          BY <5>1
        <5> QED BY <5>2, <5>3
      <4>2. ReadsAs(p, front)
        BY <1>10, <2>1, <2>2, <3>2, <4>1
      <4>3. k \in 1 .. Len(read) - 1
        BY <1>1, <3>2
      <4>4. more = front \o <<one>>
        <5>1. more = front \o <<read[k + 1]>>
          BY <4>1, <4>3, OneMore
        <5> QED BY <2>1, <2>4, <5>1
      <4>5. FoundBehind(q, front, lines[l])
        <5>1. front \in ParsePairs(p)
          BY <4>2 DEF ReadsAs
        <5>2. l # 1
          BY <2>1, <3>2
        <5>3. Spaced(lines[l], r) /\ lines[l] \in Seq(S)
          BY <1>4, <1>5, <2>2, <5>2
        <5> QED BY <2>3, <5>1, <5>3, JoinedParsed
      <4>6. ParsePairs(q) = {front \o <<one>>}
        BY <2>5, <4>5, BeforeOne DEF FoundBehind, ReadsAs
      <4> QED BY <2>1, <4>1, <4>4, <4>6 DEF ReadsAs
    <3> QED BY <3>1, <3>2
  <2> QED BY <2>1, <2>2, <2>6
<1>11. Fits(n)
  <2> HIDE DEF Good, Fits
  <2>1. \A k \in 0 .. n : k \in Good
    BY <1>9, <1>10, Upwards
  <2>2. n \in Good
    BY <1>1, <2>1
  <2> QED BY <2>2 DEF Good
<1>12. SubSeq(read, 1, n) = read
  BY <1>1
<1>13. Continues(lines[1], text)
  <2>1. PICK one \in 1 .. Len(parts) : one = 1 /\ one - 1 = 0
    BY <1>1, <1>7
  <2>2. PICK p \in Seq(S), q \in Seq(S), r \in Seq(S) :
            p = pre[one - 1] /\ q = pre[one] /\ r = parts[one] /\ Grown(p, q, r)
    BY <1>14, <1>15, PrefixesAre
  <2>3. p = <<>> /\ r = lines[1] /\ q = p \o r
    BY <1>6, <1>8, <2>1, <2>2 DEF JoinedSoFar, Grown
  <2>4. q = lines[1]
    BY <2>3, ConcatEmptySeq
  <2>5. one \in 0 .. Len(parts)
    BY <2>1
  <2>6. Continues(pre[one], pre[Len(parts)])
    BY <1>7, <1>8, <2>5, PrefixStays
  <2> QED BY <1>7, <1>8, <2>2, <2>4, <2>6
<1> QED BY <1>1, <1>8, <1>11, <1>12, <1>13

\* What the assumption says of a record: keys and texts over some characters.
IsRecord(S, record) ==
    /\ Marked(S) /\ " " \in S /\ Len(record) > 0
    /\ \A i \in 1 .. Len(record) :
         /\ record[i] = Pair(record[i].key, record[i].value) /\ record[i].key \in Seq(S)
         /\ record[i].value.text \in Seq(S)
HasKeys(record) == \A i \in 1 .. Len(record) : IsKey(record[i].key)

LEMMA InputIsRecord ==
    ASSUME Typed, session = "records", input # <<>>
    PROVE  \E S, T : IsRecord(S, input) /\ input \in Seq(T)
<1> DEFINE T == Sessions["records"].alphabet
           texts == UNION {Range(pair.value.text) : pair \in T}
           keys == UNION {Range(pair.key) : pair \in T}
           S == KeyContinue \cup keys \cup texts \cup {"\\", "n", "\"", "=", " ", "t", "r", "u", "e"}
<1>1. input \in Seq(T) /\ "records" \in DOMAIN Sessions
  BY DEF Typed
<1>2. Marked(S) /\ " " \in S
  BY Zenon DEF Marked
<1>3. KeyContinue \subseteq S /\ keys \subseteq S /\ texts \subseteq S
  BY Zenon
<1>4. \A pair \in T : Range(pair.key) \subseteq keys /\ Range(pair.value.text) \subseteq texts
  OBVIOUS
<1> HIDE DEF S, keys, texts
<1>5. PICK n \in Nat : n = Len(input) /\ n > 0 /\ \A i \in 1 .. n : input[i] \in T
  BY <1>1, EmptySeq
<1>6. ASSUME NEW pair \in T
      PROVE  /\ pair = Pair(pair.key, pair.value) /\ pair.key \in Seq(S)
             /\ pair.value.text \in Seq(S)
  <2>1. /\ pair = [key |-> pair.key, value |-> pair.value]
        /\ pair.key \in Seq(Range(pair.key))
        /\ pair.value.text \in Seq(Range(pair.value.text))
    BY <1>1, LinesAssumption DEF IsPair
  <2>2. pair = Pair(pair.key, pair.value)
    BY <2>1 DEF Pair
  <2>3. PICK key, Q : key = pair.key /\ Q = Range(key) /\ key \in Seq(Q) /\ Q \subseteq S
    BY <1>3, <1>4, <2>1
  <2>4. key \in Seq(S)
    BY <2>3
  <2>5. PICK text, R : text = pair.value.text /\ R = Range(text) /\ text \in Seq(R) /\ R \subseteq S
    BY <1>3, <1>4, <2>1
  <2>6. text \in Seq(S)
    BY <2>5
  <2> QED BY <2>2, <2>3, <2>4, <2>5, <2>6
<1>7. IsRecord(S, input)
  BY <1>2, <1>5, <1>6 DEF IsRecord
<1> HIDE DEF T
<1> QED BY <1>1, <1>7

LEMMA LoggableHasKeys ==
    ASSUME NEW S, IsRecord(S, input), NEW T, input \in Seq(T), Loggable
    PROVE  HasKeys(input)
<1>1. PICK n \in Nat : n = Len(input) /\ DOMAIN input = 1 .. n
  OBVIOUS
<1>2. ASSUME NEW i \in 1 .. n PROVE IsKey(input[i].key)
  <2>1. PICK key : key = input[i].key
    OBVIOUS
  <2>2. key \in Seq(S)
    <3>1. i \in 1 .. Len(input)
      BY <1>1
    <3> QED BY <2>1, <3>1, Zenon DEF IsRecord
  <2>3. input[i] \in Range(input)
    BY <1>1, Zenon DEF Range
  <2>4. key # <<>> /\ key[1] \in KeyStart /\ Range(key) \subseteq KeyContinue
    BY <2>1, <2>3, Zenon DEF Loggable, LogfmtKey
  <2>5. \A j \in 1 .. Len(key) : key[j] \in Range(key)
    BY <2>2 DEF Range
  <2>6. IsKey(key)
    BY <2>4, <2>5 DEF IsKey, KeyStart
  <2> QED BY <2>1, <2>6
<1> QED BY <1>1, <1>2 DEF HasKeys

\* What logfmt reads of a record.
ReadOf(record) == [i \in 1 .. Len(record) |-> Pair(record[i].key, Kept(record[i].value.text))]
WrittenOf(record) == [i \in DOMAIN record |-> Written([record[i] EXCEPT !.value = @.text])]

IsLogfmt(text, record) == text = Joined(WrittenOf(record), <<" ">>)

LEMMA RecordRead ==
    ASSUME NEW S, NEW T, NEW record \in Seq(T), IsRecord(S, record), HasKeys(record),
           NEW text, IsLogfmt(text, record)
    PROVE  ReadsAs(text, ReadOf(record)) /\ Len(text) > 0 /\ text[1] \in Letter
<1>16. Len(record) > 0
  BY Zenon DEF IsRecord
<1>17. ASSUME NEW i \in 1 .. Len(record)
       PROVE  /\ record[i] = Pair(record[i].key, record[i].value) /\ record[i].key \in Seq(S) /\ IsKey(record[i].key)
              /\ record[i].value.text \in Seq(S)
  BY Zenon DEF IsRecord, HasKeys
<1>1. PICK n \in Nat : n = Len(record) /\ n > 0 /\ DOMAIN record = 1 .. n
  BY <1>16
<1>2. PICK c \in S : c = " "
  BY Zenon DEF IsRecord
<1>3. c \in Space
  BY <1>2, LinesAssumption
<1>4. Marked(S)
  BY Zenon DEF IsRecord
<1>5. {"t", "r", "u", "e"} \subseteq S
  BY <1>4, Zenon DEF Marked
<1> DEFINE lines == WrittenOf(record)
           read == ReadOf(record)
<1>6. ASSUME NEW i \in 1 .. n
      PROVE  /\ lines[i] \in Seq(S) /\ ParsePairs(lines[i]) = {<<read[i]>>} /\ Len(lines[i]) > 0 /\ lines[i][1] \in Letter
             /\ read[i] \in KeyValues(S)
  <2>12. PICK key, value, line : key = record[i].key /\ value = record[i].value /\ line = value.text
    OBVIOUS
  <2>1. key \in Seq(S) /\ line \in Seq(S) /\ record[i] = Pair(key, value) /\ line = value.text /\ IsKey(key)
    <3>1. i \in 1 .. Len(record)
      BY <1>1
    <3>2. /\ record[i] = Pair(record[i].key, record[i].value) /\ record[i].key \in Seq(S) /\ IsKey(record[i].key)
          /\ record[i].value.text \in Seq(S)
      BY <1>17, <3>1
    <3> QED BY <2>12, <3>2, Zenon
  <2>2. PICK pair : pair = Pair(key, line)
    OBVIOUS
  <2>3. [record[i] EXCEPT !.value = @.text] = pair
    <3>1. PICK r : r = record[i] /\ r = [key |-> key, value |-> value]
      BY <2>1 DEF Pair
    <3>2. r.value = value /\ [r EXCEPT !.value = r.value.text] = [key |-> key, value |-> value.text]
      BY <3>1
    <3>3. [record[i] EXCEPT !.value = @.text] = [key |-> key, value |-> value.text]
      BY <3>1, <3>2
    <3> QED BY <2>1, <2>2, <3>3 DEF Pair
  <2>4. PICK l : l = Written(pair) /\ lines[i] = l
    BY <1>1, <2>3 DEF WrittenOf
  <2>5. l \in Seq(S)
    BY <1>4, <2>1, <2>2, <2>4, WrittenParsed
  <2>6. Gives(l, key, line)
    BY <1>4, <2>1, <2>2, <2>4, WrittenParsed
  <2>7. Len(l) > 0 /\ l[1] \in Letter
    BY <1>4, <2>1, <2>2, <2>4, WrittenParsed
  <2>8. record[i].key = key /\ record[i].value = value
    <3>1. PICK r : r = record[i] /\ r = [key |-> key, value |-> value]
      BY <2>1 DEF Pair
    <3>2. r.key = key /\ r.value = value
      BY <3>1
    <3> QED BY <3>1, <3>2
  <2>9. read[i] = Pair(key, Kept(line))
    BY <1>1, <2>1, <2>8 DEF ReadOf
  <2>10. Pair(key, Kept(line)) \in KeyValues(S)
    BY <1>4, <2>1, KeptTyped DEF Pair, KeyValues
  <2>11. ParsePairs(l) = {<<read[i]>>}
    BY <2>6, <2>9, Zenon DEF Gives
  <2> QED BY <2>4, <2>5, <2>7, <2>9, <2>10, <2>11
<1>7. DOMAIN lines = 1 .. n /\ lines = [i \in DOMAIN lines |-> lines[i]] /\ DOMAIN read = 1 .. n
      /\ read = [i \in DOMAIN read |-> read[i]]
  BY <1>1 DEF WrittenOf, ReadOf
<1> HIDE DEF lines, read
<1>8. lines \in Seq(Seq(S)) /\ Len(lines) = n
  <2>1. lines = [i \in 1 .. n |-> lines[i]]
    BY <1>7
  <2>2. \A i \in 1 .. n : lines[i] \in Seq(S)
    BY <1>6
  <2> QED BY <1>1, <2>1, <2>2
<1>9. read \in Seq(KeyValues(S)) /\ Len(read) = n
  <2>1. read = [i \in 1 .. n |-> read[i]]
    BY <1>7
  <2>2. \A i \in 1 .. n : read[i] \in KeyValues(S)
    BY <1>6
  <2> QED BY <1>1, <2>1, <2>2
<1>10. OneRead(lines, read)
  BY <1>6, <1>8, <1>9 DEF OneRead
<1>11. text = Joined(lines, <<c>>)
  BY <1>2, Zenon DEF lines, IsLogfmt
<1>12. Len(lines) > 0
  BY <1>1, <1>8
<1>13. ReadsAs(text, read)
  BY <1>3, <1>5, <1>8, <1>9, <1>10, <1>11, <1>12, JoinedRead
<1>14. Continues(lines[1], text) /\ text \in Seq(S)
  BY <1>3, <1>5, <1>8, <1>9, <1>10, <1>11, <1>12, JoinedRead
<1>15. Len(text) > 0 /\ text[1] \in Letter
  <2>1. PICK l \in Seq(S) : l = lines[1] /\ Len(l) > 0 /\ l[1] \in Letter
    <3>1. 1 \in 1 .. n
      BY <1>1
    <3> QED BY <1>6, <3>1
  <2>2. PICK a \in Nat, b \in Nat : a = Len(l) /\ b = Len(text)
    BY <1>14
  <2>3. a <= b /\ \A j \in 1 .. a : text[j] = l[j]
    BY <1>14, <2>1, <2>2 DEF Continues
  <2> QED BY <2>1, <2>2, <2>3
<1> QED BY <1>13, <1>15 DEF read

\* A record as JSON and as logfmt, and the entries they become.
JsonEntry(record, entry) ==
    \E line, members : /\ members = Members(record) /\ entry = Promoted(line, members)
                       /\ ParseLine("json", LoggedAsJson(record)) = {entry}
AsStrings(pairs) == [i \in DOMAIN pairs |-> [pairs[i] EXCEPT !.value = String(@)]]
LogfmtEntry(record, entry) ==
    \E line, members : /\ members = Members(AsStrings(ReadOf(record))) /\ entry = Promoted(line, members)
                       /\ ParseLine("logfmt", LoggedAsLogfmt(record)) = {entry}

LEMMA JsonEntryIs ==
    ASSUME NEW record
    PROVE  \E entry : JsonEntry(record, entry)
<1> DEFINE value == [kind |-> "object", text |-> <<"{", "}">>, members |-> record]
           text == <<"{", "}">>
           line == LoggedAsJson(record)
           entry == Promoted(line, Members(record))
<1>1. line.text = text /\ line.json = {value} /\ (IsBlank(line) <=> Range(text) \subseteq Space \cup WideSpace)
  <2>1. line = Line(text, {value})
    BY Zenon DEF LoggedAsJson
  <2> HIDE DEF line, text, value
  <2> QED BY <2>1, LineIs
<1>2. "{" \in Range(text)
  <2>1. 1 \in DOMAIN text /\ text[1] = "{"
    OBVIOUS
  <2> QED BY <2>1 DEF Range
<1>3. ~IsBlank(line)
  BY <1>1, <1>2, LinesAssumption
<1>4. value.kind = "object" /\ value.members = record
  OBVIOUS
<1> HIDE DEF value, text
<1>5. ParseJson(line) = {entry}
  <2>1. {v \in line.json : v.kind = "object"} = {value}
    BY <1>1, <1>4
  <2> HIDE DEF line
  <2> QED BY <1>4, <2>1, Zenon DEF ParseJson
<1>6. ParseLine("json", line) = {entry}
  BY <1>3, <1>5, LineParsed
<1>7. JsonEntry(record, entry)
  BY <1>6, Zenon DEF JsonEntry
<1> QED BY <1>7

LEMMA LogfmtEntryIs ==
    ASSUME NEW S, NEW T, NEW record \in Seq(T), IsRecord(S, record), HasKeys(record)
    PROVE  \E entry : LogfmtEntry(record, entry)
<1>1. PICK text, pairs : IsLogfmt(text, record) /\ pairs = ReadOf(record)
  BY DEF IsLogfmt
<1>2. ReadsAs(text, pairs) /\ Len(text) > 0 /\ text[1] \in Letter
  BY <1>1, RecordRead
<1> DEFINE line == Line(text, {})
           entry == Promoted(line, Members(AsStrings(pairs)))
<1>3. LoggedAsLogfmt(record) = line
  BY <1>1, Zenon DEF LoggedAsLogfmt, IsLogfmt, WrittenOf
<1>4. line.text = text /\ (IsBlank(line) <=> Range(text) \subseteq Space \cup WideSpace)
  BY LineIs
<1> HIDE DEF line
<1>5. text[1] \in Range(text)
  BY <1>2 DEF Range
<1>6. ~IsBlank(line)
  BY <1>2, <1>4, <1>5, CharactersAssumption, LinesAssumption
<1>7. pairs # <<>>
  <2>1. Len(record) > 0
    BY Zenon DEF IsRecord
  <2>2. 1 \in DOMAIN pairs
    BY <1>1, <2>1 DEF ReadOf
  <2> QED BY <2>2
<1>8. ParseLogfmt(line) = {entry}
  <2>1. ParsePairs(line.text) \ {<<>>} = {pairs}
    BY <1>2, <1>4, <1>7 DEF ReadsAs
  <2> QED BY <2>1, Zenon DEF ParseLogfmt, AsStrings
<1>9. ParseLine("logfmt", line) = {entry}
  BY <1>6, <1>8, LineParsed
<1>10. LogfmtEntry(record, entry)
  BY <1>1, <1>3, <1>9, Zenon DEF LogfmtEntry
<1> QED BY <1>10

LEMMA PairHas ==
    ASSUME NEW key, NEW value
    PROVE  Pair(key, value).key = key /\ Pair(key, value).value = value
BY DEF Pair

LEMMA TextsOfRead ==
    ASSUME NEW T, NEW record \in Seq(T), NEW n \in Nat, n = Len(record)
    PROVE  \E pairs, U : /\ pairs = AsStrings(ReadOf(record)) /\ pairs \in Seq(U) /\ Len(pairs) = n
                         /\ \A j \in 1 .. n : /\ pairs[j].key = record[j].key
                                               /\ pairs[j].value = String(Kept(record[j].value.text))
<1>5. \A j \in 1 .. n : AsStrings(ReadOf(record))[j] = Pair(record[j].key, String(Kept(record[j].value.text)))
  BY DEF AsStrings, ReadOf, Pair
<1> DEFINE pairs == AsStrings(ReadOf(record))
           U == {pairs[j] : j \in 1 .. n}
<1>6. pairs \in Seq(U) /\ Len(pairs) = n
  <2>1. DOMAIN pairs = 1 .. n /\ pairs = [j \in DOMAIN pairs |-> pairs[j]]
    BY DEF AsStrings, ReadOf
  <2>2. \A j \in 1 .. n : pairs[j] \in U
    OBVIOUS
  <2> HIDE DEF pairs, U
  <2>3. pairs = [j \in 1 .. n |-> pairs[j]]
    BY <2>1
  <2> QED BY <2>2, <2>3
<1>7. \A j \in 1 .. n : pairs[j].key = record[j].key /\ pairs[j].value = String(Kept(record[j].value.text))
  BY <1>5, PairHas
<1>8. pairs = AsStrings(ReadOf(record))
  OBVIOUS
<1>9. PICK q, V : q = pairs /\ V = U
  OBVIOUS
<1> HIDE DEF pairs, U
<1> QED BY <1>6, <1>7, <1>8, <1>9, Zenon

\* What the two formats make of the last pair with a key.
StoredAsJson(p, json) ==
    /\ p.key \in KnownKeys /\ IsScalar(p.value) => json.known[p.key] = {p.value.text}
    /\ ~(p.key \in KnownKeys /\ IsScalar(p.value)) => p.key \in DOMAIN json.fields /\ json.fields[p.key] = p.value
StoredAsLogfmt(p, logfmt) ==
    /\ p.key \in KnownKeys => logfmt.known[p.key] = {Kept(p.value.text)}
    /\ p.key \notin KnownKeys => p.key \in DOMAIN logfmt.fields /\ logfmt.fields[p.key] = String(Kept(p.value.text))

LEMMA LastInJson ==
    ASSUME NEW T, NEW record \in Seq(T), NEW i, LastWith(record, i), NEW p, p = record[i],
           NEW json, JsonEntry(record, json)
    PROVE  StoredAsJson(p, json)
<1>1. PICK line, members : members = Members(record) /\ json = Promoted(line, members)
  BY DEF JsonEntry
<1>2. p.key \in DOMAIN members /\ members[p.key] = p.value
  BY <1>1, MembersAre
<1>3. Lifted(members, p.key) <=> p.key \in KnownKeys /\ IsScalar(p.value)
  BY <1>2 DEF Lifted
<1>4. p.key \in KnownKeys /\ IsScalar(p.value) => json.known[p.key] = {p.value.text}
  BY <1>1, <1>2, <1>3, PromotedIs
<1>5. ~(p.key \in KnownKeys /\ IsScalar(p.value)) => p.key \in DOMAIN json.fields /\ json.fields[p.key] = p.value
  BY <1>1, <1>2, <1>3, PromotedIs
<1> QED BY <1>4, <1>5 DEF StoredAsJson

LEMMA LastInLogfmt ==
    ASSUME NEW T, NEW record \in Seq(T), NEW i, LastWith(record, i), NEW p, p = record[i],
           NEW logfmt, LogfmtEntry(record, logfmt)
    PROVE  StoredAsLogfmt(p, logfmt)
<1>2. PICK other, texts : texts = Members(AsStrings(ReadOf(record))) /\ logfmt = Promoted(other, texts)
  BY DEF LogfmtEntry
<1>3. PICK n \in Nat : n = Len(record) /\ DOMAIN record = 1 .. n /\ i \in 1 .. n
                       /\ \A j \in 1 .. n : j > i => record[j].key # record[i].key
  BY DEF LastWith
<1>6. PICK pairs, U : /\ pairs = AsStrings(ReadOf(record)) /\ pairs \in Seq(U) /\ Len(pairs) = n
                      /\ \A j \in 1 .. n : pairs[j].key = record[j].key /\ pairs[j].value = String(Kept(record[j].value.text))
  BY <1>3, TextsOfRead
<1>7. \A j \in 1 .. n : pairs[j].key = record[j].key /\ pairs[j].value = String(Kept(record[j].value.text))
  BY <1>6
<1>8. texts = Members(pairs)
  BY <1>2, <1>6
<1>9. LastWith(pairs, i)
  BY <1>3, <1>6, <1>7 DEF LastWith
<1>10. pairs[i].key \in DOMAIN texts /\ texts[pairs[i].key] = pairs[i].value
  BY <1>6, <1>8, <1>9, MembersAre
<1>11. p.key \in DOMAIN texts /\ texts[p.key] = String(Kept(p.value.text))
  BY <1>3, <1>7, <1>10
<1>12. ASSUME NEW text PROVE IsScalar(String(text)) /\ String(text).text = text
  BY DEF String, Scalar, IsScalar
<1>14. Lifted(texts, p.key) <=> p.key \in KnownKeys
  BY <1>11, <1>12 DEF Lifted
<1>15. p.key \in KnownKeys => logfmt.known[p.key] = {Kept(p.value.text)}
  BY <1>2, <1>11, <1>12, <1>14, PromotedIs
<1>16. p.key \notin KnownKeys => p.key \in DOMAIN logfmt.fields /\ logfmt.fields[p.key] = String(Kept(p.value.text))
  BY <1>2, <1>11, <1>14, PromotedIs
<1> QED BY <1>15, <1>16 DEF StoredAsLogfmt

LEMMA ChosenIs ==
    ASSUME NEW e
    PROVE  (CHOOSE x \in {e} : TRUE) = e
OBVIOUS

\* A key that no last pair has is no key of the record.
LEMMA MissingIsNone ==
    ASSUME NEW T, NEW record \in Seq(T), NEW key \in KnownKeys,
           \A i : LastWith(record, i) => record[i].key # key,
           NEW json, JsonEntry(record, json)
    PROVE  json.known[key] = {}
<1>1. PICK line, members : members = Members(record) /\ json = Promoted(line, members)
  BY DEF JsonEntry
<1>2. key \notin DOMAIN members
  BY <1>1, MembersAre
<1>3. ~Lifted(members, key)
  BY <1>2 DEF Lifted
<1> QED BY <1>1, <1>3, PromotedIs

LEMMA MissingIsNoneLogfmt ==
    ASSUME NEW T, NEW record \in Seq(T), NEW key \in KnownKeys,
           \A i : LastWith(record, i) => record[i].key # key,
           NEW logfmt, LogfmtEntry(record, logfmt)
    PROVE  logfmt.known[key] = {}
<1>1. PICK other, texts : texts = Members(AsStrings(ReadOf(record))) /\ logfmt = Promoted(other, texts)
  BY DEF LogfmtEntry
<1>2. PICK n \in Nat : n = Len(record) /\ DOMAIN record = 1 .. n
  OBVIOUS
<1>3. PICK pairs, U : pairs = AsStrings(ReadOf(record)) /\ pairs \in Seq(U) /\ Len(pairs) = n
                      /\ \A j \in 1 .. n : pairs[j].key = record[j].key
  BY <1>2, TextsOfRead
<1>4. \A i : LastWith(pairs, i) => LastWith(record, i) /\ pairs[i].key = record[i].key
  BY <1>2, <1>3 DEF LastWith
<1>5. \A i : LastWith(pairs, i) => pairs[i].key # key
  BY <1>4
<1>6. key \notin DOMAIN texts
  BY <1>1, <1>3, <1>5, MembersAre
<1>7. ~Lifted(texts, key)
  BY <1>6 DEF Lifted
<1> QED BY <1>1, <1>7, PromotedIs

LEMMA LastPairsAre ==
    ASSUME NEW T, input \in Seq(T)
    PROVE  /\ \A p \in LastPairs : \E i : LastWith(input, i) /\ p = input[i]
           /\ \A i : LastWith(input, i) => input[i] \in LastPairs
<1>1. PICK n \in Nat : n = Len(input) /\ DOMAIN input = 1 .. n
  OBVIOUS
<1> QED BY <1>1, Zenon DEF LastPairs, LastOf, LastWith

LEMMA FormatsMeet == Typed => FormatsAgree
<1> SUFFICES ASSUME Typed, Recorded, Loggable PROVE FormatsAgree
  BY DEF FormatsAgree
<1>1. session = "records" /\ input # <<>>
  BY DEF Recorded, About
<1>2. PICK S, T : IsRecord(S, input) /\ input \in Seq(T)
  BY <1>1, InputIsRecord
<1>3. PICK json : JsonEntry(input, json)
  BY JsonEntryIs
<1>4. PICK logfmt : LogfmtEntry(input, logfmt)
  BY <1>2, LogfmtEntryIs, LoggableHasKeys
<1>5. ParseLine("json", LoggedAsJson(input)) = {json} /\ FromJson = json
  BY <1>3, ChosenIs, Zenon DEF JsonEntry, FromJson
<1>6. ParseLine("logfmt", LoggedAsLogfmt(input)) = {logfmt} /\ FromLogfmt = logfmt
  BY <1>4, ChosenIs, Zenon DEF LogfmtEntry, FromLogfmt
<1>7. ASSUME NEW p \in LastPairs
      PROVE  LET known == p.key \in KnownKeys
             IN  /\ IF known THEN FromLogfmt.known[p.key] = {Kept(p.value.text)}
                    ELSE FromLogfmt.fields[p.key] = String(Kept(p.value.text))
                 /\ IF known /\ IsScalar(p.value) THEN FromJson.known[p.key] = {p.value.text}
                    ELSE FromJson.fields[p.key] = p.value
  <2>1. PICK i : LastWith(input, i) /\ p = input[i]
    BY <1>2, LastPairsAre
  <2>3. StoredAsJson(p, json) /\ StoredAsLogfmt(p, logfmt)
    BY <1>2, <1>3, <1>4, <2>1, LastInJson, LastInLogfmt
  <2>2. /\ p.key \in KnownKeys => logfmt.known[p.key] = {Kept(p.value.text)}
        /\ p.key \notin KnownKeys => logfmt.fields[p.key] = String(Kept(p.value.text))
        /\ p.key \in KnownKeys /\ IsScalar(p.value) => json.known[p.key] = {p.value.text}
        /\ ~(p.key \in KnownKeys /\ IsScalar(p.value)) => json.fields[p.key] = p.value
    BY <2>3 DEF StoredAsJson, StoredAsLogfmt
  <2> QED BY <1>5, <1>6, <2>2, Zenon
<1>8. ASSUME NEW key \in KnownKeys, key \notin {p.key : p \in LastPairs}
      PROVE  FromJson.known[key] = {} /\ FromLogfmt.known[key] = {}
  <2>1. \A i : LastWith(input, i) => input[i].key # key
    BY <1>2, <1>8, LastPairsAre
  <2>2. json.known[key] = {}
    BY <1>2, <1>3, <2>1, MissingIsNone
  <2>3. logfmt.known[key] = {}
    BY <1>2, <1>4, <2>1, MissingIsNoneLogfmt
  <2> QED BY <1>5, <1>6, <2>2, <2>3
<1>9. ParseLine("json", LoggedAsJson(input)) # {} /\ ParseLine("logfmt", LoggedAsLogfmt(input)) # {}
  BY <1>5, <1>6
<1> QED BY <1>7, <1>8, <1>9, Zenon DEF FormatsAgree

\* What a logger writes is what is stored, whatever it logs: quoted values are
\* read back, plain lines stay as they are, and a record gives the same columns
\* and fields in both formats.
THEOREM LinesReadBackHolds == Spec => []LinesReadBack
<1>1. Typed => PlainKeepsEveryLine
  BY PlainKeeps
<1>2. Typed => FormatsAgree
  BY FormatsMeet
<1>3. QuotedReadsBack /\ PlainKeepsEveryLine /\ FormatsAgree => LinesReadBack
  BY DEF LinesReadBack
<1> QED BY <1>1, <1>2, <1>3, QuotedIsReadBack, InputTyped, PTL

-----------------------------------------------------------------------------
(* Names. *)

PathFrom(s, path, i) ==
    LET end == NextOf(s, i, {"."})
    IN  <<SubSeq(s, i, end - 1)>> \o (IF end > Len(s) THEN <<>> ELSE path[end + 1])
IsPath(s, path) == path = [i \in 1 .. Len(s) + 1 |-> PathFrom(s, path, i)]

Led(path, name, rest) == path = <<name>> \o rest

LEMMA PathCases ==
    ASSUME NEW s, NEW path, NEW i, NEW end, end = NextOf(s, i, {"."})
    PROVE  /\ end > Len(s) => Led(PathFrom(s, path, i), SubSeq(s, i, end - 1), <<>>)
           /\ ~(end > Len(s)) => Led(PathFrom(s, path, i), SubSeq(s, i, end - 1), path[end + 1])
BY Zenon DEF PathFrom, Led

LEMMA PathAgrees ==
    ASSUME NEW S, NEW s \in Seq(S), NEW g, NEW h, NEW i \in 1 .. Len(s) + 1,
           \A j \in i + 1 .. Len(s) + 1 : g[j] = h[j]
    PROVE  PathFrom(s, g, i) = PathFrom(s, h, i)
<1>1. PICK n \in Nat : n = Len(s) /\ i \in 1 .. n + 1
  OBVIOUS
<1>2. PICK end \in i .. n + 1 : end = NextOf(s, i, {"."})
  BY <1>1, NextOfIs
<1>3. CASE end > n
  <2>1. Led(PathFrom(s, g, i), SubSeq(s, i, end - 1), <<>>)
    BY <1>1, <1>2, <1>3, PathCases
  <2>2. Led(PathFrom(s, h, i), SubSeq(s, i, end - 1), <<>>)
    BY <1>1, <1>2, <1>3, PathCases
  <2> QED BY <2>1, <2>2, Zenon DEF Led
<1>4. CASE ~(end > n)
  <2>1. end + 1 \in i + 1 .. n + 1
    BY <1>1, <1>4
  <2>2. g[end + 1] = h[end + 1]
    BY <1>1, <2>1
  <2>3. Led(PathFrom(s, g, i), SubSeq(s, i, end - 1), g[end + 1])
    BY <1>1, <1>2, <1>4, PathCases
  <2>4. Led(PathFrom(s, h, i), SubSeq(s, i, end - 1), h[end + 1])
    BY <1>1, <1>2, <1>4, PathCases
  <2> QED BY <2>2, <2>3, <2>4, Zenon DEF Led
<1> QED BY <1>3, <1>4

LEMMA PathExists ==
    ASSUME NEW S, NEW s \in Seq(S)
    PROVE  \E path : IsPath(s, path)
<1>1. PICK n \in Nat : n = Len(s)
  OBVIOUS
<1> DEFINE Solves(g, i) == \A j \in i .. n + 1 : g[j] = PathFrom(s, g, j)
           Good == {i \in 1 .. n + 1 : \E g : Solves(g, i)}
<1>2. ASSUME NEW i \in 1 .. n + 1, \A j \in i + 1 .. n + 1 : j \in Good
      PROVE  i \in Good
  <2>1. PICK g : \A j \in i + 1 .. n + 1 : g[j] = PathFrom(s, g, j)
    <3>1. CASE i = n + 1
      BY <3>1
    <3>2. CASE i # n + 1
      <4>1. i + 1 \in i + 1 .. n + 1
        BY <3>2
      <4> QED BY <1>2, <4>1
    <3> QED BY <3>1, <3>2
  <2> DEFINE h == [j \in i .. n + 1 |-> IF j = i THEN PathFrom(s, g, i) ELSE g[j]]
  <2>2. \A j \in i + 1 .. n + 1 : h[j] = g[j]
    OBVIOUS
  <2>3. ASSUME NEW j \in i .. n + 1 PROVE PathFrom(s, h, j) = PathFrom(s, g, j)
    <3>1. \A k \in j + 1 .. n + 1 : k \in i + 1 .. n + 1
      OBVIOUS
    <3>2. \A k \in j + 1 .. n + 1 : h[k] = g[k]
      BY <2>2, <3>1
    <3>3. j \in 1 .. Len(s) + 1
      BY <1>1
    <3> HIDE DEF h
    <3> QED BY <1>1, <3>2, <3>3, PathAgrees
  <2>4. ASSUME NEW j \in i .. n + 1 PROVE h[j] = PathFrom(s, h, j)
    <3>1. h[j] = PathFrom(s, g, j)
      BY <2>1
    <3> HIDE DEF h
    <3> QED BY <2>3, <3>1
  <2> HIDE DEF h
  <2> QED BY <2>4
<1>3. \A i \in 1 .. n + 1 : i \in Good
  <2>1. \A i \in 1 .. n + 1 : (\A j \in i + 1 .. n + 1 : j \in Good) => i \in Good
    BY <1>2
  <2>2. n + 1 \in Nat
    BY <1>1
  <2> HIDE DEF Good
  <2> QED BY <2>1, <2>2, FromTheEnd
<1>4. PICK g : \A j \in 1 .. n + 1 : g[j] = PathFrom(s, g, j)
  <2>1. 1 \in 1 .. n + 1
    BY <1>1
  <2> QED BY <1>3, <2>1
<1> DEFINE f == [j \in 1 .. n + 1 |-> g[j]]
<1>5. ASSUME NEW j \in 1 .. n + 1 PROVE PathFrom(s, f, j) = PathFrom(s, g, j)
  <2>1. \A k \in j + 1 .. n + 1 : f[k] = g[k]
    OBVIOUS
  <2> HIDE DEF f
  <2> QED BY <1>1, <2>1, PathAgrees
<1>6. f = [j \in 1 .. n + 1 |-> PathFrom(s, f, j)]
  <2>1. \A j \in 1 .. n + 1 : g[j] = PathFrom(s, f, j)
    <3> HIDE DEF f
    <3> QED BY <1>4, <1>5
  <2> HIDE DEF f
  <2>2. f = [j \in 1 .. n + 1 |-> g[j]]
    BY DEF f
  <2> QED BY <2>1, <2>2
<1> HIDE DEF f
<1> QED BY <1>1, <1>6 DEF IsPath

LEMMA PathIs ==
    ASSUME NEW S, NEW s \in Seq(S)
    PROVE  \E path : IsPath(s, path) /\ JsonPath(s) = path[1]
<1>1. \E path : IsPath(s, path)
  BY PathExists
<1> QED BY <1>1 DEF JsonPath, IsPath, PathFrom

Undotted(name) == \A j \in 1 .. Len(name) : name[j] # "."

\* The first name of a path has no dot in it.
LEMMA PathTyped ==
    ASSUME NEW S, NEW s \in Seq(S), NEW path, IsPath(s, path)
    PROVE  \A i \in 1 .. Len(s) + 1 : path[i] \in Seq(Seq(S)) /\ Len(path[i]) > 0 /\ Undotted(path[i][1])
<1>1. PICK n \in Nat : n = Len(s)
  OBVIOUS
<1> DEFINE Fits(i) == path[i] \in Seq(Seq(S)) /\ Len(path[i]) > 0 /\ Undotted(path[i][1])
           Good == {i \in 1 .. n + 1 : Fits(i)}
<1>2. ASSUME NEW i \in 1 .. n + 1, \A j \in i + 1 .. n + 1 : j \in Good
      PROVE  i \in Good
  <2>1. PICK end \in i .. n + 1 : /\ end = NextOf(s, i, {"."})
                                  /\ \A j \in i .. end - 1 : s[j] \notin {"."}
    BY <1>1, NextOfIs
  <2>2. PICK part \in Seq(S) : /\ part = SubSeq(s, i, end - 1) /\ Len(part) = end - i
                               /\ \A j \in 1 .. end - i : part[j] = s[j + i - 1]
    <3>1. SubSeq(s, i, end - 1) \in Seq(S) /\ Len(SubSeq(s, i, end - 1)) = end - i
          /\ \A j \in 1 .. end - i : SubSeq(s, i, end - 1)[j] = s[j + i - 1]
      BY <1>1, <2>1
    <3> QED BY <3>1
  <2>3. Undotted(part)
    <3>1. \A j \in 1 .. end - i : j + i - 1 \in i .. end - 1
      BY <2>1
    <3>2. \A j \in 1 .. end - i : part[j] # "."
      BY <2>1, <2>2, <3>1
    <3> QED BY <2>2, <3>2 DEF Undotted
  <2>4. PICK one \in Seq(Seq(S)) : one = <<part>> /\ Len(one) = 1 /\ one[1] = part
    <3>1. PICK T : T = Seq(S)
      OBVIOUS
    <3>2. part \in T
      BY <3>1
    <3>3. <<part>> \in Seq(T) /\ Len(<<part>>) = 1 /\ <<part>>[1] = part
      BY <3>2, OneIs
    <3> QED BY <3>1, <3>3
  <2>5. path[i] = PathFrom(s, path, i)
    BY <1>1 DEF IsPath
  <2>6. \E rest \in Seq(Seq(S)) : path[i] = one \o rest
    <3>1. CASE end > n
      <4>1. Led(PathFrom(s, path, i), SubSeq(s, i, end - 1), <<>>)
        BY <1>1, <2>1, <3>1, PathCases
      <4>2. path[i] = one \o <<>>
        BY <2>2, <2>4, <2>5, <4>1, Zenon DEF Led
      <4>3. <<>> \in Seq(Seq(S))
        OBVIOUS
      <4> QED BY <4>2, <4>3
    <3>2. CASE ~(end > n)
      <4>4. Led(PathFrom(s, path, i), SubSeq(s, i, end - 1), path[end + 1])
        BY <1>1, <2>1, <3>2, PathCases
      <4>1. path[i] = one \o path[end + 1]
        BY <2>2, <2>4, <2>5, <4>4, Zenon DEF Led
      <4>2. end + 1 \in i + 1 .. n + 1
        BY <1>1, <3>2
      <4>3. path[end + 1] \in Seq(Seq(S))
        BY <1>2, <4>2
      <4> QED BY <4>1, <4>3
    <3> QED BY <3>1, <3>2
  <2>7. PICK rest \in Seq(Seq(S)) : path[i] = one \o rest
    BY <2>6
  <2>8. PICK T : T = Seq(S)
    OBVIOUS
  <2>9. one \in Seq(T) /\ rest \in Seq(T)
    BY <2>8
  <2>10. path[i] \in Seq(T) /\ Len(path[i]) = Len(one) + Len(rest) /\ Continues(one, path[i])
    BY <2>7, <2>9, Extended
  <2>11. Len(path[i]) > 0 /\ path[i][1] = part
    BY <2>4, <2>9, <2>10 DEF Continues
  <2> QED BY <2>3, <2>8, <2>10, <2>11
<1>3. \A i \in 1 .. n + 1 : i \in Good
  <2>1. \A i \in 1 .. n + 1 : (\A j \in i + 1 .. n + 1 : j \in Good) => i \in Good
    BY <1>2
  <2>2. n + 1 \in Nat
    BY <1>1
  <2> HIDE DEF Good
  <2> QED BY <2>1, <2>2, FromTheEnd
<1> QED BY <1>1, <1>3

\* The last name of a path.
LEMMA PathEnds ==
    ASSUME NEW S, NEW s \in Seq(S), NEW path, IsPath(s, path), NEW i \in 1 .. Len(s) + 1,
           \A j \in i .. Len(s) : s[j] # ".", NEW name, name = SubSeq(s, i, Len(s))
    PROVE  path[i] = <<name>>
<1>1. PICK n \in Nat : n = Len(s) /\ i \in 1 .. n + 1
  OBVIOUS
<1>2. PICK end \in i .. n + 1 : end = NextOf(s, i, {"."}) /\ (end <= n => s[end] \in {"."})
  BY <1>1, NextOfIs
<1>3. end > n /\ end - 1 = n
  <2>1. ~(end <= n)
    <3>1. end <= n => end \in i .. n
      BY <1>2
    <3> QED BY <1>1, <1>2, <3>1
  <2> QED BY <1>1, <1>2, <2>1
<1>4. Led(PathFrom(s, path, i), SubSeq(s, i, end - 1), <<>>)
  BY <1>1, <1>2, <1>3, PathCases
<1>5. path[i] = PathFrom(s, path, i)
  BY <1>1 DEF IsPath
<1>6. path[i] = <<name>> \o <<>>
  BY <1>1, <1>3, <1>4, <1>5, Zenon DEF Led
<1> DEFINE T == {name}
<1>7. name \in T
  OBVIOUS
<1> HIDE DEF T
<1>9. PICK one \in Seq(T) : one = <<name>>
  BY <1>7, OneIs
<1>8. one \o <<>> = one
  BY ConcatEmptySeq
<1> QED BY <1>6, <1>8, <1>9

IsNamed(s, names) == JsonPath(s) = names

LEMMA PathOne ==
    ASSUME NEW S, NEW s \in Seq(S), Undotted(s)
    PROVE  IsNamed(s, <<s>>)
<1>1. PICK path : IsPath(s, path) /\ JsonPath(s) = path[1]
  BY PathIs
<1>2. 1 \in 1 .. Len(s) + 1 /\ \A j \in 1 .. Len(s) : s[j] # "."
  BY DEF Undotted
<1>3. PICK whole : whole = SubSeq(s, 1, Len(s)) /\ whole = s
  OBVIOUS
<1>4. path[1] = <<whole>>
  BY <1>1, <1>2, <1>3, PathEnds
<1> QED BY <1>1, <1>3, <1>4 DEF IsNamed

DotBetween(s, a, dot, b) == s = (a \o <<dot>>) \o b

LEMMA PathTwo ==
    ASSUME NEW S, NEW dot \in S, dot = ".", NEW a \in Seq(S), Undotted(a), NEW b \in Seq(S), Undotted(b),
           NEW s, DotBetween(s, a, dot, b)
    PROVE  IsNamed(s, <<a, b>>)
<1>1. PICK front : front = a \o <<dot>>
  OBVIOUS
<1>2. front \in Seq(S) /\ Len(front) = Len(a) + 1 /\ Continues(a, front) /\ front[Len(a) + 1] = dot
  BY <1>1, Opened
<1>3. s = front \o b
  BY <1>1 DEF DotBetween
<1>4. s \in Seq(S) /\ Len(s) = Len(front) + Len(b) /\ Continues(front, s)
  BY <1>2, <1>3, Extended
<1>19. s \in Seq(S)
  BY <1>4
<1>5. \A m \in 1 .. Len(b) : s[Len(front) + m] = b[m]
  BY <1>2, <1>3, Extended
<1>6. PICK k \in Nat, l \in Nat, n \in Nat :
        k = Len(a) /\ l = Len(b) /\ n = Len(s) /\ Len(front) = k + 1 /\ n = (k + 1) + l
  BY <1>2, <1>4
<1>7. /\ \A j \in 1 .. k : s[j] = a[j] /\ a[j] # "."
      /\ s[k + 1] = "."
      /\ \A m \in 1 .. l : s[(k + 1) + m] = b[m] /\ b[m] # "."
  <2>1. \A j \in 1 .. k + 1 : s[j] = front[j]
    BY <1>4, <1>6 DEF Continues
  <2>2. \A j \in 1 .. k : front[j] = a[j] /\ j \in 1 .. k + 1
    BY <1>2, <1>6 DEF Continues
  <2>3. k + 1 \in 1 .. k + 1
    OBVIOUS
  <2>4. s[k + 1] = "."
    BY <1>2, <1>6, <2>1, <2>3
  <2>5. \A j \in 1 .. k : a[j] # "."
    BY <1>6 DEF Undotted
  <2>6. \A m \in 1 .. l : b[m] # "."
    BY <1>6 DEF Undotted
  <2> QED BY <1>5, <1>6, <2>1, <2>2, <2>4, <2>5, <2>6
<1>8. PICK path : IsPath(s, path) /\ JsonPath(s) = path[1]
  BY <1>4, PathIs
<1>9. PICK end \in 1 .. n + 1 : /\ end = NextOf(s, 1, {"."}) /\ (\A j \in 1 .. end - 1 : s[j] \notin {"."})
                                /\ (end <= n => s[end] \in {"."})
  <2>1. 1 \in 1 .. Len(s) + 1
    BY <1>6
  <2>2. PICK m \in 1 .. Len(s) + 1 : m = NextOf(s, 1, {"."}) /\ (\A j \in 1 .. m - 1 : s[j] \notin {"."})
                                     /\ (m <= Len(s) => s[m] \in {"."})
    BY <1>19, <2>1, NextOfIs
  <2> QED BY <1>6, <2>2
<1>10. end = k + 1
  <2>1. ~(end > k + 1)
    <3>1. end > k + 1 => k + 1 \in 1 .. end - 1
      BY <1>9
    <3> QED BY <1>7, <1>9, <3>1
  <2>2. ~(end < k + 1)
    <3>1. end < k + 1 => end \in 1 .. k /\ end <= n
      BY <1>6, <1>9
    <3> QED BY <1>7, <1>9, <3>1
  <2> QED BY <1>6, <1>9, <2>1, <2>2
<1>11. SubSeq(s, 1, k) = a
  <2>1. SubSeq(s, 1, k) \in Seq(S) /\ Len(SubSeq(s, 1, k)) = k /\ \A j \in 1 .. k : SubSeq(s, 1, k)[j] = s[j]
    BY <1>4, <1>6
  <2> QED BY <1>6, <1>7, <2>1
<1>12. PICK i \in Nat : i = k + 2 /\ i = end + 1 /\ i \in 1 .. n + 1
  BY <1>6, <1>10
<1>13. SubSeq(s, i, n) = b
  <2>1. \A m \in 1 .. l : (k + 1) + m = m + i - 1
    BY <1>12
  <2> DEFINE u == SubSeq(s, i, n)
  <2>4. n - i + 1 = l /\ n = Len(s) /\ i \in 1 .. n + 1
    BY <1>6, <1>12
  <2>7. n = Len(s) /\ i \in 1 .. n + 1
    BY <2>4
  <2>2. u \in Seq(S) /\ Len(u) = n - i + 1 /\ \A m \in 1 .. n - i + 1 : u[m] = s[m + i - 1]
    BY <1>19, <2>7
  <2> HIDE DEF u
  <2>3. \A m \in 1 .. l : s[m + i - 1] = b[m]
    BY <1>7, <2>1
  <2>5. Len(u) = Len(b) /\ \A m \in 1 .. Len(u) : u[m] = b[m]
    BY <1>6, <2>2, <2>3, <2>4
  <2>6. u = b
    BY <2>2, <2>5, SeqEqual
  <2> QED BY <2>6 DEF u
<1>14. path[i] = <<b>>
  <2>1. i \in 1 .. Len(s) + 1
    BY <1>6, <1>12
  <2>2. ASSUME NEW j \in i .. Len(s) PROVE s[j] # "."
    <3>1. j - (k + 1) \in 1 .. l /\ (k + 1) + (j - (k + 1)) = j
      BY <1>6, <1>12
    <3> QED BY <1>7, <3>1
  <2>3. PICK name : name = SubSeq(s, i, Len(s)) /\ name = b
    BY <1>6, <1>13
  <2>4. IsPath(s, path)
    BY <1>8
  <2>5. \A j \in i .. Len(s) : s[j] # "."
    BY <2>2
  <2>6. path[i] = <<name>>
    BY <1>19, <2>1, <2>3, <2>4, <2>5, PathEnds
  <2> QED BY <2>3, <2>6
<1>15. path[1] = PathFrom(s, path, 1)
  <2>1. 1 \in 1 .. Len(s) + 1
    BY <1>6
  <2> QED BY <1>8, <2>1 DEF IsPath
<1>16. Led(PathFrom(s, path, 1), SubSeq(s, 1, end - 1), path[end + 1])
  <2>1. ~(end > Len(s))
    BY <1>6, <1>10
  <2> QED BY <1>9, <2>1, PathCases
<1>17. path[1] = <<a>> \o <<b>>
  <2>1. end - 1 = k
    BY <1>10
  <2> QED BY <1>11, <1>12, <1>14, <1>15, <1>16, <2>1 DEF Led
<1>18. <<a>> \o <<b>> = <<a, b>>
  BY TwoInARow, Zenon DEF InARow
<1> QED BY <1>8, <1>17, <1>18, Zenon DEF IsNamed

-----------------------------------------------------------------------------
(* json_extract. *)

MemberAt(members, name) == IF name \in DOMAIN members THEN members[name] ELSE JsonNull
Below(value, name) == IF value.kind = "object" THEN MemberAt(Members(value.members), name) ELSE JsonNull
ReachedAt(first, path, reached, i) == IF i = 1 THEN first ELSE Below(reached[i - 1], path[i])
Reaches(first, path, reached) == reached = [i \in DOMAIN path |-> ReachedAt(first, path, reached, i)]
Reached(first, path) == CHOOSE reached : Reaches(first, path, reached)

LEMMA ExtractIs ==
    ASSUME NEW fields, NEW path
    PROVE  JsonExtract(fields, path) = JsonToSql(Reached(MemberAt(fields, path[1]), path)[Len(path)])
BY Zenon DEF JsonExtract, Reached, Reaches, ReachedAt, MemberAt, Below

IsReached(fields, path, value) == JsonExtract(fields, path) = JsonToSql(value)

LEMMA ExtractOne ==
    ASSUME NEW fields, NEW name, name \in DOMAIN fields
    PROVE  IsReached(fields, <<name>>, fields[name])
<1> DEFINE path == <<name>>
           first == MemberAt(fields, path[1])
           r == [i \in DOMAIN path |-> first]
<1>1. DOMAIN path = {1} /\ Len(path) = 1 /\ path[1] = name
  OBVIOUS
<1>2. first = fields[name]
  BY <1>1 DEF MemberAt
<1> HIDE DEF path, first
<1>3. Reaches(first, path, r)
  <2>1. \A i \in DOMAIN path : ReachedAt(first, path, r, i) = first
    BY <1>1 DEF ReachedAt
  <2> QED BY <2>1, Zenon DEF Reaches
<1>4. Reaches(first, path, Reached(first, path))
  BY <1>3, Zenon DEF Reached
<1>5. Reached(first, path)[1] = ReachedAt(first, path, Reached(first, path), 1)
  BY <1>1, <1>4 DEF Reaches
<1>6. Reached(first, path)[1] = first
  BY <1>5 DEF ReachedAt
<1>7. JsonExtract(fields, path) = JsonToSql(Reached(first, path)[Len(path)])
  BY ExtractIs DEF first
<1> QED BY <1>1, <1>2, <1>6, <1>7, Zenon DEF IsReached, path

LEMMA ExtractTwo ==
    ASSUME NEW fields, NEW name, name \in DOMAIN fields, NEW value, value = fields[name], value.kind = "object",
           NEW member, member \in DOMAIN Members(value.members)
    PROVE  IsReached(fields, <<name, member>>, Members(value.members)[member])
<1> DEFINE path == <<name, member>>
           first == MemberAt(fields, path[1])
           found == Members(value.members)[member]
           r == [i \in DOMAIN path |-> IF i = 1 THEN first ELSE found]
<1>1. DOMAIN path = {1, 2} /\ Len(path) = 2 /\ path[1] = name /\ path[2] = member
  OBVIOUS
<1>2. first = value
  BY <1>1 DEF MemberAt
<1>8. Below(value, member) = found
  BY DEF Below, MemberAt
<1> HIDE DEF path, first, found
<1>3. Reaches(first, path, r)
  <2>1. r[1] = first /\ r[2] = found /\ 2 - 1 = 1
    BY <1>1
  <2>2. ReachedAt(first, path, r, 1) = r[1]
    BY <2>1 DEF ReachedAt
  <2>3. ReachedAt(first, path, r, 2) = r[2]
    BY <1>1, <1>2, <1>8, <2>1 DEF ReachedAt
  <2>4. r = [i \in DOMAIN path |-> r[i]]
    OBVIOUS
  <2> HIDE DEF r
  <2>5. \A i \in DOMAIN path : ReachedAt(first, path, r, i) = r[i]
    BY <1>1, <2>2, <2>3
  <2> QED BY <2>4, <2>5 DEF Reaches
<1>4. Reaches(first, path, Reached(first, path))
  BY <1>3, Zenon DEF Reached
<1> DEFINE reached == Reached(first, path)
<1> HIDE DEF r, reached
<1>5. /\ reached[1] = ReachedAt(first, path, reached, 1)
      /\ reached[2] = ReachedAt(first, path, reached, 2)
  BY <1>1, <1>4 DEF Reaches, reached
<1>6. reached[1] = first
  BY <1>5 DEF ReachedAt
<1>9. reached[2] = found
  BY <1>1, <1>2, <1>5, <1>6, <1>8 DEF ReachedAt
<1>7. JsonExtract(fields, path) = JsonToSql(reached[Len(path)])
  BY ExtractIs DEF first, reached
<1> QED BY <1>1, <1>7, <1>9, Zenon DEF IsReached, path, found

ExtractSame(fields, others, path) == JsonExtract(fields, path) = JsonExtract(others, path)

\* What is not the first name of a path does not matter.
LEMMA ExtractWithout ==
    ASSUME NEW fields, NEW key, NEW path, path[1] # key,
           NEW others, others = Restrict(fields, DOMAIN fields \ {key})
    PROVE  ExtractSame(fields, others, path)
<1>1. MemberAt(fields, path[1]) = MemberAt(others, path[1])
  <2>1. DOMAIN others = DOMAIN fields \ {key} /\ \A name \in DOMAIN others : others[name] = fields[name]
    BY DEF Restrict
  <2> QED BY <2>1 DEF MemberAt
<1> QED BY <1>1, ExtractIs, Zenon DEF ExtractSame

-----------------------------------------------------------------------------
(* Fields are found. *)

LEMMA NamesAgree == FieldNamesAgree
<1> SUFFICES ValidateFieldName(input) <=> IsSafeJsonPathSegment(input)
  BY DEF FieldNamesAgree
<1>1. Head(input) = input[1]
  OBVIOUS
<1>2. Range(input) \subseteq FieldContinue <=> \A i \in DOMAIN input : input[i] \in FieldContinue
  BY DEF Range
<1> QED BY <1>1, <1>2, Zenon DEF ValidateFieldName, IsSafeJsonPathSegment

LEMMA RecordInJson ==
    ASSUME Typed, Recorded, NEW p \in LastPairs
    PROVE  StoredAsJson(p, FromJson)
<1>1. session = "records" /\ input # <<>>
  BY DEF Recorded, About
<1>2. PICK S, T : IsRecord(S, input) /\ input \in Seq(T)
  BY <1>1, InputIsRecord
<1>3. PICK json : JsonEntry(input, json)
  BY JsonEntryIs
<1>4. FromJson = json
  BY <1>3, ChosenIs, Zenon DEF JsonEntry, FromJson
<1>5. PICK i : LastWith(input, i) /\ p = input[i]
  BY <1>2, LastPairsAre
<1>6. StoredAsJson(p, json)
  BY <1>2, <1>3, <1>5, LastInJson
<1> QED BY <1>4, <1>6

LEMMA RecordInLogfmt ==
    ASSUME Typed, Recorded, Loggable, NEW p \in LastPairs
    PROVE  StoredAsLogfmt(p, FromLogfmt)
<1>1. session = "records" /\ input # <<>>
  BY DEF Recorded, About
<1>2. PICK S, T : IsRecord(S, input) /\ input \in Seq(T)
  BY <1>1, InputIsRecord
<1>3. PICK logfmt : LogfmtEntry(input, logfmt)
  BY <1>2, LogfmtEntryIs, LoggableHasKeys
<1>4. FromLogfmt = logfmt
  BY <1>3, ChosenIs, Zenon DEF LogfmtEntry, FromLogfmt
<1>5. PICK i : LastWith(input, i) /\ p = input[i]
  BY <1>2, LastPairsAre
<1>6. StoredAsLogfmt(p, logfmt)
  BY <1>2, <1>3, <1>5, LastInLogfmt
<1> QED BY <1>4, <1>6

LEMMA RecordPair ==
    ASSUME Typed, Recorded, NEW p \in Range(input)
    PROVE  /\ IsPair(p)
           /\ p.value.kind = "object" =>
                /\ p.value.members \in Seq(Range(p.value.members))
                /\ \A member \in Range(p.value.members) : IsPair(member)
<1>1. "records" \in DOMAIN Sessions /\ input \in Seq(Sessions["records"].alphabet)
  BY DEF Typed, Recorded, About
<1>2. p \in Sessions["records"].alphabet
  BY <1>1 DEF Range
<1> QED BY <1>1, <1>2, LinesAssumption

LEMMA LastInRange ==
    ASSUME NEW pairs, NEW p \in LastOf(pairs)
    PROVE  p \in Range(pairs)
BY Zenon DEF LastOf, Range

LEMMA UndottedIs ==
    ASSUME NEW S, NEW name \in Seq(S)
    PROVE  "." \notin Range(name) <=> Undotted(name)
<1>1. DOMAIN name = 1 .. Len(name)
  OBVIOUS
<1> QED BY <1>1 DEF Undotted, Range

\* A field without a dot in its name is found by its name.
LEMMA FoundByName ==
    ASSUME Typed, Recorded, NEW p \in LastPairs, "." \notin Range(p.key),
           ~(p.key \in KnownKeys /\ IsScalar(p.value))
    PROVE  IsReached(FromJson.fields, JsonPath(p.key), p.value)
<1>1. PICK S, key : key \in Seq(S) /\ key = p.key
  <2>1. p \in Range(input)
    BY LastInRange DEF LastPairs
  <2> QED BY <2>1, RecordPair DEF IsPair
<1>2. JsonPath(key) = <<key>>
  <2>1. Undotted(key)
    BY <1>1, UndottedIs
  <2>2. IsNamed(key, <<key>>)
    BY <1>1, <2>1, PathOne, Zenon
  <2> QED BY <2>2, Zenon DEF IsNamed
<1>3. key \in DOMAIN FromJson.fields /\ FromJson.fields[key] = p.value
  BY <1>1, RecordInJson DEF StoredAsJson
<1>4. PICK fields : fields = FromJson.fields
  OBVIOUS
<1>5. IsReached(fields, <<key>>, fields[key])
  BY <1>3, <1>4, ExtractOne
<1> QED BY <1>1, <1>2, <1>3, <1>4, <1>5, Zenon

\* A member of an object is found by both names, whatever the object's key.
LEMMA MemberByName ==
    ASSUME Typed, Recorded, NEW p \in LastPairs, "." \notin Range(p.key), p.value.kind = "object",
           NEW m \in LastOf(p.value.members), "." \notin Range(m.key)
    PROVE  IsReached(FromJson.fields, JsonPath(p.key \o <<".">> \o m.key), m.value)
<1>20. PICK Q, key : key \in Seq(Q) /\ key = p.key
  <2>1. p \in Range(input)
    BY LastInRange DEF LastPairs
  <2> QED BY <2>1, RecordPair DEF IsPair
<1>2. /\ p.value.members \in Seq(Range(p.value.members))
      /\ \A member \in Range(p.value.members) : IsPair(member)
  <2>1. p \in Range(input)
    BY LastInRange DEF LastPairs
  <2> QED BY <2>1, RecordPair
<1>21. PICK R, name : name \in Seq(R) /\ name = m.key
  <2>1. m \in Range(p.value.members)
    BY LastInRange
  <2> QED BY <1>2, <2>1 DEF IsPair
<1>22. PICK S : Q \subseteq S /\ R \subseteq S /\ "." \in S
  <2> DEFINE S == Q \cup R \cup {"."}
  <2>1. Q \subseteq S /\ R \subseteq S /\ "." \in S
    OBVIOUS
  <2> QED BY <2>1
<1>1. key \in Seq(S) /\ key = p.key
  BY <1>20, <1>22
<1>3. name \in Seq(S) /\ name = m.key
  BY <1>21, <1>22
<1>4. PICK dot \in S : dot = "."
  BY <1>22
<1>5. PICK both : DotBetween(both, key, dot, name) /\ both = p.key \o <<".">> \o m.key
  BY <1>1, <1>3, <1>4, Zenon DEF DotBetween
<1>6. JsonPath(both) = <<key, name>>
  <2>1. Undotted(key) /\ Undotted(name)
    BY <1>1, <1>3, UndottedIs
  <2>2. IsNamed(both, <<key, name>>)
    BY <1>1, <1>3, <1>4, <1>5, <2>1, PathTwo, Zenon
  <2> QED BY <2>2, Zenon DEF IsNamed
<1>7. PICK fields, value : fields = FromJson.fields /\ value = p.value
  OBVIOUS
<1>8. key \in DOMAIN fields /\ fields[key] = value
  <2>1. ~IsScalar(p.value)
    BY DEF IsScalar
  <2> QED BY <1>1, <1>7, <2>1, RecordInJson DEF StoredAsJson
<1>9. PICK pairs, T : pairs = value.members /\ pairs \in Seq(T)
  BY <1>2, <1>7
<1>10. PICK i : LastWith(pairs, i) /\ m = pairs[i]
  <2>1. DOMAIN pairs = 1 .. Len(pairs)
    BY <1>9
  <2>2. m \in LastOf(pairs)
    BY <1>7, <1>9
  <2> QED BY <2>1, <2>2, Zenon DEF LastOf, LastWith
<1>11. PICK members : members = Members(pairs)
  OBVIOUS
<1>12. name \in DOMAIN members /\ members[name] = m.value
  BY <1>3, <1>9, <1>10, <1>11, MembersAre
<1>13. IsReached(fields, <<key, name>>, Members(value.members)[name])
  <2>1. value.kind = "object" /\ name \in DOMAIN Members(value.members)
    BY <1>7, <1>9, <1>11, <1>12
  <2> QED BY <1>8, <2>1, ExtractTwo
<1> QED BY <1>5, <1>6, <1>7, <1>9, <1>11, <1>12, <1>13, Zenon

\* A key with a dot is found by no name.
LEMMA DottedIsNotFound ==
    ASSUME Typed, Recorded, NEW p \in LastPairs, "." \in Range(p.key), NEW name \in Names
    PROVE  JsonExtract(FromJson.fields, JsonPath(name)) =
             JsonExtract(Restrict(FromJson.fields, DOMAIN FromJson.fields \ {p.key}), JsonPath(name))
<1> DEFINE keys == UNION {Range(q.key) : q \in Range(input)}
           S == keys \cup {"b", "."}
<1>1. keys \subseteq S /\ "b" \in S /\ "." \in S
  OBVIOUS
<1>10. \A q \in Range(input) : Range(q.key) \subseteq keys
  OBVIOUS
<1> HIDE DEF S, keys
<1>2. \A q \in Range(input) : q.key \in Seq(S)
  <2>1. \A q \in Range(input) : q.key \in Seq(Range(q.key))
    BY RecordPair DEF IsPair
  <2>2. \A q \in Range(input) : Range(q.key) \subseteq S
    BY <1>1, <1>10
  <2> SUFFICES ASSUME NEW q \in Range(input) PROVE q.key \in Seq(S)
    OBVIOUS
  <2>3. PICK k, R : k = q.key /\ R = Range(k) /\ k \in Seq(R) /\ R \subseteq S
    BY <2>1, <2>2
  <2>4. k \in Seq(S)
    BY <2>3
  <2> QED BY <2>3, <2>4
<1>3. \A q \in LastPairs : q \in Range(input)
  BY LastInRange DEF LastPairs
<1>4. name \in Seq(S)
  <2>1. CASE name \in {q.key : q \in Range(input)}
    BY <1>2, <2>1
  <2>2. CASE name \in {q.key \o <<".", "b">> : q \in LastPairs}
    <3>1. PICK a \in Seq(S), b \in Seq(S) : name = a \o b
      <4> DEFINE d == <<".", "b">>
      <4>1. d \in Seq(S)
        BY <1>1
      <4>2. name \in {q.key \o d : q \in LastPairs}
        BY <2>2
      <4> HIDE DEF d
      <4>3. PICK q \in LastPairs : name = q.key \o d
        BY <4>2, Zenon
      <4>4. q.key \in Seq(S)
        BY <1>2, <1>3
      <4> QED BY <4>1, <4>3, <4>4, Zenon
    <3>2. PICK ab : ab = a \o b /\ ab \in Seq(S)
      <4>1. a \o b \in Seq(S)
        BY ConcatProperties
      <4> QED BY <4>1, Zenon
    <3> QED BY <3>1, <3>2, Zenon
  <2> QED BY <2>1, <2>2 DEF Names
<1>5. PICK path : IsPath(name, path) /\ JsonPath(name) = path[1]
  BY <1>4, PathIs
<1>6. Undotted(JsonPath(name)[1])
  <2>1. 1 \in 1 .. Len(name) + 1
    BY <1>4
  <2> QED BY <1>4, <1>5, <2>1, PathTyped
<1>7. JsonPath(name)[1] # p.key
  <2>1. p.key \in Seq(S)
    BY <1>2, <1>3
  <2>2. ~Undotted(p.key)
    BY <2>1, UndottedIs
  <2> QED BY <1>6, <2>2
<1>8. PICK fields, others, key :
        fields = FromJson.fields /\ key = p.key /\ others = Restrict(fields, DOMAIN fields \ {key})
  OBVIOUS
<1>9. ExtractSame(fields, others, JsonPath(name))
  BY <1>7, <1>8, ExtractWithout
<1> QED BY <1>8, <1>9, Zenon DEF ExtractSame

LEMMA NamesReach == Typed => ReachedByName
<1> SUFFICES ASSUME Typed, Recorded, NEW p \in LastPairs
             PROVE  LET fields == FromJson.fields
                        found(name) == JsonExtract(fields, JsonPath(name))
                        dotted == "." \in Range(p.key)
                    IN  /\ (IsName(p.key) /\ ~dotted /\ p.key \notin KnownKeys) => found(p.key) = JsonToSql(p.value)
                        /\ (~dotted /\ p.value.kind = "object") =>
                                \A m \in LastOf(p.value.members) :
                                    (IsName(p.key \o <<".">> \o m.key) /\ "." \notin Range(m.key)) =>
                                        found(p.key \o <<".">> \o m.key) = JsonToSql(m.value)
                        /\ dotted =>
                                \A name \in {n \in Names : IsName(n)} :
                                    found(name) = JsonExtract(Restrict(fields, DOMAIN fields \ {p.key}), JsonPath(name))
  BY Zenon DEF ReachedByName
<1>1. ASSUME "." \notin Range(p.key), p.key \notin KnownKeys
      PROVE  JsonExtract(FromJson.fields, JsonPath(p.key)) = JsonToSql(p.value)
  BY <1>1, FoundByName DEF IsReached
<1>2. ASSUME "." \notin Range(p.key), p.value.kind = "object", NEW m \in LastOf(p.value.members), "." \notin Range(m.key)
      PROVE  JsonExtract(FromJson.fields, JsonPath(p.key \o <<".">> \o m.key)) = JsonToSql(m.value)
  BY <1>2, MemberByName, Zenon DEF IsReached
<1>3. ASSUME "." \in Range(p.key), NEW name \in Names
      PROVE  JsonExtract(FromJson.fields, JsonPath(name)) =
               JsonExtract(Restrict(FromJson.fields, DOMAIN FromJson.fields \ {p.key}), JsonPath(name))
  BY <1>3, DottedIsNotFound, Zenon
<1> QED BY <1>1, <1>2, <1>3, Zenon

\* A text without a line break is kept as it is.
LEMMA KeptSame ==
    ASSUME NEW S, Marked(S), NEW text \in Seq(S), "\n" \notin Range(text)
    PROVE  Kept(text) = text
<1>1. PICK parts \in Seq(Seq(S)) : parts = KeptParts(text) /\ Len(parts) = Len(text)
                                   /\ \A k \in 1 .. Len(text) : parts[k] = KeptOf(text[k])
  BY EscapedTyped
<1>2. PICK pre : JoinedSoFar(S, parts, pre) /\ FlattenSeq(parts) = pre[Len(parts)]
  BY FlattenIs
<1>3. PICK n \in Nat : n = Len(text) /\ n = Len(parts) /\ DOMAIN text = 1 .. n
  BY <1>1
<1>4. \A k \in 1 .. n : text[k] \in S /\ text[k] # "\n"
  <2>1. \A k \in 1 .. n : text[k] \in S
    BY <1>3
  <2>2. \A k \in 1 .. n : text[k] \in Range(text)
    BY <1>3, Zenon DEF Range
  <2>3. \A k \in 1 .. n : text[k] # "\n"
    BY <2>2, Zenon
  <2> QED BY <2>1, <2>3
<1>5. \A k \in 1 .. n : parts[k] = <<text[k]>>
  <2>1. \A c : c # "\n" => KeptOf(c) = <<c>>
    BY Zenon DEF KeptOf
  <2> QED BY <1>1, <1>3, <1>4, <2>1
<1>6. pre[0] = <<>> /\ (\A k \in 0 .. n : pre[k] \in Seq(S)) /\ \A k \in 1 .. n : pre[k] = pre[k - 1] \o parts[k]
  BY <1>2, <1>3 DEF JoinedSoFar
<1> DEFINE Good == {k \in 0 .. n : Len(pre[k]) = k /\ \A j \in 1 .. k : pre[k][j] = text[j]}
<1>7. 0 \in Good
  <2>1. PICK none \in Seq(S) : none = pre[0] /\ Len(none) = 0
    BY <1>6
  <2> QED BY <2>1
<1>8. ASSUME NEW k \in 0 .. n - 1, k \in Good PROVE k + 1 \in Good
  <2> DEFINE l == k + 1
  <2>1. l \in 1 .. n /\ l \in 0 .. n /\ l - 1 = k
    OBVIOUS
  <2>2. PICK front \in Seq(S) : front = pre[k] /\ Len(front) = k /\ \A j \in 1 .. k : front[j] = text[j]
    BY <1>6, <1>8
  <2> HIDE DEF l
  <2>3. PICK c \in S : c = text[l]
    BY <1>4, <2>1
  <2>4. PICK grown : grown = front \o <<c>>
    OBVIOUS
  <2>5. grown = pre[l]
    BY <1>5, <1>6, <2>1, <2>2, <2>3, <2>4, Zenon
  <2>6. Len(grown) = Len(front) + 1 /\ grown[Len(front) + 1] = c /\ Continues(front, grown)
    BY <2>4, Opened
  <2>7. Len(grown) = k + 1 /\ grown[k + 1] = c /\ \A j \in 1 .. k : grown[j] = front[j]
    BY <2>2, <2>6 DEF Continues
  <2>8. \A j \in 1 .. k + 1 : j \in 1 .. k \/ j = k + 1
    OBVIOUS
  <2>9. \A j \in 1 .. k + 1 : grown[j] = text[j]
    BY <2>2, <2>3, <2>7, <2>8 DEF l
  <2> QED BY <2>1, <2>5, <2>7, <2>9 DEF l
<1>9. n \in Good
  <2> HIDE DEF Good
  <2>1. \A k \in 0 .. n : k \in Good
    BY <1>7, <1>8, Upwards
  <2> QED BY <2>1
<1>10. PICK kept \in Seq(S) : kept = pre[n] /\ Len(kept) = n /\ \A j \in 1 .. n : kept[j] = text[j]
  BY <1>6, <1>9
<1>11. kept = text
  BY <1>3, <1>10, SeqEqual
<1> QED BY <1>1, <1>2, <1>3, <1>10, <1>11, KeptIs, Zenon

\* What a number or a truth value is in SQL, typed or read from JSON, and that
\* it is never a text.
LEMMA TypedAsRead ==
    ASSUME NEW value, value.kind \in {"number", "bool"}
    PROVE  /\ JsonToSql(value) = ValueToBind(value) /\ ValueToBind(value).type = "number"
           /\ value.kind = "number" => ValueToBind(value).text = value.text
<1>1. CASE value.kind = "number"
  <2>1. value.kind # "null" /\ value.kind # "bool" /\ value.kind # "string" /\ value.kind \notin {"string", "object"}
    BY <1>1
  <2>2. JsonToSql(value) = Sql("number", value.text)
    BY <1>1, <2>1, Zenon DEF JsonToSql
  <2>3. ValueToBind(value) = Sql("number", value.text)
    BY <1>1, <2>1, Zenon DEF ValueToBind
  <2>4. Sql("number", value.text).type = "number" /\ Sql("number", value.text).text = value.text
    BY DEF Sql
  <2> QED BY <2>2, <2>3, <2>4, Zenon
<1>2. CASE value.kind = "bool"
  <2>1. value.kind # "null" /\ value.kind # "number" /\ value.kind # "string" /\ value.kind \notin {"string", "object"}
    BY <1>2
  <2> DEFINE as == IF value.text = True THEN <<"1">> ELSE <<"0">>
  <2>2. JsonToSql(value) = Sql("number", as)
    BY <1>2, <2>1, Zenon DEF JsonToSql
  <2>3. ValueToBind(value) = Sql("number", as)
    BY <1>2, <2>1, Zenon DEF ValueToBind
  <2> HIDE DEF as
  <2>4. Sql("number", as).type = "number"
    BY DEF Sql
  <2> QED BY <2>1, <2>2, <2>3, <2>4, Zenon
<1> QED BY <1>1, <1>2

LEMMA TextAsRead ==
    ASSUME NEW text
    PROVE  /\ JsonToSql(String(text)) = ValueToBind(String(text))
           /\ ValueToBind(String(text)).type = "text" /\ ValueToBind(String(text)).text = text
<1> DEFINE value == String(text)
<1>1. value.kind = "string" /\ value.text = text
  BY DEF String, Scalar
<1> HIDE DEF value
<1>2. value.kind # "null" /\ value.kind # "number" /\ value.kind # "bool" /\ value.kind \in {"string", "object"}
  BY <1>1
<1>3. JsonToSql(value) = Sql("text", value.text)
  BY <1>1, <1>2, Zenon DEF JsonToSql
<1>4. ValueToBind(value) = Sql("text", value.text)
  BY <1>1, <1>2, Zenon DEF ValueToBind
<1>5. Sql("text", value.text).type = "text" /\ Sql("text", value.text).text = value.text
  BY DEF Sql
<1> QED BY <1>1, <1>3, <1>4, <1>5, Zenon DEF value

\* What a comparison selects: a field that a path reaches, a column, or a level.
LEMMA SelectsIs ==
    ASSUME NEW entry, NEW field, NEW value
    PROVE  /\ field \in KnownKeys \ {Level} =>
                (Selects(entry, field, value) <=> ValueToBind(value).text \in entry.known[field])
           /\ field \notin KnownKeys =>
                (Selects(entry, field, value) <=> JsonExtract(entry.fields, JsonPath(field)) = ValueToBind(value))
<1>1. Level \in KnownKeys
  BY DEF KnownKeys
<1>2. CASE field = Level
  BY <1>1, <1>2
<1>3. CASE field # Level /\ field \in KnownKeys
  <2>1. field \in KnownKeys \ {Level}
    BY <1>3
  <2> QED BY <1>3, <2>1, Zenon DEF Selects
<1>4. CASE field \notin KnownKeys
  <2>1. field # Level /\ field \notin KnownKeys \ {Level}
    BY <1>1, <1>4
  <2> QED BY <1>4, <2>1, Zenon DEF Selects
<1> QED BY <1>2, <1>3, <1>4, Zenon

LEMMA SelectsLevelIs ==
    ASSUME NEW entry, NEW value, NEW bound, bound = ValueToBind(value)
    PROVE  Selects(entry, Level, value) <=>
             /\ bound.type = "text"
             /\ \E level \in entry.known[Level] : Lowered(level, CaseFold) = Lowered(bound.text, ToLowercase)
BY Zenon DEF Selects

LEMMA LoweredTwice ==
    ASSUME NEW text
    PROVE  Lowered(Lowered(text, ToLowercase), ToLowercase) = Lowered(text, ToLowercase)
<1> DEFINE low(c) == IF c \in DOMAIN ToLowercase THEN ToLowercase[c] ELSE c
           once == Lowered(text, ToLowercase)
<1>1. \A c : low(low(c)) = low(c)
  <2>1. \A c \in DOMAIN ToLowercase :
           ToLowercase[c] \in DOMAIN ToLowercase => ToLowercase[ToLowercase[c]] = ToLowercase[c]
    BY LinesAssumption
  <2> QED BY <2>1
<1> HIDE DEF low
<1>2. once = [i \in DOMAIN text |-> low(text[i])]
  BY DEF Lowered, low
<1>3. Lowered(once, ToLowercase) = [i \in DOMAIN once |-> low(once[i])]
  BY DEF Lowered, low
<1> HIDE DEF once
<1>4. DOMAIN once = DOMAIN text /\ \A i \in DOMAIN text : once[i] = low(text[i])
  BY <1>2
<1>5. [i \in DOMAIN once |-> low(once[i])] = [i \in DOMAIN text |-> low(text[i])]
  BY <1>1, <1>4
<1> QED BY <1>2, <1>3, <1>5 DEF once

\* Texts without a line break are kept, in both formats.
LEMMA TextIsKept ==
    ASSUME Typed, Recorded, NEW p \in LastPairs, "\n" \notin Range(p.value.text)
    PROVE  Kept(p.value.text) = p.value.text
<1>1. p \in Range(input)
  BY LastInRange DEF LastPairs
<1>2. PICK S, T : IsRecord(S, input) /\ input \in Seq(T)
  BY InputIsRecord DEF Recorded, About
<1>3. PICK i \in 1 .. Len(input) : p = input[i]
  BY <1>1, <1>2 DEF Range
<1>4. Marked(S) /\ p.value.text \in Seq(S)
  BY <1>2, <1>3 DEF IsRecord
<1>5. PICK text \in Seq(S) : text = p.value.text
  BY <1>4
<1>6. Kept(text) = text
  BY <1>4, <1>5, KeptSame
<1> QED BY <1>5, <1>6

\* A column is the same in every entry.
LEMMA ColumnInEntries ==
    ASSUME Typed, Recorded, NEW p \in LastPairs, "\n" \notin Range(p.value.text), IsScalar(p.value),
           p.key \in KnownKeys, NEW entry \in Entries
    PROVE  entry.known[p.key] = {p.value.text}
<1>1. CASE entry = FromJson
  <2>1. FromJson.known[p.key] = {p.value.text}
    BY RecordInJson, Zenon DEF StoredAsJson
  <2> QED BY <1>1, <2>1
<1>2. CASE Loggable /\ entry = FromLogfmt
  <2>1. FromLogfmt.known[p.key] = {Kept(p.value.text)}
    BY <1>2, RecordInLogfmt, Zenon DEF StoredAsLogfmt
  <2> QED BY <1>2, <2>1, TextIsKept
<1> QED BY <1>1, <1>2 DEF Entries

LEMMA TypesFollow == Typed => TypesFollowTheFormat
<1> SUFFICES ASSUME Typed, Recorded,
                    NEW p \in {q \in LastPairs : q.value.kind \in {"number", "bool"} /\ IsName(q.key) /\ "." \notin Range(q.key)}
             PROVE  LET quoted == String(p.value.text)
                        typed == IF p.value.kind = "number" THEN {quoted, p.value} ELSE {quoted}
                    IN  /\ p.key \notin KnownKeys =>
                                /\ Selects(FromJson, p.key, p.value) /\ ~Selects(FromJson, p.key, quoted)
                                /\ Loggable => Selects(FromLogfmt, p.key, quoted) /\ ~Selects(FromLogfmt, p.key, p.value)
                        /\ p.key \in KnownKeys \ {Level} =>
                                \A entry \in Entries, value \in typed : Selects(entry, p.key, value)
  BY Zenon DEF TypesFollowTheFormat
<1> DEFINE quoted == String(p.value.text)
           typed == IF p.value.kind = "number" THEN {quoted, p.value} ELSE {quoted}
<1>1. p \in LastPairs /\ p.value.kind \in {"number", "bool"} /\ "." \notin Range(p.key)
  OBVIOUS
<1>2. p \in Range(input)
  BY <1>1, LastInRange DEF LastPairs
<1>3. PICK S, key : key \in Seq(S) /\ key = p.key
  BY <1>2, RecordPair DEF IsPair
<1>4. "\n" \notin Range(p.value.text)
  <2>1. p.value.kind # "string"
    BY <1>1
  <2> QED BY <1>2, <2>1, RecordPair DEF IsPair, IsBare
<1>5. Kept(p.value.text) = p.value.text
  BY <1>1, <1>4, TextIsKept
<1>6. IsScalar(p.value)
  BY <1>1 DEF IsScalar
<1>7. /\ JsonToSql(p.value) = ValueToBind(p.value) /\ ValueToBind(p.value).type = "number"
      /\ p.value.kind = "number" => ValueToBind(p.value).text = p.value.text
  BY <1>1, TypedAsRead
<1>8. /\ JsonToSql(quoted) = ValueToBind(quoted) /\ ValueToBind(quoted).type = "text"
      /\ ValueToBind(quoted).text = p.value.text
  BY TextAsRead
<1>9. ValueToBind(quoted) # ValueToBind(p.value)
  <2>1. "text" # "number"
    OBVIOUS
  <2> QED BY <1>7, <1>8, <2>1, Zenon
<1>10. ASSUME p.key \notin KnownKeys
       PROVE  Selects(FromJson, p.key, p.value) /\ ~Selects(FromJson, p.key, quoted)
  <2>1. JsonExtract(FromJson.fields, JsonPath(p.key)) = JsonToSql(p.value)
    BY <1>1, <1>10, FoundByName DEF IsReached
  <2> QED BY <1>7, <1>9, <1>10, <2>1, SelectsIs, Zenon
<1>11. ASSUME p.key \notin KnownKeys, Loggable
       PROVE  Selects(FromLogfmt, p.key, quoted) /\ ~Selects(FromLogfmt, p.key, p.value)
  <2>3. PICK fields : fields = FromLogfmt.fields
    OBVIOUS
  <2>4. key \in DOMAIN fields /\ fields[key] = quoted
    BY <1>1, <1>3, <1>5, <1>11, <2>3, RecordInLogfmt, Zenon DEF StoredAsLogfmt
  <2>5. IsReached(fields, <<key>>, fields[key])
    BY <2>4, ExtractOne
  <2>6. JsonPath(key) = <<key>>
    <3>1. Undotted(key)
      BY <1>1, <1>3, UndottedIs
    <3> QED BY <1>3, <3>1, PathOne DEF IsNamed
  <2>7. JsonExtract(FromLogfmt.fields, JsonPath(p.key)) = JsonToSql(quoted)
    BY <1>3, <2>3, <2>4, <2>5, <2>6, Zenon DEF IsReached
  <2> QED BY <1>8, <1>9, <1>11, <2>7, SelectsIs, Zenon
<1>12. ASSUME p.key \in KnownKeys \ {Level}, NEW entry \in Entries, NEW value \in typed
       PROVE  Selects(entry, p.key, value)
  <2>1. entry.known[p.key] = {p.value.text}
    BY <1>1, <1>4, <1>6, <1>12, ColumnInEntries
  <2>2. ValueToBind(value).text = p.value.text
    <3>1. value = quoted \/ (p.value.kind = "number" /\ value = p.value)
      <4> HIDE DEF quoted
      <4> QED OBVIOUS
    <3> QED BY <1>7, <1>8, <3>1, Zenon
  <2>3. ValueToBind(value).text \in entry.known[p.key]
    BY <2>1, <2>2
  <2> QED BY <1>12, <2>3, SelectsIs, Zenon
<1> QED BY <1>10, <1>11, <1>12, Zenon

LEMMA LevelsFound == Typed => LevelsAreTexts
<1> SUFFICES ASSUME Typed, Recorded,
                    NEW p \in {q \in LastPairs : q.key = Level /\ IsScalar(q.value) /\ "\n" \notin Range(q.value.text)},
                    NEW entry \in Entries
             PROVE  LET text == p.value.text
                        lower == Lowered(text, ToLowercase)
                    IN  /\ \A typed \in {text, lower} :
                                Selects(entry, Level, String(typed)) <=> Lowered(text, CaseFold) = lower
                        /\ p.value.kind \in {"number", "bool"} => ~Selects(entry, Level, p.value)
  BY Zenon DEF LevelsAreTexts
<1>1. p \in LastPairs /\ p.key = Level /\ IsScalar(p.value) /\ "\n" \notin Range(p.value.text)
  OBVIOUS
<1>2. PICK text, lower : text = p.value.text /\ lower = Lowered(text, ToLowercase)
  OBVIOUS
<1>3. entry.known[Level] = {text}
  <2>1. p.key \in KnownKeys
    BY <1>1 DEF KnownKeys
  <2>2. entry.known[p.key] = {p.value.text}
    BY <1>1, <2>1, ColumnInEntries
  <2> QED BY <1>1, <1>2, <2>2
<1>4. ASSUME NEW typed \in {text, lower}
      PROVE  Selects(entry, Level, String(typed)) <=> Lowered(text, CaseFold) = lower
  <2>1. Lowered(typed, ToLowercase) = lower
    BY <1>2, <1>4, LoweredTwice
  <2>2. PICK bound : bound = ValueToBind(String(typed)) /\ bound.type = "text" /\ bound.text = typed
    BY TextAsRead
  <2>3. Selects(entry, Level, String(typed)) <=>
             /\ bound.type = "text"
             /\ \E level \in entry.known[Level] : Lowered(level, CaseFold) = Lowered(bound.text, ToLowercase)
    BY <2>2, SelectsLevelIs
  <2> QED BY <1>3, <2>1, <2>2, <2>3
<1>5. p.value.kind \in {"number", "bool"} => ~Selects(entry, Level, p.value)
  <2> SUFFICES ASSUME p.value.kind \in {"number", "bool"} PROVE ~Selects(entry, Level, p.value)
    OBVIOUS
  <2>1. PICK bound : bound = ValueToBind(p.value) /\ bound.type = "number"
    BY TypedAsRead
  <2>2. bound.type # "text"
    BY <2>1
  <2> QED BY <2>1, <2>2, SelectsLevelIs
<1> QED BY <1>2, <1>4, <1>5, Zenon

-----------------------------------------------------------------------------
(* Patterns: from the end of the pattern. *)

SameChar(text, c, j) == j <= Len(text) /\ CaseFold[c] = CaseFold[text[j]]
MatchAt(text, pattern, matches, i, j) ==
    CASE i > Len(pattern) -> j > Len(text)
      [] i <= Len(pattern) /\ pattern[i] = "%" -> \E k \in matches[i + 1] : j <= k
      [] i <= Len(pattern) /\ pattern[i] = "_" -> j <= Len(text) /\ j + 1 \in matches[i + 1]
      [] i <= Len(pattern) /\ pattern[i] = "\\" ->
            i < Len(pattern) /\ SameChar(text, pattern[i + 1], j) /\ j + 1 \in matches[i + 2]
      [] OTHER -> SameChar(text, pattern[i], j) /\ j + 1 \in matches[i + 1]
MatchFrom(text, pattern, matches, i) == {j \in 1 .. Len(text) + 1 : MatchAt(text, pattern, matches, i, j)}
IsMatches(text, pattern, matches) ==
    matches = [i \in 1 .. Len(pattern) + 1 |-> MatchFrom(text, pattern, matches, i)]

LEMMA MatchCases ==
    ASSUME NEW S, NEW pattern \in Seq(S), NEW text, NEW matches, NEW i \in Nat, NEW j
    PROVE  /\ i > Len(pattern) => (MatchAt(text, pattern, matches, i, j) <=> j > Len(text))
           /\ i <= Len(pattern) /\ pattern[i] = "%" =>
                (MatchAt(text, pattern, matches, i, j) <=> \E k \in matches[i + 1] : j <= k)
           /\ i <= Len(pattern) /\ pattern[i] = "_" =>
                (MatchAt(text, pattern, matches, i, j) <=> j <= Len(text) /\ j + 1 \in matches[i + 1])
           /\ i <= Len(pattern) /\ pattern[i] = "\\" =>
                (MatchAt(text, pattern, matches, i, j) <=>
                    i < Len(pattern) /\ SameChar(text, pattern[i + 1], j) /\ j + 1 \in matches[i + 2])
           /\ i <= Len(pattern) /\ pattern[i] \notin {"%", "_", "\\"} =>
                (MatchAt(text, pattern, matches, i, j) <=>
                    SameChar(text, pattern[i], j) /\ j + 1 \in matches[i + 1])
<1>1. i <= Len(pattern) <=> ~(i > Len(pattern))
  <2>1. PICK n \in Nat : n = Len(pattern)
    OBVIOUS
  <2>2. i <= n <=> ~(i > n)
    OBVIOUS
  <2> QED BY <2>1, <2>2
<1>2. "%" # "_" /\ "%" # "\\" /\ "_" # "\\"
  OBVIOUS
<1>3. CASE i > Len(pattern)
  <2>1. MatchAt(text, pattern, matches, i, j) <=> j > Len(text)
    BY <1>1, <1>3, Zenon DEF MatchAt
  <2> QED BY <1>1, <1>3, <2>1, Zenon
<1>4. CASE i <= Len(pattern) /\ pattern[i] = "%"
  <2>1. pattern[i] # "_" /\ pattern[i] # "\\"
    BY <1>2, <1>4
  <2>2. MatchAt(text, pattern, matches, i, j) <=> \E k \in matches[i + 1] : j <= k
    BY <1>1, <1>4, <2>1, Zenon DEF MatchAt
  <2> QED BY <1>1, <1>4, <2>1, <2>2, Zenon
<1>5. CASE i <= Len(pattern) /\ pattern[i] = "_"
  <2>1. pattern[i] # "%" /\ pattern[i] # "\\"
    BY <1>2, <1>5
  <2>2. MatchAt(text, pattern, matches, i, j) <=> j <= Len(text) /\ j + 1 \in matches[i + 1]
    BY <1>1, <1>5, <2>1, Zenon DEF MatchAt
  <2> QED BY <1>1, <1>5, <2>1, <2>2, Zenon
<1>6. CASE i <= Len(pattern) /\ pattern[i] = "\\"
  <2>1. pattern[i] # "%" /\ pattern[i] # "_"
    BY <1>2, <1>6
  <2>2. MatchAt(text, pattern, matches, i, j) <=>
            i < Len(pattern) /\ SameChar(text, pattern[i + 1], j) /\ j + 1 \in matches[i + 2]
    BY <1>1, <1>6, <2>1, Zenon DEF MatchAt
  <2> QED BY <1>1, <1>6, <2>1, <2>2, Zenon
<1>7. CASE i <= Len(pattern) /\ pattern[i] \notin {"%", "_", "\\"}
  <2>1. pattern[i] # "%" /\ pattern[i] # "_" /\ pattern[i] # "\\"
    BY <1>7
  <2>2. MatchAt(text, pattern, matches, i, j) <=> SameChar(text, pattern[i], j) /\ j + 1 \in matches[i + 1]
    BY <1>1, <1>7, <2>1, Zenon DEF MatchAt
  <2> QED BY <1>1, <1>7, <2>1, <2>2, Zenon
<1> QED BY <1>1, <1>3, <1>4, <1>5, <1>6, <1>7, Zenon

LEMMA MatchesEnd ==
    ASSUME NEW S, NEW pattern \in Seq(S), NEW text, NEW matches, NEW i \in Nat, NEW j, i > Len(pattern)
    PROVE  MatchAt(text, pattern, matches, i, j) <=> j > Len(text)
BY MatchCases

LEMMA MatchesAny ==
    ASSUME NEW S, NEW pattern \in Seq(S), NEW text, NEW matches, NEW i \in Nat, NEW j,
           i <= Len(pattern), pattern[i] = "%"
    PROVE  MatchAt(text, pattern, matches, i, j) <=> \E k \in matches[i + 1] : j <= k
BY MatchCases

LEMMA MatchAgrees ==
    ASSUME NEW S, NEW pattern \in Seq(S), NEW text, NEW g, NEW h, NEW i \in 1 .. Len(pattern) + 1,
           \A j \in i + 1 .. Len(pattern) + 1 : g[j] = h[j]
    PROVE  MatchFrom(text, pattern, g, i) = MatchFrom(text, pattern, h, i)
<1>1. PICK n \in Nat : n = Len(pattern) /\ i \in 1 .. n + 1
  OBVIOUS
<1>2. i <= n => g[i + 1] = h[i + 1]
  <2>1. i <= n => i + 1 \in i + 1 .. n + 1
    OBVIOUS
  <2> QED BY <1>1, <2>1
<1>3. i < n => g[i + 2] = h[i + 2]
  <2>1. i < n => i + 2 \in i + 1 .. n + 1
    OBVIOUS
  <2> QED BY <1>1, <2>1
<1>4. i \in Nat
  BY <1>1
<1>5. \/ i > n
      \/ i <= n /\ pattern[i] = "%"
      \/ i <= n /\ pattern[i] = "_"
      \/ i <= n /\ pattern[i] = "\\"
      \/ i <= n /\ pattern[i] \notin {"%", "_", "\\"}
  <2>1. i > n \/ i <= n
    BY <1>1
  <2> QED BY <2>1, Zenon
<1>6. ASSUME NEW j PROVE MatchAt(text, pattern, g, i, j) <=> MatchAt(text, pattern, h, i, j)
  <2>1. CASE i > n
    BY <1>1, <1>4, <2>1, MatchCases
  <2>2. CASE i <= n /\ pattern[i] = "%"
    <3>1. MatchAt(text, pattern, g, i, j) <=> \E k \in g[i + 1] : j <= k
      BY <1>1, <1>4, <2>2, MatchCases
    <3>2. MatchAt(text, pattern, h, i, j) <=> \E k \in h[i + 1] : j <= k
      BY <1>1, <1>4, <2>2, MatchCases
    <3> QED BY <1>2, <2>2, <3>1, <3>2, Zenon
  <2>3. CASE i <= n /\ pattern[i] = "_"
    <3>1. MatchAt(text, pattern, g, i, j) <=> j <= Len(text) /\ j + 1 \in g[i + 1]
      BY <1>1, <1>4, <2>3, MatchCases
    <3>2. MatchAt(text, pattern, h, i, j) <=> j <= Len(text) /\ j + 1 \in h[i + 1]
      BY <1>1, <1>4, <2>3, MatchCases
    <3> QED BY <1>2, <2>3, <3>1, <3>2, Zenon
  <2>4. CASE i <= n /\ pattern[i] = "\\"
    <3>1. MatchAt(text, pattern, g, i, j) <=>
            i < n /\ SameChar(text, pattern[i + 1], j) /\ j + 1 \in g[i + 2]
      BY <1>1, <1>4, <2>4, MatchCases
    <3>2. MatchAt(text, pattern, h, i, j) <=>
            i < n /\ SameChar(text, pattern[i + 1], j) /\ j + 1 \in h[i + 2]
      BY <1>1, <1>4, <2>4, MatchCases
    <3> QED BY <1>3, <2>4, <3>1, <3>2, Zenon
  <2>5. CASE i <= n /\ pattern[i] \notin {"%", "_", "\\"}
    <3>1. MatchAt(text, pattern, g, i, j) <=> SameChar(text, pattern[i], j) /\ j + 1 \in g[i + 1]
      BY <1>1, <1>4, <2>5, MatchCases
    <3>2. MatchAt(text, pattern, h, i, j) <=> SameChar(text, pattern[i], j) /\ j + 1 \in h[i + 1]
      BY <1>1, <1>4, <2>5, MatchCases
    <3> QED BY <1>2, <2>5, <3>1, <3>2, Zenon
  <2> QED BY <1>5, <2>1, <2>2, <2>3, <2>4, <2>5, Zenon
<1> QED BY <1>6, Zenon DEF MatchFrom

LEMMA MatchExists ==
    ASSUME NEW S, NEW pattern \in Seq(S), NEW text
    PROVE  \E matches : IsMatches(text, pattern, matches)
<1>1. PICK n \in Nat : n = Len(pattern)
  OBVIOUS
<1> DEFINE Solves(g, i) == \A j \in i .. n + 1 : g[j] = MatchFrom(text, pattern, g, j)
           Good == {i \in 1 .. n + 1 : \E g : Solves(g, i)}
<1>2. ASSUME NEW i \in 1 .. n + 1, \A j \in i + 1 .. n + 1 : j \in Good
      PROVE  i \in Good
  <2>1. PICK g : \A j \in i + 1 .. n + 1 : g[j] = MatchFrom(text, pattern, g, j)
    <3>1. CASE i = n + 1
      BY <3>1
    <3>2. CASE i # n + 1
      <4>1. i + 1 \in i + 1 .. n + 1
        BY <3>2
      <4> QED BY <1>2, <4>1
    <3> QED BY <3>1, <3>2
  <2> DEFINE h == [j \in i .. n + 1 |-> IF j = i THEN MatchFrom(text, pattern, g, i) ELSE g[j]]
  <2>2. \A j \in i + 1 .. n + 1 : h[j] = g[j]
    OBVIOUS
  <2>3. ASSUME NEW j \in i .. n + 1 PROVE MatchFrom(text, pattern, h, j) = MatchFrom(text, pattern, g, j)
    <3>1. \A k \in j + 1 .. n + 1 : k \in i + 1 .. n + 1
      OBVIOUS
    <3>2. \A k \in j + 1 .. n + 1 : h[k] = g[k]
      BY <2>2, <3>1
    <3>3. j \in 1 .. Len(pattern) + 1
      BY <1>1
    <3> HIDE DEF h
    <3> QED BY <1>1, <3>2, <3>3, MatchAgrees
  <2>4. ASSUME NEW j \in i .. n + 1 PROVE h[j] = MatchFrom(text, pattern, h, j)
    <3>1. h[j] = MatchFrom(text, pattern, g, j)
      BY <2>1
    <3> HIDE DEF h
    <3> QED BY <2>3, <3>1
  <2> HIDE DEF h
  <2> QED BY <2>4
<1>3. \A i \in 1 .. n + 1 : i \in Good
  <2>1. \A i \in 1 .. n + 1 : (\A j \in i + 1 .. n + 1 : j \in Good) => i \in Good
    BY <1>2
  <2>2. n + 1 \in Nat
    BY <1>1
  <2> HIDE DEF Good
  <2> QED BY <2>1, <2>2, FromTheEnd
<1>4. PICK g : \A j \in 1 .. n + 1 : g[j] = MatchFrom(text, pattern, g, j)
  <2>1. 1 \in 1 .. n + 1
    BY <1>1
  <2> QED BY <1>3, <2>1
<1> DEFINE f == [j \in 1 .. n + 1 |-> g[j]]
<1>5. ASSUME NEW j \in 1 .. n + 1 PROVE MatchFrom(text, pattern, f, j) = MatchFrom(text, pattern, g, j)
  <2>1. \A k \in j + 1 .. n + 1 : f[k] = g[k]
    OBVIOUS
  <2> HIDE DEF f
  <2> QED BY <1>1, <2>1, MatchAgrees
<1>6. f = [j \in 1 .. n + 1 |-> MatchFrom(text, pattern, f, j)]
  <2>1. \A j \in 1 .. n + 1 : g[j] = MatchFrom(text, pattern, f, j)
    <3> HIDE DEF f
    <3> QED BY <1>4, <1>5
  <2> HIDE DEF f
  <2>2. f = [j \in 1 .. n + 1 |-> g[j]]
    BY DEF f
  <2> QED BY <2>1, <2>2
<1> HIDE DEF f
<1> QED BY <1>1, <1>6 DEF IsMatches

LEMMA LikeIs ==
    ASSUME NEW S, NEW pattern \in Seq(S), NEW text
    PROVE  \E matches : IsMatches(text, pattern, matches) /\ (Like(text, pattern) <=> 1 \in matches[1])
<1> DEFINE chosen == CHOOSE matches : IsMatches(text, pattern, matches)
<1>1. IsMatches(text, pattern, chosen)
  BY MatchExists, Zenon
<1>2. Like(text, pattern) <=> 1 \in chosen[1]
  BY Zenon DEF Like, IsMatches, MatchFrom, MatchAt, SameChar
<1> QED BY <1>1, <1>2, Zenon

LEMMA MatchesAre ==
    ASSUME NEW pattern, NEW text, NEW matches, IsMatches(text, pattern, matches),
           NEW i \in 1 .. Len(pattern) + 1, NEW j
    PROVE  j \in matches[i] <=> j \in 1 .. Len(text) + 1 /\ MatchAt(text, pattern, matches, i, j)
BY Zenon DEF IsMatches, MatchFrom

\* The wildcards in a text are escaped, its other characters stand for themselves.
EscapedForLike(c) == IF c \in {"\\", "%", "_"} THEN <<"\\", c>> ELSE <<c>>
LikeParts(text) == [i \in DOMAIN text |-> EscapedForLike(text[i])]
HasWildcards(S) == "\\" \in S /\ "%" \in S

LEMMA EscapeLikeIs == ASSUME NEW text PROVE FlattenSeq(LikeParts(text)) = EscapeLike(text)
BY DEF EscapeLike, LikeParts, EscapedForLike

LEMMA LikePartsAre ==
    ASSUME NEW S, HasWildcards(S), NEW text \in Seq(S)
    PROVE  /\ LikeParts(text) \in Seq(Seq(S)) /\ Len(LikeParts(text)) = Len(text)
           /\ \A k \in 1 .. Len(text) : LikeParts(text)[k] = EscapedForLike(text[k])
<1>1. ASSUME NEW c \in S PROVE EscapedForLike(c) \in Seq(S)
  <2>1. PICK slash \in S : slash = "\\"
    BY DEF HasWildcards
  <2>2. <<slash, c>> \in Seq(S) /\ <<c>> \in Seq(S)
    OBVIOUS
  <2> QED BY <2>1, <2>2, Zenon DEF EscapedForLike
<1>2. \A k \in 1 .. Len(text) : text[k] \in S
  OBVIOUS
<1>3. \A k \in 1 .. Len(text) : EscapedForLike(text[k]) \in Seq(S)
  BY <1>1, <1>2
<1>4. DOMAIN text = 1 .. Len(text)
  OBVIOUS
<1> QED BY <1>3, <1>4 DEF LikeParts

BetweenWildcards(pattern, written) ==
    /\ Len(pattern) = Len(written) + 2 /\ pattern[1] = "%" /\ pattern[Len(written) + 2] = "%"
    /\ \A m \in 1 .. Len(written) : pattern[m + 1] = written[m]

LEMMA PatternIs ==
    ASSUME NEW S, HasWildcards(S), NEW sought, NEW written \in Seq(S), written = EscapeLike(sought)
    PROVE  \E pattern \in Seq(S) : pattern = ContainsPattern(sought) /\ BetweenWildcards(pattern, written)
<1>1. PICK c \in S : c = "%"
  BY DEF HasWildcards
<1>2. PICK wild : wild = <<c>>
  OBVIOUS
<1>3. PICK pattern : pattern = (wild \o written) \o wild
  OBVIOUS
<1>4. /\ pattern \in Seq(S) /\ Len(pattern) = Len(written) + 2 /\ pattern[1] = c /\ pattern[Len(written) + 2] = c
      /\ \A m \in 1 .. Len(written) : pattern[m + 1] = written[m]
  BY <1>2, <1>3, QuotesAround
<1>5. pattern = ContainsPattern(sought)
  BY <1>1, <1>2, <1>3, Zenon DEF ContainsPattern
<1>6. BetweenWildcards(pattern, written)
  BY <1>1, <1>4 DEF BetweenWildcards
<1> QED BY <1>4, <1>5, <1>6

\* A character of the text that is looked for, escaped or not, matches itself.
LEMMA PartMatched ==
    ASSUME NEW S, NEW pattern \in Seq(S), NEW text, NEW matches, IsMatches(text, pattern, matches),
           NEW a \in Nat, a >= 1, NEW c, NEW part, part = EscapedForLike(c), Has(pattern, a, part),
           NEW j \in 1 .. Len(text) + 1
    PROVE  j \in matches[a] <=> SameChar(text, c, j) /\ j + 1 \in matches[a + Len(part)]
<1>1. PICK n \in Nat : n = Len(pattern)
  OBVIOUS
<1>2. CASE c \in {"\\", "%", "_"}
  <2>1. part = <<"\\", c>>
    BY <1>2, Zenon DEF EscapedForLike
  <2>2. PICK slash : slash = "\\"
    OBVIOUS
  <2>3. Has(pattern, a, <<slash, c>>)
    BY <2>1, <2>2, Zenon
  <2>4. pattern[a] = slash /\ pattern[a + 1] = c /\ a + 2 <= n + 1
    BY <1>1, <2>3, HasTwo
  <2>5. a <= n /\ a < n /\ a \in 1 .. n + 1
    BY <2>4
  <2>6. j \in matches[a] <=> MatchAt(text, pattern, matches, a, j)
    BY <1>1, <2>5, MatchesAre
  <2>7. MatchAt(text, pattern, matches, a, j) <=>
            a < n /\ SameChar(text, pattern[a + 1], j) /\ j + 1 \in matches[a + 2]
    BY <1>1, <2>2, <2>4, <2>5, MatchCases
  <2>8. Len(part) = 2
    BY <2>1
  <2> QED BY <2>4, <2>5, <2>6, <2>7, <2>8, Zenon
<1>3. CASE c \notin {"\\", "%", "_"}
  <2>1. part = <<c>>
    BY <1>3, Zenon DEF EscapedForLike
  <2>2. pattern[a] = c /\ a + 1 <= n + 1
    BY <1>1, <2>1, HasOne
  <2>3. a <= n /\ a \in 1 .. n + 1
    BY <2>2
  <2>4. j \in matches[a] <=> MatchAt(text, pattern, matches, a, j)
    BY <1>1, <2>3, MatchesAre
  <2>5. pattern[a] \notin {"%", "_", "\\"}
    BY <1>3, <2>2
  <2>6. MatchAt(text, pattern, matches, a, j) <=> SameChar(text, pattern[a], j) /\ j + 1 \in matches[a + 1]
    BY <1>1, <2>3, <2>5, MatchCases
  <2>7. Len(part) = 1
    BY <2>1
  <2> QED BY <2>2, <2>4, <2>6, <2>7, Zenon
<1> QED BY <1>2, <1>3

\* Whether a text has from j on what is sought from i on.
FitsAt(sought, text, i, j) ==
    /\ j + (Len(sought) + 1 - i) <= Len(text) + 1
    /\ \A l \in i .. Len(sought) : CaseFold[sought[l]] = CaseFold[text[j + (l - i)]]

LEMMA FitsOn ==
    ASSUME NEW S, NEW sought \in Seq(S), NEW text \in Seq(S), NEW i \in 1 .. Len(sought), NEW j \in 1 .. Len(text) + 1
    PROVE  FitsAt(sought, text, i, j) <=> SameChar(text, sought[i], j) /\ FitsAt(sought, text, i + 1, j + 1)
<1>1. PICK n \in Nat : n = Len(sought) /\ i \in 1 .. n
  OBVIOUS
<1>2. PICK t \in Nat : t = Len(text) /\ j \in 1 .. t + 1
  OBVIOUS
<1> DEFINE At1(l) == CaseFold[sought[l]]
           At2(l) == CaseFold[text[l]]
<1>3. FitsAt(sought, text, i, j) <=>
        j + (n + 1 - i) <= t + 1 /\ \A l \in i .. n : At1(l) = At2(j + (l - i))
  BY <1>1, <1>2, Zenon DEF FitsAt
<1>4. FitsAt(sought, text, i + 1, j + 1) <=>
        j + 1 + (n + 1 - (i + 1)) <= t + 1 /\ \A l \in i + 1 .. n : At1(l) = At2(j + 1 + (l - (i + 1)))
  BY <1>1, <1>2, Zenon DEF FitsAt
<1>5. SameChar(text, sought[i], j) <=> j <= t /\ At1(i) = At2(j)
  BY <1>2, Zenon DEF SameChar
<1> HIDE DEF At1, At2
<1>6. \A l \in i .. n : l = i \/ l \in i + 1 .. n
  OBVIOUS
<1>7. i \in i .. n /\ (\A l \in i + 1 .. n : l \in i .. n) /\ j + (i - i) = j
  BY <1>1, <1>2
<1>8. \A l \in i + 1 .. n : j + 1 + (l - (i + 1)) = j + (l - i)
  BY <1>1, <1>2
<1>9. j + 1 + (n + 1 - (i + 1)) = j + (n + 1 - i)
  BY <1>1, <1>2
<1>10. j + (n + 1 - i) <= t + 1 => j <= t
  BY <1>1, <1>2
<1> QED BY <1>3, <1>4, <1>5, <1>6, <1>7, <1>8, <1>9, <1>10, Zenon

LEMMA PatternMatches ==
    ASSUME NEW S, HasWildcards(S), NEW sought \in Seq(S), NEW text \in Seq(S)
    PROVE  Like(text, ContainsPattern(sought)) <=> \E j \in 1 .. Len(text) + 1 : FitsAt(sought, text, 1, j)
<1>1. PICK parts \in Seq(Seq(S)) : parts = LikeParts(sought) /\ Len(parts) = Len(sought)
                                   /\ \A k \in 1 .. Len(sought) : parts[k] = EscapedForLike(sought[k])
  BY LikePartsAre
<1>2. PICK pre : JoinedSoFar(S, parts, pre) /\ FlattenSeq(parts) = pre[Len(parts)]
  BY FlattenIs
<1>3. PICK n \in Nat : n = Len(sought) /\ n = Len(parts)
  BY <1>1
<1>4. pre[0] = <<>> /\ \A k \in 0 .. n : pre[k] \in Seq(S)
  BY <1>2, <1>3 DEF JoinedSoFar
<1>5. PICK written \in Seq(S) : written = pre[n] /\ written = EscapeLike(sought)
  <2>1. n \in 0 .. n
    OBVIOUS
  <2>2. pre[n] \in Seq(S)
    BY <1>4, <2>1
  <2>3. pre[n] = EscapeLike(sought)
    BY <1>1, <1>2, <1>3, EscapeLikeIs, Zenon
  <2> QED BY <2>2, <2>3
<1>6. PICK pattern \in Seq(S) : pattern = ContainsPattern(sought) /\ BetweenWildcards(pattern, written)
  BY <1>5, PatternIs
<1>7. PICK w \in Nat : w = Len(written) /\ Len(pattern) = w + 2
  BY <1>6 DEF BetweenWildcards
<1>8. pattern[1] = "%" /\ pattern[w + 2] = "%" /\ \A m \in 1 .. w : pattern[m + 1] = written[m]
  BY <1>6, <1>7 DEF BetweenWildcards
<1>9. Has(pattern, 2, written)
  <2>1. 2 + w <= w + 2 + 1 /\ \A m \in 1 .. w : 2 - 1 + m = m + 1
    OBVIOUS
  <2> QED BY <1>7, <1>8, <2>1 DEF Has
<1>10. PICK matches : IsMatches(text, pattern, matches) /\ (Like(text, pattern) <=> 1 \in matches[1])
  BY LikeIs
<1>11. PICK t \in Nat : t = Len(text)
  OBVIOUS
<1> DEFINE place == [k \in 0 .. n |-> 2 + Len(pre[k])]
<1>12. \A k \in 0 .. n : place[k] = 2 + Len(pre[k]) /\ place[k] \in Nat /\ place[k] >= 2
  <2>1. ASSUME NEW k \in 0 .. n PROVE Len(pre[k]) \in Nat
    BY <1>4
  <2> QED BY <2>1
<1>13. place[0] = 2
  <2>1. Len(pre[0]) = 0 /\ 0 \in 0 .. n
    BY <1>4
  <2> QED BY <2>1
<1>14. place[n] = w + 2
  <2>1. n \in 0 .. n
    OBVIOUS
  <2>2. place[n] = 2 + Len(pre[n])
    BY <2>1
  <2> HIDE DEF place
  <2>3. place[n] = 2 + w
    BY <1>5, <1>7, <2>2, Zenon
  <2>4. 2 + w = w + 2
    OBVIOUS
  <2> QED BY <2>3, <2>4, Zenon
<1> HIDE DEF place
<1>15. ASSUME NEW k \in 1 .. n
       PROVE  place[k] = place[k - 1] + Len(parts[k]) /\ Has(pattern, place[k - 1], parts[k])
  <2>1. k \in 1 .. Len(parts) /\ k \in 0 .. n /\ k - 1 \in 0 .. n
    BY <1>3
  <2>2. PICK p \in Seq(S), q \in Seq(S), r \in Seq(S) : p = pre[k - 1] /\ q = pre[k] /\ r = parts[k] /\ Grown(p, q, r)
    BY <1>2, <2>1, PrefixesAre
  <2>3. PICK a \in Nat, b \in Nat, c \in Nat : a = Len(p) /\ b = Len(r) /\ c = Len(q) /\ c = a + b
    <3>1. Len(p) \in Nat /\ Len(q) \in Nat /\ Len(r) \in Nat
      OBVIOUS
    <3>2. Len(q) = Len(p) + Len(r)
      BY <2>2, Zenon DEF Grown
    <3> QED BY <3>1, <3>2, Zenon
  <2>4. place[k] = 2 + c /\ place[k - 1] = 2 + a /\ Len(parts[k]) = b /\ Len(pre[k - 1]) = a
    BY <1>12, <2>1, <2>2, <2>3
  <2>5. Has(pattern, 2, pre[Len(parts)])
    BY <1>3, <1>5, <1>9
  <2>6. Has(pattern, 2 + Len(pre[k - 1]), parts[k])
    BY <1>2, <2>1, <2>5, HasPart
  <2>7. 2 + c = 2 + a + b
    BY <2>3
  <2> QED BY <2>4, <2>6, <2>7
<1> DEFINE Good == {i \in 1 .. n + 1 : \A j \in 1 .. t + 1 : j \in matches[place[i - 1]] <=> FitsAt(sought, text, i, j)}
<1>16. n + 1 \in Good
  <2>1. w + 2 \in 1 .. Len(pattern) + 1 /\ w + 3 \in 1 .. Len(pattern) + 1
    BY <1>7
  <2>2. w + 2 \in Nat /\ w + 3 \in Nat /\ w + 2 + 1 = w + 3 /\ w + 3 > Len(pattern) /\ w + 2 <= Len(pattern)
    BY <1>7
  <2>3. MatchAt(text, pattern, matches, w + 3, t + 1) <=> t + 1 > Len(text)
    BY <2>2, MatchesEnd
  <2>4. t + 1 \in 1 .. t + 1 /\ t + 1 > t
    OBVIOUS
  <2>5. t + 1 \in matches[w + 3]
    BY <1>10, <1>11, <2>1, <2>3, <2>4, MatchesAre
  <2>6. ASSUME NEW j \in 1 .. t + 1 PROVE j \in matches[w + 2]
    <3>1. MatchAt(text, pattern, matches, w + 2, j) <=> \E k \in matches[w + 2 + 1] : j <= k
      BY <1>8, <2>2, MatchesAny
    <3>2. j <= t + 1
      OBVIOUS
    <3>3. MatchAt(text, pattern, matches, w + 2, j)
      BY <2>2, <2>5, <3>1, <3>2, Zenon
    <3> QED BY <1>10, <1>11, <2>1, <3>3, MatchesAre
  <2>7. ASSUME NEW j \in 1 .. t + 1 PROVE FitsAt(sought, text, n + 1, j)
    <3>1. j + (n + 1 - (n + 1)) <= t + 1
      OBVIOUS
    <3>2. \A l \in n + 1 .. n : FALSE
      OBVIOUS
    <3> QED BY <1>3, <1>11, <3>1, <3>2, Zenon DEF FitsAt
  <2>8. n + 1 - 1 = n /\ n + 1 \in 1 .. n + 1
    OBVIOUS
  <2>9. \A j \in 1 .. t + 1 : j \in matches[place[n + 1 - 1]] <=> FitsAt(sought, text, n + 1, j)
    BY <1>14, <2>6, <2>7, <2>8, Zenon
  <2> QED BY <2>8, <2>9
<1>17. ASSUME NEW i \in 1 .. n, i + 1 \in Good PROVE i \in Good
  <2>1. i \in 1 .. n + 1 /\ i + 1 - 1 = i /\ i - 1 \in 0 .. n
    OBVIOUS
  <2>2. \A j \in 1 .. t + 1 : j \in matches[place[i]] <=> FitsAt(sought, text, i + 1, j)
    BY <1>17, <2>1
  <2>3. PICK a \in Nat : a = place[i - 1] /\ a >= 1
    <3>1. place[i - 1] \in Nat /\ place[i - 1] >= 2
      BY <1>12, <2>1
    <3>2. PICK a \in Nat : a = place[i - 1] /\ a >= 2
      BY <3>1, Zenon
    <3>3. a >= 1
      BY <3>2
    <3> QED BY <3>2, <3>3, Zenon
  <2>4. parts[i] = EscapedForLike(sought[i]) /\ Has(pattern, a, parts[i]) /\ place[i] = a + Len(parts[i])
    BY <1>1, <1>3, <1>15, <2>3
  <2>5. ASSUME NEW j \in 1 .. t + 1 PROVE j \in matches[a] <=> FitsAt(sought, text, i, j)
    <3>1. j \in matches[a] <=> SameChar(text, sought[i], j) /\ j + 1 \in matches[place[i]]
      <4>1. PICK c, part, next : c = sought[i] /\ part = parts[i] /\ next = place[i]
        OBVIOUS
      <4>2. part = EscapedForLike(c) /\ Has(pattern, a, part) /\ next = a + Len(part)
        BY <2>4, <4>1, Zenon
      <4>3. IsMatches(text, pattern, matches) /\ j \in 1 .. Len(text) + 1
        BY <1>10, <1>11
      <4>4. j \in matches[a] <=> SameChar(text, c, j) /\ j + 1 \in matches[a + Len(part)]
        BY <2>3, <4>2, <4>3, PartMatched
      <4> QED BY <4>1, <4>2, <4>4, Zenon
    <3>2. FitsAt(sought, text, i, j) <=> SameChar(text, sought[i], j) /\ FitsAt(sought, text, i + 1, j + 1)
      BY <1>3, <1>11, FitsOn
    <3>3. SameChar(text, sought[i], j) => j + 1 \in 1 .. t + 1
      <4>1. SameChar(text, sought[i], j) => j <= t
        BY <1>11, Zenon DEF SameChar
      <4>2. j <= t => j + 1 \in 1 .. t + 1
        OBVIOUS
      <4> QED BY <4>1, <4>2
    <3> QED BY <2>2, <3>1, <3>2, <3>3, Zenon
  <2> QED BY <2>1, <2>3, <2>5
<1>18. 1 \in Good
  <2> DEFINE Up == {k \in 0 .. n : n + 1 - k \in Good}
  <2>1. 0 \in Up
    BY <1>16
  <2>2. ASSUME NEW k \in 0 .. n - 1, k \in Up PROVE k + 1 \in Up
    <3> HIDE DEF Good
    <3>1. PICK i \in 1 .. n : i = n - k
      OBVIOUS
    <3>2. n + 1 - k = i + 1 /\ n + 1 - (k + 1) = i /\ k + 1 \in 0 .. n
      BY <3>1
    <3>3. i + 1 \in Good
      BY <2>2, <3>2
    <3>4. i \in Good
      BY <1>17, <3>3
    <3> QED BY <3>2, <3>4
  <2> HIDE DEF Good
  <2>3. \A k \in 0 .. n : k \in Up
    <3> HIDE DEF Up
    <3> QED BY <2>1, <2>2, Upwards
  <2>4. n \in 0 .. n /\ n + 1 - n = 1
    OBVIOUS
  <2>5. n + 1 - n \in Good
    BY <2>3, <2>4
  <2> QED BY <2>4, <2>5
<1>19. \A j \in 1 .. t + 1 : j \in matches[2] <=> FitsAt(sought, text, 1, j)
  <2>1. \A j \in 1 .. t + 1 : j \in matches[place[1 - 1]] <=> FitsAt(sought, text, 1, j)
    BY <1>18
  <2>2. 1 - 1 = 0
    OBVIOUS
  <2> QED BY <1>13, <2>1, <2>2, Zenon
<1>20. 1 \in matches[1] <=> \E k \in matches[2] : 1 <= k
  <2>1. 1 \in 1 .. Len(pattern) + 1 /\ 1 <= Len(pattern) /\ 1 \in Nat /\ 1 + 1 = 2 /\ 1 \in 1 .. t + 1
    BY <1>7
  <2>2. MatchAt(text, pattern, matches, 1, 1) <=> \E k \in matches[1 + 1] : 1 <= k
    BY <1>8, <2>1, MatchesAny
  <2>3. 1 \in matches[1] <=> MatchAt(text, pattern, matches, 1, 1)
    BY <1>10, <1>11, <2>1, MatchesAre
  <2> QED BY <2>1, <2>2, <2>3, Zenon
<1>21. \A k \in matches[2] : k \in 1 .. t + 1
  <2>1. 2 \in 1 .. Len(pattern) + 1
    BY <1>7
  <2> QED BY <1>10, <1>11, <2>1, MatchesAre
<1>22. \A k \in 1 .. t + 1 : 1 <= k
  OBVIOUS
<1> QED BY <1>6, <1>10, <1>11, <1>19, <1>20, <1>21, <1>22, Zenon

\* A text is found where it is, whatever characters it has.
LEMMA ContainsIsFound == Typed => ContainsIsLiteral
<1> SUFFICES ASSUME Typed, session = "search", NEW cut \in 0 .. Len(input)
             PROVE  LET text == SubSeq(input, 1, cut)
                        sought == SubSeq(input, cut + 1, Len(input))
                        same(i) == \A j \in DOMAIN sought : CaseFold[sought[j]] = CaseFold[text[i + j]]
                    IN  Like(text, ContainsPattern(sought)) <=> \E i \in 0 .. Len(text) - Len(sought) : same(i)
  BY Zenon DEF ContainsIsLiteral, About
<1> DEFINE S == Sessions[session].alphabet \cup {"\\", "%"}
           text == SubSeq(input, 1, cut)
           sought == SubSeq(input, cut + 1, Len(input))
<1>1. HasWildcards(S)
  BY DEF HasWildcards
<1>2. input \in Seq(S)
  <2>1. Sessions[session].alphabet \subseteq S
    OBVIOUS
  <2> HIDE DEF S
  <2> QED BY <2>1 DEF Typed
<1> HIDE DEF S
<1>3. text \in Seq(S) /\ sought \in Seq(S)
  BY <1>2
<1> HIDE DEF text, sought
<1>4. PICK n \in Nat, t \in Nat : n = Len(sought) /\ DOMAIN sought = 1 .. n /\ t = Len(text)
  BY <1>3
<1>5. Like(text, ContainsPattern(sought)) <=> \E j \in 1 .. t + 1 : FitsAt(sought, text, 1, j)
  BY <1>1, <1>3, <1>4, PatternMatches
<1> DEFINE same(i) == \A j \in DOMAIN sought : CaseFold[sought[j]] = CaseFold[text[i + j]]
<1>6. ASSUME NEW i \in Int
      PROVE  FitsAt(sought, text, 1, i + 1) <=> i <= t - n /\ same(i)
  <2>1. FitsAt(sought, text, 1, i + 1) <=>
          i + 1 + (n + 1 - 1) <= t + 1 /\ \A l \in 1 .. n : CaseFold[sought[l]] = CaseFold[text[i + 1 + (l - 1)]]
    BY <1>4, Zenon DEF FitsAt
  <2>2. i + 1 + (n + 1 - 1) <= t + 1 <=> i <= t - n
    OBVIOUS
  <2>3. \A l \in 1 .. n : i + 1 + (l - 1) = i + l
    OBVIOUS
  <2> QED BY <1>4, <2>1, <2>2, <2>3, Zenon
<1> HIDE DEF same
<1>7. ASSUME NEW j \in 1 .. t + 1, FitsAt(sought, text, 1, j) PROVE \E i \in 0 .. t - n : same(i)
  <2>1. PICK i \in Int : i = j - 1 /\ j = i + 1 /\ i >= 0
    OBVIOUS
  <2>2. i <= t - n /\ same(i)
    BY <1>6, <1>7, <2>1
  <2>3. i \in 0 .. t - n
    BY <2>1, <2>2
  <2> QED BY <2>2, <2>3
<1>8. ASSUME NEW i \in 0 .. t - n, same(i) PROVE \E j \in 1 .. t + 1 : FitsAt(sought, text, 1, j)
  <2>1. i \in Int /\ i <= t - n /\ i + 1 \in 1 .. t + 1
    OBVIOUS
  <2>2. FitsAt(sought, text, 1, i + 1)
    BY <1>6, <1>8, <2>1
  <2> QED BY <2>1, <2>2
<1> QED BY <1>4, <1>5, <1>7, <1>8, Zenon DEF text, sought, same

-----------------------------------------------------------------------------
\* What is stored is found: a field by its name and a member by both names, a
\* value by its type, a text by what it says; and no name that the parser lets
\* pass is refused at the boundary to SQL.
THEOREM FieldsAreFoundHolds == Spec => []FieldsAreFound
<1>1. Typed => FieldsAreFound
  BY NamesReach, TypesFollow, LevelsFound, NamesAgree, ContainsIsFound, Zenon DEF FieldsAreFound
<1>2. Spec => []Typed
  BY InputTyped
<1> QED BY <1>1, <1>2, PTL

-----------------------------------------------------------------------------
(* What is printed: the entries of a record, and the order of their fields. *)

\* A value whose text has only characters of S, in quotes or bare.
IsValue(S, value) == value.text \in Seq(S) /\ (value.kind # "string" => IsBare(value))
IsFieldKey(S, key) == key \in Seq(S)
HasFields(S, fields) ==
    /\ IsFiniteSet(DOMAIN fields)
    /\ \A key \in DOMAIN fields : IsFieldKey(S, key) /\ IsValue(S, fields[key])
HasColumns(S, known) ==
    \A key \in KnownKeys : known[key] = {} \/ \E text \in Seq(S) : known[key] = {text}
HasMembers(S, members) ==
    /\ IsFiniteSet(DOMAIN members)
    /\ \A key \in DOMAIN members : IsFieldKey(S, key) /\ IsValue(S, members[key])

LEMMA PromotedTyped ==
    ASSUME NEW S, NEW line, NEW members, HasMembers(S, members), NEW entry, entry = Promoted(line, members)
    PROVE  HasFields(S, entry.fields) /\ HasColumns(S, entry.known)
<1>1. \A key \in DOMAIN entry.fields :
        key \in DOMAIN members /\ ~Lifted(members, key) /\ entry.fields[key] = members[key]
  BY PromotedIs
<1>2. DOMAIN entry.fields \in SUBSET DOMAIN members
  BY <1>1
<1>3. IsFiniteSet(DOMAIN entry.fields)
  BY <1>2, FS_Subset DEF HasMembers
<1>4. HasFields(S, entry.fields)
  BY <1>1, <1>3, Zenon DEF HasFields, HasMembers
<1>5. ASSUME NEW key \in KnownKeys
      PROVE  entry.known[key] = {} \/ \E text \in Seq(S) : entry.known[key] = {text}
  <2>1. CASE Lifted(members, key)
    <3>1. entry.known[key] = {members[key].text}
      BY <2>1, PromotedIs
    <3>2. members[key].text \in Seq(S)
      BY <2>1, Zenon DEF Lifted, HasMembers, IsValue
    <3> QED BY <3>1, <3>2, Zenon
  <2>2. CASE ~Lifted(members, key)
    <3>1. entry.known[key] = {}
      BY <2>2, PromotedIs
    <3> QED BY <3>1, Zenon
  <2> QED BY <2>1, <2>2, Zenon
<1> QED BY <1>4, <1>5, Zenon DEF HasColumns

\* The members of an object have the keys and values of its pairs.
LEMMA MembersTyped ==
    ASSUME NEW S, NEW T, NEW pairs \in Seq(T), NEW members, members = Members(pairs),
           \A i \in 1 .. Len(pairs) : IsFieldKey(S, pairs[i].key) /\ IsValue(S, pairs[i].value)
    PROVE  HasMembers(S, members)
<1>1. ASSUME NEW key \in DOMAIN members PROVE IsFieldKey(S, key) /\ IsValue(S, members[key])
  <2>1. PICK i : LastWith(pairs, i) /\ pairs[i].key = key
    BY MembersAre
  <2>2. members[pairs[i].key] = pairs[i].value
    BY <2>1, MembersAre
  <2>3. i \in 1 .. Len(pairs)
    BY <2>1 DEF LastWith
  <2> QED BY <2>1, <2>2, <2>3
<1>2. IsFiniteSet(DOMAIN members)
  <2> DEFINE keys == [i \in 1 .. Len(pairs) |-> pairs[i].key]
  <2>1. \A key \in DOMAIN members : \E i \in 1 .. Len(pairs) : keys[i] = key
    <3>1. \A key \in DOMAIN members : \E i : LastWith(pairs, i) /\ pairs[i].key = key
      BY MembersAre
    <3> QED BY <3>1 DEF LastWith
  <2>2. PICK n \in Nat : n = Len(pairs)
    OBVIOUS
  <2>3. IsFiniteSet(1 .. n)
    BY FS_Interval
  <2> DEFINE all == {keys[i] : i \in 1 .. n}
  <2>4. keys \in Surjection(1 .. n, all)
    BY <2>2 DEF Surjection
  <2>5. DOMAIN members \in SUBSET all
    BY <2>1, <2>2
  <2> HIDE DEF keys, all
  <2>6. IsFiniteSet(all)
    BY <2>3, <2>4, FS_Surjection
  <2> QED BY <2>5, <2>6, FS_Subset
<1> QED BY <1>1, <1>2, Zenon DEF HasMembers

\* An entry of a record, and the characters in it.
IsEntry(S, entry) == Marked(S) /\ HasFields(S, entry.fields) /\ HasColumns(S, entry.known)

LEMMA EntryTyped ==
    ASSUME Typed, Recorded, NEW entry \in Entries
    PROVE  \E S : IsEntry(S, entry) /\ \E line, members : HasMembers(S, members) /\ entry = Promoted(line, members)
<1>1. session = "records" /\ input # <<>>
  BY DEF Recorded, About
<1>2. PICK S, T : IsRecord(S, input) /\ input \in Seq(T)
  BY <1>1, InputIsRecord
<1>3. PICK n \in Nat : n = Len(input) /\ DOMAIN input = 1 .. n
  BY <1>2
<1>4. ASSUME NEW i \in 1 .. n
      PROVE  /\ IsFieldKey(S, input[i].key) /\ input[i].value.text \in Seq(S)
             /\ input[i].value.kind # "string" => IsBare(input[i].value)
  <2>1. input[i] \in Range(input)
    BY <1>3 DEF Range
  <2>2. IsPair(input[i])
    BY <2>1, RecordPair
  <2>3. input[i].key \in Seq(S) /\ input[i].value.text \in Seq(S)
    BY <1>2, <1>3 DEF IsRecord
  <2> QED BY <2>2, <2>3, Zenon DEF IsPair, IsFieldKey
<1>5. Marked(S)
  BY <1>2, Zenon DEF IsRecord
<1>6. CASE entry = FromJson
  <2>1. PICK json : JsonEntry(input, json)
    BY JsonEntryIs
  <2>2. entry = json
    BY <1>6, <2>1, ChosenIs, Zenon DEF JsonEntry, FromJson
  <2>3. PICK line, members : members = Members(input) /\ json = Promoted(line, members)
    BY <2>1, Zenon DEF JsonEntry
  <2>4. \A i \in 1 .. Len(input) : IsFieldKey(S, input[i].key) /\ IsValue(S, input[i].value)
    BY <1>3, <1>4, Zenon DEF IsValue
  <2>5. HasMembers(S, members)
    BY <1>2, <2>3, <2>4, MembersTyped
  <2>6. HasFields(S, json.fields) /\ HasColumns(S, json.known)
    BY <2>3, <2>5, PromotedTyped
  <2> QED BY <1>5, <2>2, <2>3, <2>5, <2>6, Zenon DEF IsEntry
<1>7. CASE Loggable /\ entry = FromLogfmt
  <2>1. PICK logfmt : LogfmtEntry(input, logfmt)
    BY <1>2, <1>7, LogfmtEntryIs, LoggableHasKeys
  <2>2. entry = logfmt
    BY <1>7, <2>1, ChosenIs, Zenon DEF LogfmtEntry, FromLogfmt
  <2>3. PICK line, members : members = Members(AsStrings(ReadOf(input))) /\ logfmt = Promoted(line, members)
    BY <2>1, Zenon DEF LogfmtEntry
  <2>4. PICK pairs, U : /\ pairs = AsStrings(ReadOf(input)) /\ pairs \in Seq(U) /\ Len(pairs) = n
                        /\ \A j \in 1 .. n : pairs[j].key = input[j].key /\ pairs[j].value = String(Kept(input[j].value.text))
    BY <1>2, <1>3, TextsOfRead
  <2>5. ASSUME NEW i \in 1 .. Len(pairs) PROVE IsFieldKey(S, pairs[i].key) /\ IsValue(S, pairs[i].value)
    <3>1. i \in 1 .. n /\ pairs[i].key = input[i].key /\ pairs[i].value = String(Kept(input[i].value.text))
      BY <2>4
    <3>2. Kept(input[i].value.text) \in Seq(S)
      BY <1>4, <1>5, <3>1, KeptTyped
    <3>3. \A text : String(text).text = text /\ String(text).kind = "string"
      BY DEF String, Scalar
    <3> QED BY <1>4, <3>1, <3>2, <3>3, Zenon DEF IsValue
  <2>6. members = Members(pairs)
    BY <2>3, <2>4, Zenon
  <2>7. HasMembers(S, members)
    BY <2>4, <2>5, <2>6, MembersTyped
  <2>8. HasFields(S, logfmt.fields) /\ HasColumns(S, logfmt.known)
    BY <2>3, <2>7, PromotedTyped
  <2> QED BY <1>5, <2>2, <2>3, <2>7, <2>8, Zenon DEF IsEntry
<1> QED BY <1>6, <1>7, Zenon DEF Entries

\* The fields in some order, each once.
Ordered(set, keys) ==
    /\ keys \in Seq(set) /\ \A x \in set : \E i \in 1 .. Len(keys) : keys[i] = x
    /\ \A i, j \in 1 .. Len(keys) : keys[i] = keys[j] => i = j

LEMMA OrderIs ==
    ASSUME NEW set, IsFiniteSet(set)
    PROVE  Ordered(set, SetToSeq(set))
<1>1. PICK n \in Nat : n = Cardinality(set) /\ ExistsBijection(1 .. n, set)
  BY FS_CardinalityType
<1>2. PICK f : f \in Bijection(1 .. n, set)
  BY <1>1 DEF ExistsBijection
<1>3. f \in [1 .. n -> set] /\ IsInjective(f)
  BY <1>2, Zenon DEF Bijection, Injection
<1> DEFINE keys == SetToSeq(set)
<1>4. keys \in [1 .. n -> set] /\ IsInjective(keys)
  BY <1>1, <1>3, Zenon DEF SetToSeq
<1> HIDE DEF keys
<1>5. keys \in Injection(1 .. n, set)
  BY <1>4, Zenon DEF Injection
<1>6. Cardinality(1 .. n) = n
  BY FS_Interval
<1>7. keys \in Surjection(1 .. n, set)
  BY <1>1, <1>5, <1>6, FS_Injection
<1>8. keys \in Seq(set) /\ Len(keys) = n /\ DOMAIN keys = 1 .. n
  BY <1>4
<1>9. \A x \in set : \E i \in 1 .. n : keys[i] = x
  BY <1>7, Zenon DEF Surjection
<1>10. \A i, j \in 1 .. n : keys[i] = keys[j] => i = j
  BY <1>4, <1>8, Zenon DEF IsInjective
<1>11. Ordered(set, keys)
  BY <1>8, <1>9, <1>10, Zenon DEF Ordered
<1> QED BY <1>11 DEF keys

-----------------------------------------------------------------------------
(* A row as JSON. *)

RowKeys == <<Timestamp, Level, Message, Tag, FieldsName, RawName>>

LEMMA RowKeysDiffer ==
    /\ \A i, j \in 1 .. 6 : RowKeys[i] = RowKeys[j] => i = j
    /\ RowKeys[1] = Timestamp /\ RowKeys[2] = Level /\ RowKeys[3] = Message /\ RowKeys[4] = Tag
    /\ RowKeys[5] = FieldsName /\ RowKeys[6] = RawName
<1>1. DOMAIN RowKeys = 1 .. 6
  BY DEF RowKeys
<1>2. IsInjective(RowKeys)
  BY LinesAssumption, Zenon DEF RowKeys
<1>3. \A i, j \in 1 .. 6 : RowKeys[i] = RowKeys[j] => i = j
  BY <1>1, <1>2, Zenon DEF IsInjective
<1>4. /\ RowKeys[1] = Timestamp /\ RowKeys[2] = Level /\ RowKeys[3] = Message /\ RowKeys[4] = Tag
      /\ RowKeys[5] = FieldsName /\ RowKeys[6] = RawName
  BY DEF RowKeys
<1> QED BY <1>3, <1>4

LEMMA KnownIs == \A key : key \in KnownKeys <=> \E i \in 1 .. 4 : key = RowKeys[i]
<1>1. \A i \in 1 .. 4 : i = 1 \/ i = 2 \/ i = 3 \/ i = 4
  OBVIOUS
<1>2. 1 \in 1 .. 4 /\ 2 \in 1 .. 4 /\ 3 \in 1 .. 4 /\ 4 \in 1 .. 4
  OBVIOUS
<1>3. /\ RowKeys[1] = Timestamp /\ RowKeys[2] = Level /\ RowKeys[3] = Message /\ RowKeys[4] = Tag
  BY RowKeysDiffer
<1>4. KnownKeys = {Timestamp, Level, Message, Tag}
  BY DEF KnownKeys
<1> QED BY <1>1, <1>2, <1>3, <1>4, Zenon

LEMMA OthersUnknown == FieldsName \notin KnownKeys /\ RawName \notin KnownKeys /\ FieldsName # RawName
<1>1. \A i \in 1 .. 4 : i \in 1 .. 6 /\ i # 5 /\ i # 6
  OBVIOUS
<1>2. 5 \in 1 .. 6 /\ 6 \in 1 .. 6 /\ 5 # 6
  OBVIOUS
<1>3. \A i, j \in 1 .. 6 : RowKeys[i] = RowKeys[j] => i = j
  BY RowKeysDiffer
<1>4. RowKeys[5] = FieldsName /\ RowKeys[6] = RawName
  BY RowKeysDiffer
<1>5. ASSUME NEW i \in 1 .. 4 PROVE RowKeys[i] # FieldsName /\ RowKeys[i] # RawName
  BY <1>1, <1>2, <1>3, <1>4, Zenon
<1>6. FieldsName # RawName
  BY <1>2, <1>3, <1>4, Zenon
<1>7. \A key : key \in KnownKeys => \E i \in 1 .. 4 : key = RowKeys[i]
  BY KnownIs
<1> QED BY <1>5, <1>6, <1>7, Zenon

ColumnValue(entry, key) ==
    IF entry.known[key] = {} THEN Scalar("null", NullText) ELSE String(CHOOSE v \in entry.known[key] : TRUE)

LEMMA ColumnsAre ==
    ASSUME NEW entry
    PROVE  /\ Len(Columns(entry)) = 4 /\ DOMAIN Columns(entry) = 1 .. 4
           /\ \A i \in 1 .. 4 : Columns(entry)[i] = Pair(RowKeys[i], ColumnValue(entry, RowKeys[i]))
           /\ Columns(entry) \in Seq(Range(Columns(entry)))
<1> DEFINE keys == <<Timestamp, Level, Message, Tag>>
           columns == [i \in DOMAIN keys |-> Pair(keys[i], ColumnValue(entry, keys[i]))]
<1>1. Columns(entry) = columns
  BY Zenon DEF Columns, ColumnValue, Pair
<1>2. DOMAIN keys = 1 .. 4 /\ keys[1] = Timestamp /\ keys[2] = Level /\ keys[3] = Message /\ keys[4] = Tag
  OBVIOUS
<1>3. \A i \in 1 .. 4 : keys[i] = RowKeys[i]
  <2>1. \A i \in 1 .. 4 : i = 1 \/ i = 2 \/ i = 3 \/ i = 4
    OBVIOUS
  <2> HIDE DEF keys
  <2> QED BY <1>2, <2>1, RowKeysDiffer, Zenon
<1> HIDE DEF keys
<1>4. DOMAIN columns = 1 .. 4 /\ \A i \in 1 .. 4 : columns[i] = Pair(RowKeys[i], ColumnValue(entry, RowKeys[i]))
  BY <1>2, <1>3
<1>5. columns = [i \in 1 .. 4 |-> columns[i]]
  BY <1>2
<1> HIDE DEF columns
<1>6. columns \in Seq(Range(columns)) /\ Len(columns) = 4
  BY <1>4, <1>5 DEF Range
<1> QED BY <1>1, <1>4, <1>6

LEMMA PairsAre ==
    ASSUME NEW fields, IsFiniteSet(DOMAIN fields), NEW members, members = Members(Pairs(fields))
    PROVE  \A key \in DOMAIN fields : key \in DOMAIN members /\ members[key] = fields[key]
<1> DEFINE keys == SetToSeq(DOMAIN fields)
           pairs == [i \in DOMAIN keys |-> Pair(keys[i], fields[keys[i]])]
<1>1. Pairs(fields) = pairs
  BY Zenon DEF Pairs, Pair
<1>2. Ordered(DOMAIN fields, keys)
  BY OrderIs
<1> HIDE DEF keys
<1>3. keys \in Seq(DOMAIN fields)
  BY <1>2, Zenon DEF Ordered
<1>4. PICK n \in Nat : n = Len(keys) /\ DOMAIN keys = 1 .. n
  BY <1>3
<1> DEFINE U == {pairs[i] : i \in 1 .. n}
<1>5. pairs \in Seq(U) /\ Len(pairs) = n
  BY <1>4
<1>6. \A i \in 1 .. n : pairs[i].key = keys[i] /\ pairs[i].value = fields[keys[i]]
  BY <1>4, PairHas
<1> HIDE DEF pairs, U
<1>7. ASSUME NEW key \in DOMAIN fields PROVE key \in DOMAIN members /\ members[key] = fields[key]
  <2>1. PICK i \in 1 .. n : keys[i] = key
    BY <1>2, <1>4, Zenon DEF Ordered
  <2>2. \A j \in 1 .. n : j > i => keys[j] # keys[i]
    <3>1. \A j \in 1 .. n : keys[i] = keys[j] => i = j
      BY <1>2, <1>4, Zenon DEF Ordered
    <3>2. \A j \in 1 .. n : j > i => i # j
      OBVIOUS
    <3> QED BY <3>1, <3>2
  <2>3. LastWith(pairs, i)
    BY <1>5, <1>6, <2>2 DEF LastWith
  <2>4. pairs[i].key \in DOMAIN members /\ members[pairs[i].key] = pairs[i].value
    BY <1>1, <1>5, <2>3, MembersAre
  <2> QED BY <1>6, <2>1, <2>4, Zenon
<1> QED BY <1>7

\* The members of a row that is printed as JSON.
RowPairs(entry) ==
    Columns(entry) \o <<Pair(FieldsName, Object(Pairs(entry.fields))), Pair(RawName, String(entry.raw))>>

LEMMA RowPairsAre ==
    ASSUME NEW entry, NEW pairs, pairs = RowPairs(entry)
    PROVE  \E T : /\ pairs \in Seq(T) /\ Len(pairs) = 6
                  /\ \A i \in 1 .. 6 : pairs[i].key = RowKeys[i]
                  /\ \A i \in 1 .. 4 : pairs[i].value = ColumnValue(entry, RowKeys[i])
                  /\ pairs[5].value = Object(Pairs(entry.fields)) /\ pairs[6].value = String(entry.raw)
<1>1. PICK a, b : a = Pair(FieldsName, Object(Pairs(entry.fields))) /\ b = Pair(RawName, String(entry.raw))
  OBVIOUS
<1>2. PICK columns : columns = Columns(entry)
  OBVIOUS
<1>3. /\ Len(columns) = 4 /\ columns \in Seq(Range(columns))
      /\ \A i \in 1 .. 4 : columns[i] = Pair(RowKeys[i], ColumnValue(entry, RowKeys[i]))
  BY <1>2, ColumnsAre
<1> DEFINE T == Range(columns) \cup {a, b}
<1>4. columns \in Seq(T)
  <2>1. Range(columns) \subseteq T
    OBVIOUS
  <2> HIDE DEF T
  <2> QED BY <1>3, <2>1
<1>5. a \in T /\ b \in T
  OBVIOUS
<1> HIDE DEF T
<1>6. PICK two \in Seq(T) : two = <<a, b>> /\ Len(two) = 2 /\ two[1] = a /\ two[2] = b
  <2>1. <<a, b>> \in Seq(T) /\ Len(<<a, b>>) = 2 /\ <<a, b>>[1] = a /\ <<a, b>>[2] = b
    BY <1>5
  <2> QED BY <2>1, Zenon
<1>7. pairs = columns \o two
  BY <1>1, <1>2, <1>6, Zenon DEF RowPairs
<1>8. pairs \in Seq(T)
  BY <1>4, <1>7, Extended
<1>9. Len(pairs) = Len(columns) + Len(two)
  BY <1>4, <1>7, Extended
<1>10. Continues(columns, pairs)
  BY <1>4, <1>7, Extended
<1>11. \A m \in 1 .. Len(two) : pairs[Len(columns) + m] = two[m]
  BY <1>4, <1>7, Extended
<1>12. Len(pairs) = 6 /\ pairs[5] = a /\ pairs[6] = b
  <2>1. 4 + 2 = 6 /\ 4 + 1 = 5 /\ 1 \in 1 .. 2 /\ 2 \in 1 .. 2
    OBVIOUS
  <2> QED BY <1>3, <1>6, <1>9, <1>11, <2>1
<1>13. \A i \in 1 .. 4 : pairs[i] = columns[i]
  BY <1>3, <1>10 DEF Continues
<1>14. \A i \in 1 .. 4 : pairs[i].key = RowKeys[i] /\ pairs[i].value = ColumnValue(entry, RowKeys[i])
  BY <1>3, <1>13, PairHas
<1>18. RowKeys[5] = FieldsName /\ RowKeys[6] = RawName
  BY RowKeysDiffer
<1>19. a.key = FieldsName /\ a.value = Object(Pairs(entry.fields))
  BY <1>1, PairHas
<1>20. b.key = RawName /\ b.value = String(entry.raw)
  BY <1>1, PairHas
<1>15. pairs[5].key = RowKeys[5] /\ pairs[5].value = Object(Pairs(entry.fields))
  BY <1>12, <1>18, <1>19, Zenon
<1>16. pairs[6].key = RowKeys[6] /\ pairs[6].value = String(entry.raw)
  BY <1>12, <1>18, <1>20, Zenon
<1>17. \A i \in 1 .. 6 : i \in 1 .. 4 \/ i = 5 \/ i = 6
  OBVIOUS
<1> QED BY <1>8, <1>12, <1>14, <1>15, <1>16, <1>17, Zenon

LEMMA RowIsBack ==
    ASSUME NEW S, NEW entry, IsEntry(S, entry), NEW row, JsonEntry(RowPairs(entry), row)
    PROVE  /\ \A key \in KnownKeys :
                row.known[key] = IF entry.known[key] = {} THEN {NullText} ELSE entry.known[key]
           /\ FieldsName \in DOMAIN row.fields /\ row.fields[FieldsName] = Object(Pairs(entry.fields))
           /\ row.fields[RawName] = String(entry.raw)
<1>1. PICK pairs, T : /\ pairs = RowPairs(entry) /\ pairs \in Seq(T) /\ Len(pairs) = 6
                      /\ \A i \in 1 .. 6 : pairs[i].key = RowKeys[i]
                      /\ \A i \in 1 .. 4 : pairs[i].value = ColumnValue(entry, RowKeys[i])
                      /\ pairs[5].value = Object(Pairs(entry.fields)) /\ pairs[6].value = String(entry.raw)
  BY RowPairsAre
<1>2. PICK line, members : members = Members(pairs) /\ row = Promoted(line, members)
  BY <1>1, Zenon DEF JsonEntry
<1>3. ASSUME NEW i \in 1 .. 6 PROVE RowKeys[i] \in DOMAIN members /\ members[RowKeys[i]] = pairs[i].value
  <2>1. \A j \in 1 .. 6 : j > i => RowKeys[j] # RowKeys[i]
    <3>1. \A j \in 1 .. 6 : RowKeys[j] = RowKeys[i] => j = i
      BY RowKeysDiffer
    <3>2. \A j \in 1 .. 6 : j > i => j # i
      OBVIOUS
    <3> QED BY <3>1, <3>2
  <2>2. LastWith(pairs, i)
    BY <1>1, <2>1 DEF LastWith
  <2>3. pairs[i].key \in DOMAIN members /\ members[pairs[i].key] = pairs[i].value
    BY <1>1, <1>2, <2>2, MembersAre
  <2> QED BY <1>1, <2>3, Zenon
<1>4. ASSUME NEW key \in KnownKeys
      PROVE  row.known[key] = IF entry.known[key] = {} THEN {NullText} ELSE entry.known[key]
  <2>1. PICK i \in 1 .. 4 : key = RowKeys[i]
    BY KnownIs
  <2>2. i \in 1 .. 6
    OBVIOUS
  <2>3. key \in DOMAIN members /\ members[key] = ColumnValue(entry, key)
    BY <1>1, <1>3, <2>1, <2>2, Zenon
  <2>4. CASE entry.known[key] = {}
    <3>1. members[key] = Scalar("null", NullText)
      BY <2>3, <2>4, Zenon DEF ColumnValue
    <3>2. Lifted(members, key) /\ members[key].text = NullText
      BY <2>3, <3>1 DEF Lifted, IsScalar, Scalar
    <3>3. row.known[key] = {members[key].text}
      BY <1>2, <3>2, PromotedIs
    <3> QED BY <2>4, <3>2, <3>3, Zenon
  <2>5. CASE entry.known[key] # {}
    <3>1. PICK text : entry.known[key] = {text}
      BY <2>5, Zenon DEF IsEntry, HasColumns
    <3>2. (CHOOSE v \in entry.known[key] : TRUE) = text
      BY <3>1, ChosenIs, Zenon
    <3>3. members[key] = String(text)
      BY <2>3, <2>5, <3>2, Zenon DEF ColumnValue
    <3>4. Lifted(members, key) /\ members[key].text = text
      BY <2>3, <3>3 DEF Lifted, IsScalar, String, Scalar
    <3>5. row.known[key] = {members[key].text}
      BY <1>2, <3>4, PromotedIs
    <3> QED BY <2>5, <3>1, <3>4, <3>5, Zenon
  <2> QED BY <2>4, <2>5
<1>5. ASSUME NEW key \in DOMAIN members, key \notin KnownKeys
      PROVE  key \in DOMAIN row.fields /\ row.fields[key] = members[key]
  <2>1. ~Lifted(members, key)
    BY <1>5 DEF Lifted
  <2> QED BY <1>2, <1>5, <2>1, PromotedIs
<1>6. FieldsName \in DOMAIN members /\ members[FieldsName] = Object(Pairs(entry.fields))
  <2>1. 5 \in 1 .. 6
    OBVIOUS
  <2> QED BY <1>1, <1>3, <2>1, RowKeysDiffer, Zenon
<1>7. RawName \in DOMAIN members /\ members[RawName] = String(entry.raw)
  <2>1. 6 \in 1 .. 6
    OBVIOUS
  <2> QED BY <1>1, <1>3, <2>1, RowKeysDiffer, Zenon
<1> QED BY <1>4, <1>5, <1>6, <1>7, OthersUnknown, Zenon

\* A row that is printed as JSON is ingested as the same row, its fields one
\* level further down.
LEMMA RowsLoggedBack == Typed => RowsAreLoggedBack
<1> SUFFICES ASSUME Typed, Recorded, NEW entry \in Entries
             PROVE  \E row \in ParseLine("json", Line(<<"{", "}">>, {EntryToJson(entry)})) :
                        /\ \A key \in KnownKeys :
                                row.known[key] = IF entry.known[key] = {} THEN {NullText} ELSE entry.known[key]
                        /\ \A key \in DOMAIN entry.fields :
                                JsonExtract(row.fields, <<FieldsName, key>>) = JsonExtract(entry.fields, <<key>>)
                        /\ row.fields[RawName] = String(entry.raw)
  BY Zenon DEF RowsAreLoggedBack
<1>1. PICK S : IsEntry(S, entry)
  BY EntryTyped
<1>2. PICK row : JsonEntry(RowPairs(entry), row)
  BY JsonEntryIs
<1>3. row \in ParseLine("json", Line(<<"{", "}">>, {EntryToJson(entry)}))
  <2>1. LoggedAsJson(RowPairs(entry)) = Line(<<"{", "}">>, {EntryToJson(entry)})
    BY Zenon DEF LoggedAsJson, EntryToJson, Object, RowPairs, Pair
  <2>2. ParseLine("json", LoggedAsJson(RowPairs(entry))) = {row}
    BY <1>2, Zenon DEF JsonEntry
  <2> QED BY <2>1, <2>2, Zenon
<1>4. /\ \A key \in KnownKeys :
            row.known[key] = IF entry.known[key] = {} THEN {NullText} ELSE entry.known[key]
      /\ FieldsName \in DOMAIN row.fields /\ row.fields[FieldsName] = Object(Pairs(entry.fields))
      /\ row.fields[RawName] = String(entry.raw)
  BY <1>1, <1>2, RowIsBack, Zenon
<1>5. ASSUME NEW key \in DOMAIN entry.fields
      PROVE  JsonExtract(row.fields, <<FieldsName, key>>) = JsonExtract(entry.fields, <<key>>)
  <2>1. PICK name, k : name = FieldsName /\ k = key
    OBVIOUS
  <2>2. PICK fields, value, found : fields = row.fields /\ value = fields[name] /\ found = Members(value.members)
    OBVIOUS
  <2>3. value.kind = "object" /\ value.members = Pairs(entry.fields) /\ name \in DOMAIN fields
    <3>1. value = Object(Pairs(entry.fields)) /\ name \in DOMAIN fields
      BY <1>4, <2>1, <2>2, Zenon
    <3> QED BY <3>1 DEF Object
  <2>4. k \in DOMAIN found /\ found[k] = entry.fields[key]
    <3>1. IsFiniteSet(DOMAIN entry.fields)
      BY <1>1, Zenon DEF IsEntry, HasFields
    <3>2. found = Members(Pairs(entry.fields))
      BY <2>2, <2>3, Zenon
    <3> QED BY <1>5, <2>1, <3>1, <3>2, PairsAre
  <2>5. IsReached(fields, <<name, k>>, Members(value.members)[k])
    BY <2>2, <2>3, <2>4, ExtractTwo
  <2>6. PICK others : others = entry.fields /\ k \in DOMAIN others
    BY <1>5, <2>1
  <2>7. IsReached(others, <<k>>, others[k])
    BY <2>6, ExtractOne
  <2> QED BY <2>1, <2>2, <2>4, <2>5, <2>6, <2>7, Zenon DEF IsReached
<1> QED BY <1>3, <1>4, <1>5, Zenon

-----------------------------------------------------------------------------
(* The line of a row. *)

Times(text, c) == Cardinality({i \in DOMAIN text : text[i] = c})

\* A text over T in which c is n times.
Counted(T, c, n, text) == n \in Nat /\ text \in Seq(T) /\ Times(text, c) = n

LEMMA TimesIs ==
    ASSUME NEW T, NEW text \in Seq(T), NEW c
    PROVE  /\ IsFiniteSet({i \in DOMAIN text : text[i] = c}) /\ Times(text, c) \in Nat
           /\ Counted(T, c, Times(text, c), text)
<1>1. PICK n \in Nat : n = Len(text) /\ DOMAIN text = 1 .. n
  OBVIOUS
<1> DEFINE all == {i \in DOMAIN text : text[i] = c}
<1>2. all \in SUBSET (1 .. n) /\ IsFiniteSet(1 .. n)
  BY <1>1, FS_Interval
<1> HIDE DEF all
<1>3. IsFiniteSet(all)
  BY <1>2, FS_Subset
<1>4. Cardinality(all) \in Nat
  BY <1>3, FS_CardinalityType
<1>5. Times(text, c) = Cardinality(all)
  BY DEF all, Times
<1> QED BY <1>3, <1>4, <1>5 DEF Counted, all

LEMMA CountedOn ==
    ASSUME NEW T, NEW c, NEW m, NEW a, Counted(T, c, m, a), NEW n, NEW b, Counted(T, c, n, b),
           NEW whole, whole = a \o b
    PROVE  Counted(T, c, m + n, whole)
<1>1. a \in Seq(T) /\ b \in Seq(T) /\ m \in Nat /\ n \in Nat /\ Times(a, c) = m /\ Times(b, c) = n
  BY DEF Counted
<1>2. PICK k \in Nat, l \in Nat : k = Len(a) /\ l = Len(b) /\ DOMAIN a = 1 .. k /\ DOMAIN b = 1 .. l
  BY <1>1
<1>3. whole \in Seq(T)
  BY <1>1, Extended
<1>4. Len(whole) = k + l
  BY <1>1, <1>2, Extended
<1>5. \A i \in 1 .. k : whole[i] = a[i]
  <2>1. Continues(a, whole)
    BY <1>1, Extended
  <2> QED BY <1>2, <2>1 DEF Continues
<1>6. \A i \in 1 .. l : whole[k + i] = b[i]
  <2>1. \A i \in 1 .. Len(b) : whole[Len(a) + i] = b[i]
    BY <1>1, Extended
  <2> QED BY <1>2, <2>1
<1> DEFINE A == {i \in DOMAIN a : a[i] = c}
           B == {i \in DOMAIN b : b[i] = c}
           C == {i \in DOMAIN whole : whole[i] = c}
           D == {i \in k + 1 .. k + l : whole[i] = c}
           move == [i \in B |-> k + i]
<1>7. IsFiniteSet(A) /\ Cardinality(A) = m
  BY <1>1, TimesIs DEF Times
<1>8. IsFiniteSet(B) /\ Cardinality(B) = n
  BY <1>1, TimesIs DEF Times
<1>9. B \subseteq 1 .. l /\ \A i \in 1 .. l : i \in B <=> b[i] = c
  BY <1>2
<1>10. D \subseteq k + 1 .. k + l /\ \A i \in k + 1 .. k + l : i \in D <=> whole[i] = c
  OBVIOUS
<1>11. A \subseteq 1 .. k /\ \A i \in 1 .. k : i \in A <=> a[i] = c
  BY <1>2
<1>12. C \subseteq 1 .. k + l /\ \A i \in 1 .. k + l : i \in C <=> whole[i] = c
  BY <1>3, <1>4
<1>13. DOMAIN move = B /\ \A i \in B : move[i] = k + i
  OBVIOUS
<1>20. move = [i \in B |-> move[i]]
  OBVIOUS
<1> HIDE DEF A, B, C, D, move
<1>14. move \in Bijection(B, D)
  <2>1. \A i \in B : move[i] \in D
    <3> SUFFICES ASSUME NEW i \in B PROVE move[i] \in D
      OBVIOUS
    <3>1. i \in 1 .. l /\ b[i] = c /\ k + i \in k + 1 .. k + l
      BY <1>9
    <3>2. whole[k + i] = c
      BY <1>6, <3>1
    <3> QED BY <1>10, <1>13, <3>1, <3>2
  <2>2. \A i, j \in B : move[i] = move[j] => i = j
    BY <1>9, <1>13
  <2>3. \A d \in D : \E i \in B : move[i] = d
    <3> SUFFICES ASSUME NEW d \in D PROVE \E i \in B : move[i] = d
      OBVIOUS
    <3>1. d \in k + 1 .. k + l /\ whole[d] = c
      BY <1>10
    <3>2. PICK i \in 1 .. l : d = k + i
      <4>1. d - k \in 1 .. l /\ d = k + (d - k)
        BY <3>1
      <4> QED BY <4>1
    <3>3. i \in B
      BY <1>6, <1>9, <3>1, <3>2
    <3> QED BY <1>13, <3>2, <3>3
  <2>4. move \in [B -> D]
    BY <1>20, <2>1
  <2> QED BY <1>13, <2>2, <2>3, <2>4 DEF Bijection, Injection, Surjection, IsInjective
<1>15. IsFiniteSet(D) /\ Cardinality(D) = n
  <2>1. ExistsBijection(B, D)
    BY <1>14 DEF ExistsBijection
  <2>2. IsFiniteSet(D)
    BY <1>8, <2>1, FS_Bijection
  <2>3. Cardinality(D) = Cardinality(B)
    BY <1>8, <2>1, FS_Bijection
  <2> QED BY <1>8, <2>2, <2>3
<1>16. C = A \cup D
  <2>1. ASSUME NEW i \in C PROVE i \in A \cup D
    <3>1. i \in 1 .. k + l /\ whole[i] = c
      BY <1>12
    <3>2. i \in 1 .. k \/ i \in k + 1 .. k + l
      BY <3>1
    <3> QED BY <1>5, <1>10, <1>11, <3>1, <3>2
  <2>2. ASSUME NEW i \in A PROVE i \in C
    <3>1. i \in 1 .. k /\ a[i] = c /\ i \in 1 .. k + l
      BY <1>11
    <3> QED BY <1>5, <1>12, <3>1
  <2>3. ASSUME NEW i \in D PROVE i \in C
    <3>1. i \in k + 1 .. k + l
      BY <1>10, <2>3
    <3>2. whole[i] = c
      BY <1>10, <2>3, <3>1
    <3>3. i \in 1 .. k + l
      BY <3>1
    <3> QED BY <1>12, <3>2, <3>3
  <2> QED BY <2>1, <2>2, <2>3
<1>17. A \cap D = {}
  BY <1>10, <1>11
<1>18. Cardinality(A \cup D) = m + n - Cardinality({})
  BY <1>7, <1>15, <1>17, FS_Union
<1>19. Cardinality(C) = m + n
  BY <1>1, <1>16, <1>18, FS_EmptySet
<1>21. Times(whole, c) = m + n
  BY <1>19 DEF Times, C
<1> QED BY <1>1, <1>3, <1>21 DEF Counted

\* A text without c, as a text over more characters.
LEMMA CountedNone ==
    ASSUME NEW T, NEW c, NEW text \in Seq(T \ {c})
    PROVE  Counted(T, c, 0, text)
<1>1. PICK n \in Nat : n = Len(text) /\ DOMAIN text = 1 .. n /\ \A i \in 1 .. n : text[i] \in T \ {c}
  OBVIOUS
<1>2. {i \in DOMAIN text : text[i] = c} = {}
  BY <1>1
<1>3. Times(text, c) = 0
  BY <1>2, FS_EmptySet DEF Times
<1>4. text \in Seq(T)
  OBVIOUS
<1> QED BY <1>3, <1>4 DEF Counted

\* What is joined are the texts themselves, all but the first behind a separator.
PartsOf(lines, sep, parts) ==
    /\ Len(parts) = Len(lines) /\ FlattenSeq(parts) = Joined(lines, sep)
    /\ \A i \in 1 .. Len(lines) : parts[i] = IF i = 1 THEN lines[i] ELSE sep \o lines[i]

LEMMA JoinedParts ==
    ASSUME NEW S, NEW sep \in Seq(S), NEW lines \in Seq(Seq(S))
    PROVE  \E parts \in Seq(Seq(S)) : PartsOf(lines, sep, parts)
<1>1. PICK n \in Nat : n = Len(lines) /\ DOMAIN lines = 1 .. n
  OBVIOUS
<1> DEFINE part(i) == IF i = 1 THEN lines[1] ELSE sep \o lines[i]
           parts == [i \in DOMAIN lines |-> part(i)]
<1>2. FlattenSeq(parts) = Joined(lines, sep)
  BY DEF Joined
<1>3. ASSUME NEW i \in 1 .. n PROVE part(i) \in Seq(S)
  <2>1. PICK l \in Seq(S) : l = lines[i]
    BY <1>1
  <2>2. sep \o l \in Seq(S)
    BY Extended
  <2>3. i = 1 \/ i # 1
    OBVIOUS
  <2> QED BY <2>1, <2>2, <2>3
<1>4. \A i \in 1 .. n : part(i) = IF i = 1 THEN lines[i] ELSE sep \o lines[i]
  OBVIOUS
<1>5. parts = [i \in 1 .. n |-> part(i)]
  BY <1>1
<1> HIDE DEF parts, part
<1>6. parts \in Seq(Seq(S)) /\ Len(parts) = n /\ \A i \in 1 .. n : parts[i] = part(i)
  BY <1>3, <1>5
<1>7. PartsOf(lines, sep, parts)
  BY <1>1, <1>2, <1>4, <1>6, Zenon DEF PartsOf
<1> QED BY <1>6, <1>7

LEMMA JoinedTyped ==
    ASSUME NEW S, NEW sep \in Seq(S), NEW lines \in Seq(Seq(S))
    PROVE  Joined(lines, sep) \in Seq(S)
<1>1. PICK parts \in Seq(Seq(S)) : FlattenSeq(parts) = Joined(lines, sep)
  BY JoinedParts DEF PartsOf
<1>2. PICK pre : JoinedSoFar(S, parts, pre) /\ FlattenSeq(parts) = pre[Len(parts)]
  BY FlattenIs
<1>3. Len(parts) \in 0 .. Len(parts)
  OBVIOUS
<1>4. pre[Len(parts)] \in Seq(S)
  BY <1>2, <1>3 DEF JoinedSoFar
<1> QED BY <1>1, <1>2, <1>4

LEMMA ListedSeq ==
    ASSUME NEW V, NEW n \in Nat, NEW s, s = [k \in 1 .. n |-> s[k]], \A k \in 1 .. n : s[k] \in V
    PROVE  s \in Seq(V) /\ Len(s) = n
OBVIOUS

LEMMA SeqOver ==
    ASSUME NEW T, NEW s \in Seq(T), NEW V, \A k \in 1 .. Len(s) : s[k] \in V
    PROVE  s \in Seq(V)
OBVIOUS

\* What JSON puts in quotes is on one line.
LEMMA EscapedClean ==
    ASSUME NEW S, Marked(S), NEW c \in S
    PROVE  Escaped(c) \in Seq(S \ {"\n"})
<1> DEFINE N == S \ {"\n"}
<1>1. PICK b, n, q : b = "\\" /\ n = "n" /\ q = "\"" /\ b \in N /\ n \in N /\ q \in N
  <2>1. "\\" \in S /\ "n" \in S /\ "\"" \in S
    BY Zenon DEF Marked
  <2>2. "\\" # "\n" /\ "n" # "\n" /\ "\"" # "\n"
    OBVIOUS
  <2> QED BY <2>1, <2>2, Zenon
<1>5. b \in N /\ n \in N
  BY <1>1, Zenon
<1>2. CASE c \in {"\"", "\\"}
  <2>1. Escaped(c) = <<b, c>>
    BY <1>1, <1>2, EscapedIs
  <2>2. c \in N
    BY <1>1, <1>2
  <2> HIDE DEF N
  <2>4. <<b, c>> \in Seq(N)
    BY <1>5, <2>2, TwoAre
  <2>3. Escaped(c) \in Seq(N)
    BY <2>1, <2>4, Zenon
  <2> QED BY <2>3, Zenon DEF N
<1>3. CASE c = "\n"
  <2>1. Escaped(c) = <<b, n>>
    BY <1>1, <1>3, EscapedIs
  <2> HIDE DEF N
  <2>4. <<b, n>> \in Seq(N)
    BY <1>5, TwoAre
  <2>2. Escaped(c) \in Seq(N)
    BY <2>1, <2>4, Zenon
  <2> QED BY <2>2, Zenon DEF N
<1>4. CASE c \notin {"\"", "\\", "\n"}
  <2>1. Escaped(c) = <<c>>
    BY <1>4, EscapedIs
  <2>2. c \in N
    BY <1>4
  <2> HIDE DEF N
  <2>3. Escaped(c) \in Seq(N)
    BY <2>1, <2>2, OneIs
  <2> QED BY <2>3 DEF N
<1> QED BY <1>2, <1>3, <1>4

LEMMA JsonStringClean ==
    ASSUME NEW S, Marked(S), NEW text \in Seq(S)
    PROVE  JsonString(text) \in Seq(S \ {"\n"})
<1> DEFINE N == S \ {"\n"}
<1>1. PICK parts \in Seq(Seq(S)) : parts = EscapedParts(text) /\ Len(parts) = Len(text)
                                   /\ \A k \in 1 .. Len(text) : parts[k] = Escaped(text[k])
  BY EscapedTyped
<1>2. \A k \in 1 .. Len(text) : text[k] \in S
  OBVIOUS
<1>3. \A k \in 1 .. Len(text) : Escaped(text[k]) \in Seq(N)
  BY <1>2, EscapedClean
<1>4. PICK c : c = "\"" /\ c \in N
  <2>1. "\"" \in S
    BY Zenon DEF Marked
  <2>2. "\"" # "\n"
    OBVIOUS
  <2> QED BY <2>1, <2>2
<1> HIDE DEF N
<1>5. parts \in Seq(Seq(N))
  <2>1. PICK n \in Nat : n = Len(text) /\ n = Len(parts)
    BY <1>1
  <2>2. \A k \in 1 .. n : parts[k] \in Seq(N)
    BY <1>1, <1>3, <2>1 DEF N
  <2>3. \A k \in 1 .. Len(parts) : parts[k] \in Seq(N)
    BY <2>1, <2>2
  <2> QED BY <2>3, SeqOver
<1>6. PICK pre : JoinedSoFar(N, parts, pre) /\ FlattenSeq(parts) = pre[Len(parts)]
  BY <1>5, FlattenIs
<1>7. Len(parts) \in 0 .. Len(parts)
  OBVIOUS
<1>8. PICK written \in Seq(N) : written = FlattenSeq(EscapedParts(text))
  BY <1>1, <1>6, <1>7 DEF JoinedSoFar
<1>9. PICK quote : quote = <<c>>
  OBVIOUS
<1>10. (quote \o written) \o quote = JsonString(text)
  BY <1>4, <1>8, <1>9, Zenon DEF JsonString, EscapedParts, Escaped
<1>11. (quote \o written) \o quote \in Seq(N)
  BY <1>4, <1>9, QuotesAround
<1> QED BY <1>10, <1>11, Zenon DEF N

\* A value is shown in quotes, or as it is and then on one line, with no quote in
\* front and, if it is a string, with no comma in it.
ShownBare(S, value) ==
    /\ value.text \in Seq(S \ {"\n"}) /\ (Len(value.text) > 0 => value.text[1] # "\"")
    /\ ("," \in Range(value.text) => value.kind # "string")

LEMMA ShownIs ==
    ASSUME NEW S, NEW value, IsValue(S, value)
    PROVE  \/ FormatFieldValue(value) = JsonString(value.text)
           \/ FormatFieldValue(value) = value.text /\ ShownBare(S, value)
<1>1. PICK text \in Seq(S) : text = value.text
  BY DEF IsValue
<1>2. PICK n \in Nat : n = Len(text) /\ DOMAIN text = 1 .. n /\ \A i \in 1 .. n : text[i] \in S
  OBVIOUS
<1>3. \A i \in 1 .. n : text[i] \in Range(text)
  BY <1>2 DEF Range
<1>4. ASSUME "\n" \notin Range(text) PROVE text \in Seq(S \ {"\n"})
  BY <1>2, <1>3, <1>4
<1>5. CASE value.kind # "string"
  <2>1. FormatFieldValue(value) = value.text
    BY <1>5, Zenon DEF FormatFieldValue
  <2>2. "\n" \notin Range(text) /\ (text # <<>> => Head(text) # "\"")
    BY <1>1, <1>5, Zenon DEF IsValue, IsBare
  <2>3. Len(text) > 0 => text[1] # "\""
    <3>1. Len(text) > 0 => text # <<>> /\ Head(text) = text[1]
      OBVIOUS
    <3> QED BY <2>2, <3>1, Zenon
  <2> QED BY <1>1, <1>4, <1>5, <2>1, <2>2, <2>3, Zenon DEF ShownBare
<1>6. CASE value.kind = "string" /\ ~IsSimpleToken(value.text)
  BY <1>6, Zenon DEF FormatFieldValue
<1>7. CASE value.kind = "string" /\ IsSimpleToken(value.text)
  <2>1. FormatFieldValue(value) = value.text
    BY <1>7, Zenon DEF FormatFieldValue
  <2>2. Range(text) \subseteq Letter \cup Digit \cup {"-", "."}
    BY <1>1, <1>7, Zenon DEF IsSimpleToken
  <2>3. "\n" \notin Letter \cup Digit /\ "," \notin Letter \cup Digit /\ "\"" \notin Letter \cup Digit
    BY LinesAssumption, CharactersAssumption
  <2>4. "\n" \notin {"-", "."} /\ "," \notin {"-", "."} /\ "\"" \notin {"-", "."}
    OBVIOUS
  <2>5. "\n" \notin Range(text) /\ "," \notin Range(text) /\ "\"" \notin Range(text)
    BY <2>2, <2>3, <2>4, Zenon
  <2>6. Len(text) > 0 => text[1] # "\""
    <3>1. Len(text) > 0 => 1 \in 1 .. n
      BY <1>2
    <3> QED BY <1>3, <2>5, <3>1, Zenon
  <2> QED BY <1>1, <1>4, <2>1, <2>5, <2>6, Zenon DEF ShownBare
<1> QED BY <1>5, <1>6, <1>7, Zenon

\* Fields over more characters.
LEMMA FieldsMore ==
    ASSUME NEW S, NEW T, S \subseteq T, Marked(S), NEW fields, HasFields(S, fields)
    PROVE  Marked(T) /\ HasFields(T, fields)
<1>1. Marked(T)
  BY Zenon DEF Marked
<1>2. ASSUME NEW key \in DOMAIN fields PROVE IsFieldKey(T, key) /\ IsValue(T, fields[key])
  <2>1. IsFieldKey(S, key) /\ IsValue(S, fields[key])
    BY Zenon DEF HasFields
  <2>2. key \in Seq(T)
    <3>1. key \in Seq(S)
      BY <2>1, Zenon DEF IsFieldKey
    <3> QED BY <3>1
  <2>3. fields[key].text \in Seq(T)
    <3>1. PICK text \in Seq(S) : text = fields[key].text
      BY <2>1, Zenon DEF IsValue
    <3>2. text \in Seq(T)
      OBVIOUS
    <3> QED BY <3>1, <3>2
  <2> QED BY <2>1, <2>2, <2>3, Zenon DEF IsFieldKey, IsValue
<1> QED BY <1>1, <1>2, Zenon DEF HasFields

\* A field is written with characters of T, if its key is and T has all but line breaks.
LEMMA FieldOver ==
    ASSUME NEW S, Marked(S), NEW fields, HasFields(S, fields), NEW T, S \ {"\n"} \subseteq T,
           NEW key \in DOMAIN fields, key \in Seq(T)
    PROVE  FormatField(fields, key) \in Seq(T)
<1> DEFINE N == T
<1>1. IsFieldKey(S, key) /\ IsValue(S, fields[key])
  BY Zenon DEF HasFields
<1>2. key \in Seq(N)
  OBVIOUS
<1>3. PICK sign \in Seq(N) : sign = <<"=">>
  <2>1. "=" \in N
    <3>1. "=" \in S
      BY Zenon DEF Marked
    <3>2. "=" # "\n"
      OBVIOUS
    <3> QED BY <3>1, <3>2, Zenon
  <2> HIDE DEF N
  <2> QED BY <2>1, OneIs, Zenon
<1>4. PICK value : value = fields[key]
  OBVIOUS
<1>5. FormatFieldValue(value) \in Seq(N)
  <2>1. IsValue(S, value)
    BY <1>1, <1>4
  <2>2. CASE FormatFieldValue(value) = JsonString(value.text)
    <3>1. value.text \in Seq(S)
      BY <2>1, Zenon DEF IsValue
    <3>2. JsonString(value.text) \in Seq(S \ {"\n"})
      BY <3>1, JsonStringClean
    <3>3. PICK M : M = S \ {"\n"} /\ M \subseteq N
      OBVIOUS
    <3>4. PICK r \in Seq(M) : r = JsonString(value.text)
      BY <3>2, <3>3
    <3>5. r \in Seq(N)
      BY <3>3
    <3> QED BY <2>2, <3>4, <3>5, Zenon
  <2>3. CASE FormatFieldValue(value) = value.text /\ ShownBare(S, value)
    <3>1. value.text \in Seq(S \ {"\n"})
      BY <2>3, Zenon DEF ShownBare
    <3>2. PICK M : M = S \ {"\n"} /\ M \subseteq N
      OBVIOUS
    <3>3. PICK r \in Seq(M) : r = value.text
      BY <3>1, <3>2
    <3>4. r \in Seq(N)
      BY <3>2
    <3> QED BY <2>3, <3>3, <3>4, Zenon
  <2> HIDE DEF N
  <2> QED BY <2>1, <2>2, <2>3, ShownIs
<1> HIDE DEF N
<1>6. PICK front : front = key \o sign /\ front \in Seq(N)
  BY <1>2, <1>3, Extended
<1>7. front \o FormatFieldValue(value) \in Seq(N)
  BY <1>5, <1>6, Extended
<1>8. FormatField(fields, key) = front \o FormatFieldValue(value)
  BY <1>3, <1>4, <1>6, Zenon DEF FormatField
<1> QED BY <1>7, <1>8 DEF N

\* The fields that are shown, in their order.
Shows(fields, keys, lines) ==
    /\ Ordered(DOMAIN fields, keys) /\ Len(lines) = Len(keys)
    /\ \A i \in 1 .. Len(keys) : lines[i] = FormatField(fields, keys[i])

LEMMA FieldsShown ==
    ASSUME NEW S, Marked(S), NEW fields, HasFields(S, fields), NEW T, S \ {"\n"} \subseteq T,
           \A key \in DOMAIN fields : key \in Seq(T)
    PROVE  \E keys : \E lines \in Seq(Seq(T)) :
             Shows(fields, keys, lines) /\ FormatFields(fields) = Joined(lines, <<",", " ">>)
<1> DEFINE N == T
           keys == SetToSeq(DOMAIN fields)
           lines == [i \in DOMAIN keys |-> FormatField(fields, keys[i])]
<1>1. FormatFields(fields) = Joined(lines, <<",", " ">>)
  BY Zenon DEF FormatFields
<1>2. Ordered(DOMAIN fields, keys)
  <2>1. IsFiniteSet(DOMAIN fields)
    BY Zenon DEF HasFields
  <2> HIDE DEF keys
  <2> QED BY <2>1, OrderIs DEF keys
<1> HIDE DEF keys
<1>3. keys \in Seq(DOMAIN fields)
  BY <1>2, Zenon DEF Ordered
<1>4. PICK n \in Nat : n = Len(keys) /\ DOMAIN keys = 1 .. n
  BY <1>3
<1>5. ASSUME NEW i \in 1 .. n PROVE FormatField(fields, keys[i]) \in Seq(N)
  <2>1. keys[i] \in DOMAIN fields
    BY <1>3, <1>4
  <2> QED BY <2>1, FieldOver
<1> HIDE DEF N
<1>6. lines \in Seq(Seq(N)) /\ Len(lines) = n /\ \A i \in 1 .. n : lines[i] = FormatField(fields, keys[i])
  <2>1. lines = [i \in 1 .. n |-> FormatField(fields, keys[i])]
    BY <1>4
  <2> HIDE DEF lines
  <2> QED BY <1>5, <2>1
<1> HIDE DEF lines
<1>7. Shows(fields, keys, lines)
  BY <1>2, <1>4, <1>6, Zenon DEF Shows
<1> QED BY <1>1, <1>6, <1>7, Zenon DEF N

\* The characters of a line that is shown.
Framed(S) == S \cup {",", " ", "-", "{", "}", "[", "]"}

KeysOnOneLine(fields) == \A key \in DOMAIN fields : "\n" \notin Range(key)

LEMMA CleanKeys ==
    ASSUME NEW S, NEW fields, HasFields(S, fields), KeysOnOneLine(fields), NEW key \in DOMAIN fields
    PROVE  key \in Seq(S \ {"\n"})
<1>1. key \in Seq(S) /\ "\n" \notin Range(key)
  BY Zenon DEF HasFields, IsFieldKey, KeysOnOneLine
<1>2. PICK c : c = "\n" /\ c \notin Range(key)
  BY <1>1
<1>3. PICK n \in Nat : n = Len(key) /\ DOMAIN key = 1 .. n
  BY <1>1
<1>4. \A i \in 1 .. n : key[i] \in Range(key)
  BY <1>3, Zenon DEF Range
<1>5. \A i \in 1 .. n : key[i] \in S \ {c}
  BY <1>1, <1>2, <1>3, <1>4
<1>6. key \in Seq(S \ {c})
  BY <1>1, <1>3, <1>5, SeqOver
<1> QED BY <1>2, <1>6

\* The values of fields bring no line break.
LEMMA FieldsOnOneLine ==
    ASSUME NEW S, Marked(S), NEW fields, HasFields(S, fields), KeysOnOneLine(fields)
    PROVE  Counted(Framed(S), "\n", 0, FormatFields(fields))
<1> DEFINE N == Framed(S) \ {"\n"}
<1>1. PICK keys : \E lines \in Seq(Seq(N)) :
          Shows(fields, keys, lines) /\ FormatFields(fields) = Joined(lines, <<",", " ">>)
  <2>1. S \ {"\n"} \subseteq N
    BY DEF Framed
  <2> HIDE DEF N
  <2>2. ASSUME NEW key \in DOMAIN fields PROVE key \in Seq(N)
    <3>1. PICK M : M = S \ {"\n"} /\ M \subseteq N
      BY <2>1
    <3>2. key \in Seq(M)
      BY <3>1, CleanKeys
    <3> QED BY <3>1, <3>2
  <2> QED BY <2>1, <2>2, FieldsShown, Zenon
<1>2. PICK lines \in Seq(Seq(N)) : FormatFields(fields) = Joined(lines, <<",", " ">>)
  BY <1>1, Zenon
<1>3. "," \in N /\ " " \in N
  <2>1. "," # "\n" /\ " " # "\n"
    OBVIOUS
  <2> QED BY <2>1, Zenon DEF Framed
<1> HIDE DEF N
<1>4. PICK sep \in Seq(N) : sep = <<",", " ">>
  <2>1. <<",", " ">> \in Seq(N)
    BY <1>3, TwoAre
  <2> QED BY <2>1, Zenon
<1>5. PICK text \in Seq(N) : text = FormatFields(fields)
  <2>1. Joined(lines, sep) \in Seq(N)
    BY <1>2, JoinedTyped
  <2> QED BY <1>2, <1>4, <2>1, Zenon
<1>6. PICK c : c = "\n"
  OBVIOUS
<1>7. text \in Seq(Framed(S) \ {c})
  BY <1>5, <1>6, Zenon DEF N
<1>8. Counted(Framed(S), c, 0, text)
  BY <1>7, CountedNone
<1> QED BY <1>5, <1>6, <1>8, Zenon

HasChar(text, c) == \E m \in 1 .. Len(text) : text[m] = c

\* What is in a text that is joined is in the whole.
LEMMA JoinedHas ==
    ASSUME NEW S, NEW sep \in Seq(S), NEW lines \in Seq(Seq(S)), NEW k \in 1 .. Len(lines),
           NEW j \in 1 .. Len(lines[k]), NEW c, c = lines[k][j], NEW text, text = Joined(lines, sep)
    PROVE  HasChar(text, c)
<1>1. PICK parts \in Seq(Seq(S)) : PartsOf(lines, sep, parts)
  BY JoinedParts
<1>2. PICK pre : JoinedSoFar(S, parts, pre) /\ FlattenSeq(parts) = pre[Len(parts)]
  BY FlattenIs
<1>3. PICK n \in Nat : n = Len(lines) /\ n = Len(parts) /\ k \in 1 .. n
  BY <1>1 DEF PartsOf
<1>4. parts[k] = IF k = 1 THEN lines[k] ELSE sep \o lines[k]
  BY <1>1 DEF PartsOf
<1>5. PICK line \in Seq(S), part \in Seq(S) : line = lines[k] /\ part = parts[k]
  <2>1. lines[k] \in Seq(S)
    OBVIOUS
  <2>2. k \in 1 .. Len(parts)
    BY <1>3
  <2>3. parts[k] \in Seq(S)
    BY <1>1, <2>2
  <2> QED BY <2>1, <2>3
<1>6. \E i \in 1 .. Len(part) : part[i] = line[j]
  <2>1. CASE k = 1
    <3>1. part = line
      BY <1>4, <1>5, <2>1
    <3> QED BY <1>5, <3>1
  <2>2. CASE k # 1
    <3>1. part = sep \o line
      BY <1>4, <1>5, <2>2
    <3>2. Len(part) = Len(sep) + Len(line) /\ \A m \in 1 .. Len(line) : part[Len(sep) + m] = line[m]
      BY <3>1, Extended
    <3>3. PICK a \in Nat, b \in Nat : a = Len(sep) /\ b = Len(line) /\ j \in 1 .. b
      BY <1>5
    <3>4. a + j \in 1 .. Len(part) /\ part[a + j] = line[j]
      BY <3>2, <3>3
    <3> QED BY <3>4
  <2> QED BY <2>1, <2>2
<1>7. PICK i \in 1 .. Len(part) : part[i] = line[j]
  BY <1>6
<1>8. PICK p \in Seq(S), q \in Seq(S), r \in Seq(S) : p = pre[k - 1] /\ q = pre[k] /\ r = parts[k] /\ Grown(p, q, r)
  <2>1. k \in 1 .. Len(parts)
    BY <1>3
  <2> QED BY <1>2, <2>1, PrefixesAre
<1>9. PICK l \in Nat : l \in 1 .. Len(q) /\ q[l] = part[i]
  <2>1. r = part
    BY <1>5, <1>8, Zenon
  <2>3. Len(q) = Len(p) + Len(part) /\ \A m \in 1 .. Len(part) : q[Len(p) + m] = part[m]
    BY <1>8, <2>1, Zenon DEF Grown
  <2>4. PICK a \in Nat, b \in Nat : a = Len(p) /\ b = Len(part) /\ i \in 1 .. b
    OBVIOUS
  <2>2. q[a + i] = part[i] /\ Len(q) = a + b
    BY <2>3, <2>4
  <2>5. a + i \in Nat /\ a + i \in 1 .. Len(q)
    BY <2>2, <2>4
  <2> QED BY <2>2, <2>5
<1>10. text = pre[Len(parts)] /\ text \in Seq(S)
  <2>1. text = pre[n]
    BY <1>1, <1>2, <1>3 DEF PartsOf
  <2>2. n \in 0 .. Len(parts)
    BY <1>3
  <2> QED BY <1>2, <1>3, <2>1, <2>2 DEF JoinedSoFar
<1>11. Continues(q, text)
  <2>1. k \in 0 .. Len(parts)
    BY <1>3
  <2>2. Continues(pre[k], pre[Len(parts)])
    BY <1>2, <2>1, PrefixStays
  <2> QED BY <1>8, <1>10, <2>2
<1>12. l \in 1 .. Len(text) /\ text[l] = q[l]
  <2>1. l \in 1 .. Len(q)
    BY <1>9
  <2>2. text[l] = q[l] /\ Len(q) <= Len(text)
    BY <1>11, <2>1, Zenon DEF Continues
  <2>3. Len(text) \in Nat /\ Len(q) \in Nat
    BY <1>10
  <2>4. l \in 1 .. Len(text)
    BY <2>1, <2>2, <2>3
  <2> QED BY <2>2, <2>4
<1>13. text[l] = c
  BY <1>5, <1>7, <1>9, <1>12
<1> QED BY <1>12, <1>13 DEF HasChar

\* A key brings its line breaks.
LEMMA KeyIsPrinted ==
    ASSUME NEW S, Marked(S), NEW fields, HasFields(S, fields), NEW key \in DOMAIN fields, NEW j \in 1 .. Len(key)
    PROVE  \E m \in 1 .. Len(FormatField(fields, key)) : FormatField(fields, key)[m] = key[j]
<1>1. key \in Seq(S)
  BY Zenon DEF HasFields, IsFieldKey
<1>2. PICK line : line = FormatField(fields, key)
  OBVIOUS
<1>3. PICK sign \in Seq(S), shown \in Seq(S) : line = (key \o sign) \o shown
  <2>1. PICK e : e = "=" /\ e \in S
    BY Zenon DEF Marked
  <2>2. <<e>> \in Seq(S)
    BY <2>1
  <2>3. PICK value : value = fields[key] /\ IsValue(S, value)
    BY Zenon DEF HasFields
  <2>4. PICK M : M = S \ {"\n"} /\ M \subseteq S
    OBVIOUS
  <2>5. FormatFieldValue(value) \in Seq(S)
    <3>1. PICK said \in Seq(S) : said = value.text
      BY <2>3, Zenon DEF IsValue
    <3>2. JsonString(said) \in Seq(M)
      BY <2>4, <3>1, JsonStringClean
    <3>3. JsonString(said) \in Seq(S)
      <4>1. PICK r \in Seq(M) : r = JsonString(said)
        BY <3>2
      <4>2. r \in Seq(S)
        BY <2>4
      <4> QED BY <4>1, <4>2
    <3>4. \/ FormatFieldValue(value) = JsonString(value.text)
          \/ FormatFieldValue(value) = value.text
      BY <2>3, ShownIs
    <3> QED BY <3>1, <3>3, <3>4, Zenon
  <2>6. line = (key \o <<e>>) \o FormatFieldValue(value)
    BY <1>2, <2>1, <2>3, Zenon DEF FormatField
  <2> QED BY <2>2, <2>5, <2>6, Zenon
<1>4. PICK front : front = key \o sign /\ front \in Seq(S) /\ Continues(key, front)
  BY <1>1, <1>3, Extended
<1>5. line \in Seq(S) /\ Continues(front, line)
  BY <1>3, <1>4, Extended
<1>6. PICK a \in Nat, b \in Nat, c \in Nat : a = Len(key) /\ b = Len(front) /\ c = Len(line) /\ j \in 1 .. a
  BY <1>1, <1>4, <1>5
<1>7. a <= b /\ b <= c /\ front[j] = key[j]
  BY <1>4, <1>5, <1>6 DEF Continues
<1>8. j \in 1 .. b /\ j \in 1 .. c
  BY <1>6, <1>7
<1>9. line[j] = front[j]
  BY <1>5, <1>6, <1>8 DEF Continues
<1> QED BY <1>2, <1>6, <1>7, <1>8, <1>9

LEMMA FieldsCounted ==
    ASSUME NEW S, Marked(S), NEW fields, HasFields(S, fields)
    PROVE  \E n : Counted(Framed(S), "\n", n, FormatFields(fields)) /\ (n = 0 <=> KeysOnOneLine(fields))
<1> DEFINE T == Framed(S)
<1>1. S \subseteq T /\ "," \in T /\ " " \in T
  BY DEF Framed
<1> HIDE DEF T
<1>2. Marked(T) /\ HasFields(T, fields)
  BY <1>1, FieldsMore
<1>3. PICK keys : \E lines \in Seq(Seq(T)) :
          Shows(fields, keys, lines) /\ FormatFields(fields) = Joined(lines, <<",", " ">>)
  <2>1. \A key \in DOMAIN fields : key \in Seq(T)
    BY <1>2, Zenon DEF HasFields, IsFieldKey
  <2>2. T \ {"\n"} \subseteq T
    OBVIOUS
  <2> QED BY <1>2, <2>1, <2>2, FieldsShown, Zenon
<1>4. PICK lines \in Seq(Seq(T)) : Shows(fields, keys, lines) /\ FormatFields(fields) = Joined(lines, <<",", " ">>)
  BY <1>3, Zenon
<1>5. PICK sep \in Seq(T) : sep = <<",", " ">>
  <2>1. <<",", " ">> \in Seq(T)
    BY <1>1, TwoAre
  <2> QED BY <2>1, Zenon
<1>6. PICK text : text = FormatFields(fields) /\ text = Joined(lines, sep)
  BY <1>4, <1>5, Zenon
<1>7. text \in Seq(T)
  BY <1>6, JoinedTyped
<1>8. PICK c : c = "\n"
  OBVIOUS
<1>9. Counted(T, c, Times(text, c), text) /\ Times(text, c) \in Nat /\ IsFiniteSet({i \in DOMAIN text : text[i] = c})
  BY <1>7, TimesIs
<1>10. ASSUME KeysOnOneLine(fields) PROVE Times(text, c) = 0
  <2>1. Counted(Framed(S), "\n", 0, FormatFields(fields))
    BY <1>10, FieldsOnOneLine
  <2>2. Times(FormatFields(fields), "\n") = 0
    BY <2>1, Zenon DEF Counted
  <2> QED BY <1>6, <1>8, <2>2, Zenon
<1>11. ASSUME ~KeysOnOneLine(fields) PROVE Times(text, c) # 0
  <2>1. PICK key \in DOMAIN fields : c \in Range(key)
    BY <1>8, <1>11, Zenon DEF KeysOnOneLine
  <2>2. key \in Seq(T)
    BY <1>2, Zenon DEF HasFields, IsFieldKey
  <2>3. PICK j \in 1 .. Len(key) : key[j] = c
    <3>1. DOMAIN key = 1 .. Len(key)
      BY <2>2
    <3> QED BY <2>1, <3>1, Zenon DEF Range
  <2>4. PICK line : line = FormatField(fields, key)
    OBVIOUS
  <2>5. PICK m \in 1 .. Len(line) : line[m] = c
    BY <1>2, <2>3, <2>4, KeyIsPrinted
  <2>6. PICK k \in 1 .. Len(lines) : lines[k] = line
    <3>1. Ordered(DOMAIN fields, keys) /\ Len(lines) = Len(keys)
          /\ \A i \in 1 .. Len(keys) : lines[i] = FormatField(fields, keys[i])
      BY <1>4, Zenon DEF Shows
    <3>2. PICK k \in 1 .. Len(keys) : keys[k] = key
      BY <3>1 DEF Ordered
    <3>3. k \in 1 .. Len(lines) /\ lines[k] = line
      BY <2>4, <3>1, <3>2
    <3> QED BY <3>3
  <2>7. PICK i \in 1 .. Len(text) : text[i] = c
    <3>1. m \in 1 .. Len(lines[k]) /\ c = lines[k][m]
      BY <2>5, <2>6
    <3>2. text = Joined(lines, sep)
      BY <1>6, Zenon
    <3>3. HasChar(text, c)
      BY <3>1, <3>2, JoinedHas
    <3> QED BY <3>3, Zenon DEF HasChar
  <2>8. i \in {h \in DOMAIN text : text[h] = c}
    BY <1>7, <2>7
  <2> DEFINE all == {h \in DOMAIN text : text[h] = c}
  <2>9. all # {} /\ IsFiniteSet(all)
    BY <1>9, <2>8
  <2> HIDE DEF all
  <2>10. Cardinality(all) # 0
    BY <2>9, FS_EmptySet
  <2> QED BY <2>10 DEF Times, all
<1> QED BY <1>6, <1>8, <1>9, <1>10, <1>11, Zenon DEF T

\* A column that is shown, or what stands for a missing one.
Shown(entry, key, default) == IF entry.known[key] = {} THEN default ELSE CHOOSE v \in entry.known[key] : TRUE
ShownTimes(entry, key) == IF entry.known[key] = {} THEN 0 ELSE Times(CHOOSE v \in entry.known[key] : TRUE, "\n")

LEMMA ColumnCounted ==
    ASSUME NEW S, NEW entry, IsEntry(S, entry), NEW key \in KnownKeys,
           NEW default, Counted(Framed(S), "\n", 0, default)
    PROVE  Counted(Framed(S), "\n", ShownTimes(entry, key), Shown(entry, key, default))
<1>1. CASE entry.known[key] = {}
  BY <1>1, Zenon DEF Shown, ShownTimes
<1>2. CASE entry.known[key] # {}
  <2>1. PICK text \in Seq(S) : entry.known[key] = {text}
    BY <1>2, Zenon DEF IsEntry, HasColumns
  <2>2. (CHOOSE v \in entry.known[key] : TRUE) = text
    BY <2>1, ChosenIs, Zenon
  <2>3. Shown(entry, key, default) = text /\ ShownTimes(entry, key) = Times(text, "\n")
    BY <1>2, <2>2, Zenon DEF Shown, ShownTimes
  <2>4. text \in Seq(Framed(S))
    <3>1. S \subseteq Framed(S)
      BY DEF Framed
    <3> QED BY <3>1
  <2>5. PICK c : c = "\n"
    OBVIOUS
  <2>6. Counted(Framed(S), c, Times(text, c), text)
    BY <2>4, TimesIs
  <2> QED BY <2>3, <2>5, <2>6, Zenon
<1> QED BY <1>1, <1>2, Zenon

LEMMA ShownTimesNat ==
    ASSUME NEW S, NEW entry, IsEntry(S, entry), NEW key \in KnownKeys
    PROVE  ShownTimes(entry, key) \in Nat
<1>1. Counted(Framed(S), "\n", 0, <<>>)
  <2>1. PICK d : d = "\n"
    OBVIOUS
  <2>2. <<>> \in Seq(Framed(S) \ {d})
    OBVIOUS
  <2>3. Counted(Framed(S), d, 0, <<>>)
    BY <2>2, CountedNone
  <2> QED BY <2>1, <2>3, Zenon
<1>2. Counted(Framed(S), "\n", ShownTimes(entry, key), Shown(entry, key, <<>>))
  BY <1>1, ColumnCounted
<1> QED BY <1>2, Zenon DEF Counted

CountedLine(S, entry, n) ==
    /\ Counted(Framed(S), "\n", ShownTimes(entry, Timestamp) + ShownTimes(entry, Level)
                                    + ShownTimes(entry, Message) + ShownTimes(entry, Tag) + n, FormatPrettyLine(entry))
    /\ n = 0 <=> KeysOnOneLine(entry.fields)

LEMMA LineCounted ==
    ASSUME NEW S, NEW entry, IsEntry(S, entry)
    PROVE  \E n \in Nat : CountedLine(S, entry, n)
<1> DEFINE Holds(n, text) == Counted(Framed(S), "\n", n, text)
<1>1. PICK t, l, m, g : t = ShownTimes(entry, Timestamp) /\ l = ShownTimes(entry, Level)
                        /\ m = ShownTimes(entry, Message) /\ g = ShownTimes(entry, Tag)
  OBVIOUS
<1>2. ASSUME NEW n, NEW a, Holds(n, a), NEW k, NEW b, Holds(k, b) PROVE Holds(n + k, a \o b)
  BY <1>2, CountedOn
<1>3. ASSUME NEW c \in Framed(S), c # "\n" PROVE Holds(0, <<c>>)
  <2>1. c \in Framed(S) \ {"\n"}
    BY <1>3
  <2>2. <<c>> \in Seq(Framed(S) \ {"\n"})
    BY <2>1, OneIs
  <2>3. PICK d : d = "\n"
    OBVIOUS
  <2>4. <<c>> \in Seq(Framed(S) \ {d})
    BY <2>2, <2>3, Zenon
  <2>5. Counted(Framed(S), d, 0, <<c>>)
    BY <2>4, CountedNone
  <2> QED BY <2>3, <2>5, Zenon
<1>4. /\ "-" # "\n" /\ " " # "\n" /\ "[" # "\n" /\ "]" # "\n" /\ "{" # "\n" /\ "}" # "\n"
      /\ {"-", " ", "[", "]", "{", "}"} \subseteq Framed(S)
  BY DEF Framed
<1>5. Holds(0, <<"-">>) /\ Holds(0, <<"[">>) /\ Holds(0, <<"]">>) /\ Holds(0, <<"{">>) /\ Holds(0, <<"}">>)
  BY <1>3, <1>4, Zenon
<1>6. Holds(0, <<>>)
  <2>1. PICK d : d = "\n"
    OBVIOUS
  <2>2. <<>> \in Seq(Framed(S) \ {d})
    OBVIOUS
  <2>3. Counted(Framed(S), d, 0, <<>>)
    BY <2>2, CountedNone
  <2> QED BY <2>1, <2>3, Zenon
<1>7. PICK gap : gap = <<" ", " ">> /\ Holds(0, gap)
  <2>1. PICK d, e : d = "\n" /\ e = " "
    OBVIOUS
  <2>2. e \in Framed(S) \ {d}
    BY <1>4, <2>1, Zenon
  <2>3. <<e, e>> \in Seq(Framed(S) \ {d})
    BY <2>2, TwoAre
  <2>4. Counted(Framed(S), d, 0, <<e, e>>)
    BY <2>3, CountedNone
  <2> QED BY <2>1, <2>4, Zenon
<1>8. /\ Timestamp \in KnownKeys /\ Level \in KnownKeys /\ Message \in KnownKeys /\ Tag \in KnownKeys
  BY DEF KnownKeys
<1>9. PICK time, level, message, tag :
        /\ time = Shown(entry, Timestamp, <<"-">>) /\ level = Shown(entry, Level, <<"-">>)
        /\ message = Shown(entry, Message, <<>>) /\ tag = Shown(entry, Tag, <<>>)
  OBVIOUS
<1>10. Holds(t, time) /\ Holds(l, level) /\ Holds(m, message) /\ Holds(g, tag)
  <2>1. Holds(t, time)
    BY <1>1, <1>5, <1>8, <1>9, ColumnCounted
  <2>2. Holds(l, level)
    BY <1>1, <1>5, <1>8, <1>9, ColumnCounted
  <2>3. Holds(m, message)
    BY <1>1, <1>6, <1>8, <1>9, ColumnCounted
  <2>4. Holds(g, tag)
    BY <1>1, <1>6, <1>8, <1>9, ColumnCounted
  <2> QED BY <2>1, <2>2, <2>3, <2>4
<1>11. PICK fields, f : fields = FormatFields(entry.fields) /\ Holds(f, fields) /\ (f = 0 <=> KeysOnOneLine(entry.fields))
  <2>1. Marked(S) /\ HasFields(S, entry.fields)
    BY Zenon DEF IsEntry
  <2> QED BY <2>1, FieldsCounted
<1>23. f \in Nat
  BY <1>11, Zenon DEF Counted
<1>12. t \in Nat /\ l \in Nat /\ m \in Nat /\ g \in Nat
  BY <1>10, Zenon DEF Counted
<1> DEFINE tagged == IF tag = <<>> THEN <<>> ELSE gap \o <<"[">> \o tag \o <<"]">>
           braced == IF DOMAIN entry.fields = {} THEN <<>> ELSE gap \o <<"{">> \o fields \o <<"}">>
           line == time \o gap \o level \o tagged \o gap \o message \o braced
<1>13. FormatPrettyLine(entry) = line
  <2>1. FormatPrettyLine(entry) =
            Shown(entry, Timestamp, <<"-">>) \o <<" ", " ">> \o Shown(entry, Level, <<"-">>)
              \o (IF Shown(entry, Tag, <<>>) = <<>> THEN <<>>
                    ELSE <<" ", " ">> \o <<"[">> \o Shown(entry, Tag, <<>>) \o <<"]">>)
              \o <<" ", " ">> \o Shown(entry, Message, <<>>)
              \o (IF DOMAIN entry.fields = {} THEN <<>>
                    ELSE <<" ", " ">> \o <<"{">> \o FormatFields(entry.fields) \o <<"}">>)
    BY DEF FormatPrettyLine, Shown
  <2> QED BY <1>7, <1>9, <1>11, <2>1, Zenon
<1> HIDE DEF Holds
<1>14. Holds(g, tagged)
  <2>1. CASE tag = <<>>
    <3>1. tagged = tag
      BY <2>1, Zenon
    <3> QED BY <1>10, <3>1, Zenon
  <2>2. CASE tag # <<>>
    <3>1. tagged = gap \o <<"[">> \o tag \o <<"]">>
      BY <2>2, Zenon
    <3>2. PICK a, b : a = <<"[">> /\ b = <<"]">> /\ Holds(0, a) /\ Holds(0, b)
      BY <1>5, Zenon
    <3>3. Holds(0 + 0, gap \o a)
      BY <1>2, <1>7, <3>2
    <3>4. Holds(0 + 0 + g, (gap \o a) \o tag)
      BY <1>2, <1>10, <3>3
    <3>5. Holds(0 + 0 + g + 0, ((gap \o a) \o tag) \o b)
      BY <1>2, <3>2, <3>4
    <3>6. 0 + 0 + g + 0 = g
      BY <1>12
    <3> QED BY <3>1, <3>2, <3>5, <3>6, Zenon
  <2> QED BY <2>1, <2>2, Zenon
<1>15. Holds(f, braced)
  <2>1. CASE DOMAIN entry.fields = {}
    <3>1. braced = <<>>
      BY <2>1, Zenon
    <3>2. f = 0
      BY <1>11, <2>1, Zenon DEF KeysOnOneLine
    <3> QED BY <1>6, <3>1, <3>2, Zenon
  <2>2. CASE DOMAIN entry.fields # {}
    <3>1. braced = gap \o <<"{">> \o fields \o <<"}">>
      BY <2>2, Zenon
    <3>2. PICK a, b : a = <<"{">> /\ b = <<"}">> /\ Holds(0, a) /\ Holds(0, b)
      BY <1>5, Zenon
    <3>3. Holds(0 + 0, gap \o a)
      BY <1>2, <1>7, <3>2
    <3>4. Holds(0 + 0 + f, (gap \o a) \o fields)
      BY <1>2, <1>11, <3>3
    <3>5. Holds(0 + 0 + f + 0, ((gap \o a) \o fields) \o b)
      BY <1>2, <3>2, <3>4
    <3>6. 0 + 0 + f + 0 = f
      BY <1>23
    <3> QED BY <3>1, <3>2, <3>5, <3>6, Zenon
  <2> QED BY <2>1, <2>2, Zenon
<1>16. Holds(t + 0, time \o gap)
  BY <1>2, <1>7, <1>10
<1>17. Holds(t + 0 + l, time \o gap \o level)
  BY <1>2, <1>10, <1>16
<1> HIDE DEF tagged, braced
<1>18. Holds(t + 0 + l + g, time \o gap \o level \o tagged)
  BY <1>2, <1>14, <1>17
<1>19. Holds(t + 0 + l + g + 0, time \o gap \o level \o tagged \o gap)
  BY <1>2, <1>7, <1>18
<1>20. Holds(t + 0 + l + g + 0 + m, time \o gap \o level \o tagged \o gap \o message)
  BY <1>2, <1>10, <1>19
<1>21. Holds(t + 0 + l + g + 0 + m + f, line)
  BY <1>2, <1>15, <1>20
<1>22. t + 0 + l + g + 0 + m + f = t + l + m + g + f
  BY <1>12, <1>23
<1> HIDE DEF line
<1> QED BY <1>1, <1>11, <1>13, <1>21, <1>22, <1>23, Zenon DEF Holds, CountedLine

\* The line of a row breaks where its columns and keys do, and nowhere else.
LEMMA LinesOnce == Typed => OneLinePerRow
<1> SUFFICES ASSUME Typed, Recorded, NEW entry \in Entries
             PROVE  Times(FormatPrettyLine(entry), "\n") =
                        ShownTimes(entry, Timestamp) + ShownTimes(entry, Level)
                          + ShownTimes(entry, Message) + ShownTimes(entry, Tag)
                    <=> KeysOnOneLine(entry.fields)
  BY Zenon DEF OneLinePerRow, Times, ShownTimes, KeysOnOneLine
<1>1. PICK S : IsEntry(S, entry)
  BY EntryTyped
<1>7. PICK n \in Nat : CountedLine(S, entry, n)
  BY <1>1, LineCounted
<1>3. /\ Counted(Framed(S), "\n", ShownTimes(entry, Timestamp) + ShownTimes(entry, Level)
                   + ShownTimes(entry, Message) + ShownTimes(entry, Tag) + n, FormatPrettyLine(entry))
      /\ n = 0 <=> KeysOnOneLine(entry.fields)
  BY <1>7, Zenon DEF CountedLine
<1>6. Times(FormatPrettyLine(entry), "\n") = ShownTimes(entry, Timestamp) + ShownTimes(entry, Level)
                                                + ShownTimes(entry, Message) + ShownTimes(entry, Tag) + n
  BY <1>3, Zenon DEF Counted
<1>2. PICK t, l, m, g : t = ShownTimes(entry, Timestamp) /\ l = ShownTimes(entry, Level)
                        /\ m = ShownTimes(entry, Message) /\ g = ShownTimes(entry, Tag)
  OBVIOUS
<1>4. Times(FormatPrettyLine(entry), "\n") = t + l + m + g + n
  BY <1>2, <1>6
<1>5. t \in Nat /\ l \in Nat /\ m \in Nat /\ g \in Nat
  BY <1>1, <1>2, ShownTimesNat DEF KnownKeys
<1>8. t + l + m + g + n = t + l + m + g <=> n = 0
  BY <1>5
<1> QED BY <1>2, <1>3, <1>4, <1>8, Zenon

-----------------------------------------------------------------------------
(* Numbers with commas. *)

\* The k-th of n digits has a comma in front of it.
Parted(n, k) == k > 1 /\ (n - (k - 1)) % 3 = 0
HasComma(S) == "," \in S
Group(digits, k) == IF Parted(Len(digits), k) THEN <<",", digits[k]>> ELSE <<digits[k]>>

LEMMA GroupsAre ==
    ASSUME NEW S, HasComma(S), NEW digits \in Seq(S)
    PROVE  \E groups \in Seq(Seq(S)) :
             /\ Len(groups) = Len(digits) /\ FlattenSeq(groups) = WithThousandsSeparator(digits)
             /\ \A k \in 1 .. Len(digits) : groups[k] = Group(digits, k)
<1>1. PICK n \in Nat : n = Len(digits) /\ DOMAIN digits = 1 .. n
  OBVIOUS
<1>2. ASSUME NEW k \in 1 .. n PROVE Group(digits, k) \in Seq(S)
  <2>1. PICK d \in S : d = digits[k]
    BY <1>1
  <2>2. PICK c \in S : c = ","
    BY Zenon DEF HasComma
  <2>4. <<c, d>> \in Seq(S)
    BY TwoAre
  <2>5. <<d>> \in Seq(S)
    BY OneIs
  <2>3. <<c, d>> \in Seq(S) /\ <<d>> \in Seq(S)
    BY <2>4, <2>5
  <2> QED BY <2>1, <2>2, <2>3, Zenon DEF Group
<1> DEFINE lines == [k \in 1 .. n |-> Group(digits, k)]
<1>3. WithThousandsSeparator(digits) = Joined(lines, <<>>)
  <2>1. WithThousandsSeparator(digits) =
            Joined([i \in DOMAIN digits |->
                        IF i - 1 > 0 /\ (Len(digits) - (i - 1)) % 3 = 0 THEN <<",", digits[i]>> ELSE <<digits[i]>>], <<>>)
    BY Zenon DEF WithThousandsSeparator
  <2>2. ASSUME NEW i \in 1 .. n
        PROVE  Group(digits, i) =
                 IF i - 1 > 0 /\ (Len(digits) - (i - 1)) % 3 = 0 THEN <<",", digits[i]>> ELSE <<digits[i]>>
    <3>1. i - 1 > 0 <=> i > 1
      OBVIOUS
    <3> QED BY <3>1, Zenon DEF Group, Parted
  <2>3. [i \in DOMAIN digits |->
            IF i - 1 > 0 /\ (Len(digits) - (i - 1)) % 3 = 0 THEN <<",", digits[i]>> ELSE <<digits[i]>>] = lines
    BY <1>1, <2>2, Zenon
  <2> HIDE DEF lines
  <2> QED BY <2>1, <2>3, Zenon
<1>4. lines \in Seq(Seq(S)) /\ Len(lines) = n /\ \A k \in 1 .. n : lines[k] = Group(digits, k)
  BY <1>2
<1> HIDE DEF lines
<1>5. <<>> \in Seq(S)
  OBVIOUS
<1>6. PICK none \in Seq(S) : none = <<>>
  BY <1>5
<1>7. PICK parts \in Seq(Seq(S)) : PartsOf(lines, none, parts)
  <2>1. lines \in Seq(Seq(S))
    BY <1>4
  <2> QED BY <2>1, JoinedParts
<1>9. Len(parts) = n /\ FlattenSeq(parts) = Joined(lines, none)
  BY <1>4, <1>7, Zenon DEF PartsOf
<1>8. ASSUME NEW i \in 1 .. n PROVE parts[i] = Group(digits, i)
  <2>1. PICK l \in Seq(S) : l = lines[i]
    BY <1>4
  <2>2. none \o l = l
    BY <1>6, ConcatEmptySeq
  <2>3. parts[i] = IF i = 1 THEN lines[i] ELSE none \o lines[i]
    BY <1>4, <1>7, Zenon DEF PartsOf
  <2>4. parts[i] = l
    BY <2>1, <2>2, <2>3, Zenon
  <2> QED BY <1>4, <2>1, <2>4
<1> QED BY <1>1, <1>3, <1>4, <1>6, <1>8, <1>9, Zenon

\* The k-th digit is at p[k], behind a comma where one is due.
Placed(digits, shown, p) ==
    /\ p[0] = 0 /\ p[Len(digits)] = Len(shown) /\ \A k \in 0 .. Len(digits) : p[k] \in Nat
    /\ \A k \in 1 .. Len(digits) :
        /\ Parted(Len(digits), k) => p[k] = p[k - 1] + 2 /\ shown[p[k - 1] + 1] = ","
        /\ ~Parted(Len(digits), k) => p[k] = p[k - 1] + 1
        /\ shown[p[k]] = digits[k]

LEMMA DigitsPlaced ==
    ASSUME NEW S, HasComma(S), NEW digits \in Seq(S), NEW shown, shown = WithThousandsSeparator(digits)
    PROVE  shown \in Seq(S) /\ \E p : Placed(digits, shown, p)
<1>1. PICK n \in Nat : n = Len(digits)
  OBVIOUS
<1>2. PICK groups \in Seq(Seq(S)) :
        /\ Len(groups) = n /\ FlattenSeq(groups) = shown /\ \A k \in 1 .. n : groups[k] = Group(digits, k)
  BY <1>1, GroupsAre
<1>3. PICK pre : JoinedSoFar(S, groups, pre) /\ shown = pre[n]
  BY <1>2, FlattenIs
<1>4. pre[0] = <<>> /\ \A k \in 0 .. n : pre[k] \in Seq(S)
  BY <1>2, <1>3 DEF JoinedSoFar
<1> DEFINE p == [k \in 0 .. n |-> Len(pre[k])]
<1>5. p[0] = 0 /\ p[n] = Len(shown) /\ \A k \in 0 .. n : p[k] = Len(pre[k]) /\ p[k] \in Nat
  <2>1. \A k \in 0 .. n : p[k] = Len(pre[k])
    OBVIOUS
  <2>2. 0 \in 0 .. n /\ n \in 0 .. n /\ Len(<<>>) = 0
    OBVIOUS
  <2> HIDE DEF p
  <2>3. \A k \in 0 .. n : Len(pre[k]) \in Nat
    BY <1>4
  <2> QED BY <1>3, <1>4, <2>1, <2>2, <2>3
<1> HIDE DEF p
<1>6. ASSUME NEW k \in 1 .. n
      PROVE  /\ Parted(n, k) => p[k] = p[k - 1] + 2 /\ shown[p[k - 1] + 1] = ","
             /\ ~Parted(n, k) => p[k] = p[k - 1] + 1
             /\ shown[p[k]] = digits[k]
  <2>1. k \in 1 .. Len(groups) /\ k - 1 \in 0 .. n /\ k \in 0 .. n
    BY <1>2
  <2>2. PICK a \in Seq(S), b \in Seq(S), r \in Seq(S) : a = pre[k - 1] /\ b = pre[k] /\ r = groups[k] /\ Grown(a, b, r)
    BY <1>3, <2>1, PrefixesAre
  <2>3. PICK m \in Nat, l \in Nat : m = p[k - 1] /\ m = Len(a) /\ l = p[k] /\ l = Len(b)
    BY <1>5, <2>1, <2>2
  <2>4. l = m + Len(r)
    BY <2>2, <2>3 DEF Grown
  <2>5. Within(shown, m, r)
    <3>1. Within(pre[Len(groups)], Len(pre[k - 1]), groups[k])
      BY <1>3, <2>1, PartIsAt
    <3> QED BY <1>2, <1>3, <2>2, <2>3, <3>1
  <2>6. \A j \in 1 .. Len(r) : shown[m + j] = r[j]
    BY <2>5 DEF Within
  <2>7. PICK d, c : d = digits[k] /\ c = ","
    OBVIOUS
  <2>8. r = Group(digits, k)
    BY <1>2, <2>2
  <2>9. CASE Parted(n, k)
    <3>1. r = <<c, d>>
      BY <1>1, <2>7, <2>8, <2>9, Zenon DEF Group
    <3>2. Len(r) = 2 /\ r[1] = c /\ r[2] = d
      BY <3>1
    <3>3. l = m + 2 /\ shown[m + 1] = c /\ shown[m + 2] = d
      BY <2>4, <2>6, <3>2
    <3> QED BY <2>3, <2>7, <2>9, <3>3
  <2>10. CASE ~Parted(n, k)
    <3>1. r = <<d>>
      BY <1>1, <2>7, <2>8, <2>10, Zenon DEF Group
    <3>2. Len(r) = 1 /\ r[1] = d
      BY <3>1
    <3>3. l = m + 1 /\ shown[m + 1] = d
      BY <2>4, <2>6, <3>2
    <3> QED BY <2>3, <2>7, <2>10, <3>3
  <2> QED BY <2>9, <2>10, Zenon
<1>7. Placed(digits, shown, p)
  BY <1>1, <1>5, <1>6, Zenon DEF Placed
<1>8. shown \in Seq(S)
  <2>1. n \in 0 .. n
    OBVIOUS
  <2> QED BY <1>3, <1>4, <2>1
<1> QED BY <1>7, <1>8, Zenon

\* Behind the k-th digit, three digits and a comma again and again.
FromBack(n, p, k) == \E q \in Nat, r \in 0 .. 2 : n - k = 3 * q + r /\ p[n] - p[k] = 4 * q + r

LEMMA PlacesFromBack ==
    ASSUME NEW n \in Nat, NEW p, \A k \in 0 .. n : p[k] \in Nat,
           \A k \in 1 .. n : /\ Parted(n, k) => p[k] = p[k - 1] + 2
                             /\ ~Parted(n, k) => p[k] = p[k - 1] + 1
    PROVE  \A k \in 1 .. n : FromBack(n, p, k)
<1> DEFINE Good == {e \in 0 .. n - 1 : FromBack(n, p, n - e)}
<1>1. CASE n = 0
  BY <1>1
<1>2. CASE n > 0
  <2>1. 0 \in Good
    <3>1. n - 0 = n /\ n \in 0 .. n /\ 0 \in 0 .. n - 1 /\ n - n = 3 * 0 + 0
      BY <1>2
    <3>2. p[n] - p[n] = 4 * 0 + 0
      BY <3>1
    <3>3. FromBack(n, p, n)
      BY <3>1, <3>2 DEF FromBack
    <3> QED BY <3>1, <3>3
  <2>2. ASSUME NEW e \in 0 .. n - 1 - 1, e \in Good PROVE e + 1 \in Good
    <3>1. PICK k \in 2 .. n : k = n - e /\ k - 1 = n - (e + 1) /\ k \in 1 .. n /\ k - 1 \in 0 .. n
      <4>1. n - e \in 2 .. n /\ n - e - 1 = n - (e + 1)
        OBVIOUS
      <4> QED BY <4>1
    <3>2. PICK q \in Nat, r \in 0 .. 2 : n - k = 3 * q + r /\ p[n] - p[k] = 4 * q + r
      BY <2>2, <3>1 DEF FromBack
    <3>3. PICK a \in Nat, b \in Nat, c \in Nat : a = p[n] /\ b = p[k] /\ c = p[k - 1]
      BY <3>1
    <3>4. Parted(n, k) <=> r = 2
      <4>1. n - (k - 1) = 3 * q + r + 1
        BY <3>2
      <4>2. (3 * q + r + 1) % 3 = 0 <=> r = 2
        OBVIOUS
      <4> QED BY <3>1, <4>1, <4>2 DEF Parted
    <3>5. CASE r = 2
      <4>1. b = c + 2
        BY <3>1, <3>3, <3>4, <3>5
      <4>2. n - (k - 1) = 3 * (q + 1) + 0 /\ a - c = 4 * (q + 1) + 0 /\ q + 1 \in Nat /\ 0 \in 0 .. 2
        BY <3>2, <3>3, <3>5, <4>1
      <4>3. FromBack(n, p, k - 1)
        BY <3>3, <4>2 DEF FromBack
      <4> QED BY <3>1, <4>3
    <3>6. CASE r # 2
      <4>1. b = c + 1
        BY <3>1, <3>3, <3>4, <3>6
      <4>4. r + 1 \in 0 .. 2
        BY <3>6
      <4>5. n - (k - 1) = 3 * q + (r + 1)
        BY <3>2
      <4>6. a - b = 4 * q + r
        BY <3>2, <3>3
      <4>2. n - (k - 1) = 3 * q + (r + 1) /\ a - c = 4 * q + (r + 1) /\ r + 1 \in 0 .. 2
        BY <4>1, <4>4, <4>5, <4>6
      <4>3. FromBack(n, p, k - 1)
        BY <3>3, <4>2 DEF FromBack
      <4> QED BY <3>1, <4>3
    <3> QED BY <3>5, <3>6
  <2> HIDE DEF Good
  <2>3. \A e \in 0 .. n - 1 : e \in Good
    <3>1. PICK m \in Nat : m = n - 1
      BY <1>2
    <3> QED BY <2>1, <2>2, <3>1, Upwards
  <2>4. ASSUME NEW k \in 1 .. n PROVE FromBack(n, p, k)
    <3>1. n - k \in 0 .. n - 1 /\ n - (n - k) = k
      OBVIOUS
    <3>2. FromBack(n, p, n - (n - k))
      BY <2>3, <3>1 DEF Good
    <3> QED BY <3>1, <3>2
  <2> QED BY <2>4
<1> QED BY <1>1, <1>2

\* A character is a comma exactly where one is due, counted from the back.
Due(shown, j) == shown[j] = "," <=> (j > 1 /\ (Len(shown) - j) % 4 = 3)

NoCommas(digits) == \A k \in 1 .. Len(digits) : digits[k] # ","

LEMMA CommasDue ==
    ASSUME NEW S, NEW digits \in Seq(S), NoCommas(digits),
           NEW T, NEW shown \in Seq(T), NEW p, Placed(digits, shown, p)
    PROVE  \A j \in 1 .. Len(shown) : Due(shown, j)
<1>1. PICK n \in Nat, len \in Nat : n = Len(digits) /\ len = Len(shown)
  OBVIOUS
<1>2. p[0] = 0 /\ p[n] = len /\ \A k \in 0 .. n : p[k] \in Nat
  BY <1>1, Zenon DEF Placed
<1>3. \A k \in 1 .. n : /\ Parted(n, k) => p[k] = p[k - 1] + 2
                        /\ ~Parted(n, k) => p[k] = p[k - 1] + 1
  BY <1>1, Zenon DEF Placed
<1>10. PICK comma : comma = ","
  OBVIOUS
<1>4. ASSUME NEW k \in 1 .. n
      PROVE  shown[p[k]] # comma /\ (Parted(n, k) => shown[p[k - 1] + 1] = comma)
  BY <1>1, <1>10, Zenon DEF Placed, NoCommas
<1>11. \A j : Due(shown, j) <=> (shown[j] = comma <=> (j > 1 /\ (len - j) % 4 = 3))
  BY <1>1, <1>10, Zenon DEF Due
<1>5. \A k \in 1 .. n : FromBack(n, p, k)
  BY <1>2, <1>3, PlacesFromBack
<1> DEFINE Good == {k \in 0 .. n : \A j \in 1 .. p[k] : Due(shown, j)}
<1>6. 0 \in Good
  BY <1>2
<1>7. ASSUME NEW i \in 0 .. n - 1, i \in Good PROVE i + 1 \in Good
  <2>1. PICK k \in 1 .. n : k = i + 1 /\ k - 1 = i /\ k \in 0 .. n /\ i \in 0 .. n
    OBVIOUS
  <2>2. PICK m \in Nat, l \in Nat : m = p[i] /\ l = p[k] /\ m = p[k - 1]
    BY <1>2, <2>1
  <2>3. PICK q \in Nat, r \in 0 .. 2 : n - k = 3 * q + r /\ len - l = 4 * q + r
    BY <1>2, <1>5, <2>2 DEF FromBack
  <2>4. Due(shown, l)
    <3>1. (len - l) % 4 = r /\ r # 3
      BY <2>3
    <3>2. shown[l] # comma
      BY <1>4, <2>2
    <3> QED BY <1>11, <3>1, <3>2
  <2>5. \A j \in 1 .. m : Due(shown, j)
    BY <1>7, <2>2
  <2>6. \A j \in 1 .. l : Due(shown, j)
    <3>1. CASE Parted(n, k)
      <4>1. l = m + 2 /\ shown[m + 1] = comma
        BY <1>3, <1>4, <2>2, <3>1
      <4>2. k > 1 /\ (n - (k - 1)) % 3 = 0
        BY <3>1 DEF Parted
      <4>3. n - (k - 1) = 3 * q + r + 1
        BY <2>3
      <4>4. r = 2
        BY <4>2, <4>3
      <4>5. (len - (m + 1)) % 4 = 3
        <5>1. len - (m + 1) = 4 * q + 3
          BY <2>3, <4>1, <4>4
        <5>2. (4 * q + 3) % 4 = 3
          OBVIOUS
        <5> QED BY <5>1, <5>2
      <4>6. m + 1 > 1
        <5>1. i \in 1 .. n /\ i - 1 \in 0 .. n
          BY <2>1, <4>2
        <5>2. PICK o \in Nat : o = p[i - 1]
          BY <1>2, <5>1
        <5>3. m = o + 2 \/ m = o + 1
          BY <1>3, <2>2, <5>1, <5>2
        <5> QED BY <5>3
      <4>7. Due(shown, m + 1)
        BY <1>11, <4>1, <4>5, <4>6
      <4>8. \A j \in 1 .. l : j \in 1 .. m \/ j = m + 1 \/ j = l
        BY <4>1
      <4> QED BY <2>4, <2>5, <4>7, <4>8
    <3>2. CASE ~Parted(n, k)
      <4>1. l = m + 1
        BY <1>3, <2>2, <3>2
      <4>2. \A j \in 1 .. l : j \in 1 .. m \/ j = l
        BY <4>1
      <4> QED BY <2>4, <2>5, <4>2
    <3> QED BY <3>1, <3>2
  <2> QED BY <2>1, <2>2, <2>6
<1> HIDE DEF Good
<1>8. \A k \in 0 .. n : k \in Good
  BY <1>6, <1>7, Upwards
<1>9. n \in Good
  BY <1>8
<1> QED BY <1>1, <1>2, <1>9 DEF Good

\* What is left of a number without its commas.
Others(shown) == [i \in DOMAIN shown |-> IF i \in {k \in DOMAIN shown : shown[k] = ","} THEN <<>> ELSE <<shown[i]>>]

LEMMA DigitsLeft ==
    ASSUME NEW S, NEW digits \in Seq(S), Len(digits) > 0, NoCommas(digits),
           NEW T, S \subseteq T, NEW shown \in Seq(T), NEW p, Placed(digits, shown, p)
    PROVE  FlattenSeq(Others(shown)) = digits
<1>1. PICK n \in Nat, len \in Nat : n = Len(digits) /\ len = Len(shown) /\ DOMAIN shown = 1 .. len /\ n > 0
  OBVIOUS
<1>2. p[0] = 0 /\ p[n] = len /\ \A k \in 0 .. n : p[k] \in Nat
  BY <1>1, Zenon DEF Placed
<1>14. PICK comma : comma = ","
  OBVIOUS
<1>3. \A k \in 1 .. n : /\ Parted(n, k) => p[k] = p[k - 1] + 2 /\ shown[p[k - 1] + 1] = comma
                        /\ ~Parted(n, k) => p[k] = p[k - 1] + 1
                        /\ shown[p[k]] = digits[k]
  BY <1>1, <1>14, Zenon DEF Placed
<1>15. \A k \in 1 .. n : digits[k] # comma
  BY <1>1, <1>14, Zenon DEF NoCommas
<1> DEFINE parts == Others(shown)
<1>4. \A j \in 1 .. len : (shown[j] = comma => parts[j] = <<>>) /\ (shown[j] # comma => parts[j] = <<shown[j]>>)
  BY <1>1, <1>14, Zenon DEF Others
<1>16. parts = [j \in 1 .. len |-> parts[j]]
  BY <1>1, Zenon DEF Others
<1>5. parts \in Seq(Seq(T)) /\ Len(parts) = len
  <2>1. ASSUME NEW j \in 1 .. len PROVE parts[j] \in Seq(T)
    <3>1. PICK t \in T : t = shown[j]
      BY <1>1
    <3>2. <<t>> \in Seq(T)
      BY OneIs
    <3>3. <<>> \in Seq(T)
      OBVIOUS
    <3> QED BY <1>4, <3>1, <3>2, <3>3
  <2> HIDE DEF parts
  <2>2. \A j \in 1 .. len : parts[j] \in Seq(T)
    BY <2>1
  <2> QED BY <1>16, <2>2, ListedSeq
<1>6. FlattenSeq(Others(shown)) = FlattenSeq(parts)
  OBVIOUS
<1> HIDE DEF parts
<1>7. PICK pre : JoinedSoFar(T, parts, pre) /\ FlattenSeq(parts) = pre[len]
  BY <1>5, FlattenIs
<1>8. pre[0] = <<>> /\ (\A j \in 0 .. len : pre[j] \in Seq(T)) /\ \A j \in 1 .. len : pre[j] = pre[j - 1] \o parts[j]
  BY <1>5, <1>7 DEF JoinedSoFar
<1> DEFINE Good == {k \in 0 .. n : p[k] <= len => pre[p[k]] = SubSeq(digits, 1, k)}
<1>9. 0 \in Good
  BY <1>2, <1>8
<1>10. ASSUME NEW i \in 0 .. n - 1, i \in Good PROVE i + 1 \in Good
  <2>1. PICK k \in 1 .. n : k = i + 1 /\ k - 1 = i /\ k \in 0 .. n /\ i \in 0 .. n
    OBVIOUS
  <2>2. PICK m \in Nat, l \in Nat : m = p[i] /\ l = p[k] /\ m = p[k - 1]
    BY <1>2, <2>1
  <2>3. ASSUME l <= len PROVE pre[l] = SubSeq(digits, 1, k)
    <3>1. l >= 1 /\ m <= l - 1 /\ l \in 1 .. len /\ l - 1 \in 0 .. len /\ m \in 0 .. len
      <4>1. l = m + 1 \/ l = m + 2
        BY <1>3, <2>2
      <4> QED BY <2>3, <4>1
    <3>2. PICK front \in Seq(T) : front = pre[m]
      BY <1>8, <3>1
    <3>3. front = SubSeq(digits, 1, i)
      <4>1. m <= len
        BY <3>1
      <4>2. p[i] <= len => pre[p[i]] = SubSeq(digits, 1, i)
        BY <1>10
      <4> QED BY <2>2, <3>2, <4>1, <4>2
    <3>4. pre[l - 1] = front
      <4>1. CASE Parted(n, k)
        <5>6. l = m + 2 /\ shown[m + 1] = comma
          BY <1>3, <2>2, <4>1
        <5>7. m + 1 \in 1 .. len /\ l - 1 = m + 1 /\ m + 1 - 1 = m
          BY <2>3, <5>6
        <5>1. l = m + 2 /\ shown[m + 1] = comma /\ m + 1 \in 1 .. len /\ l - 1 = m + 1 /\ m + 1 - 1 = m
          BY <5>6, <5>7
        <5>2. parts[m + 1] = <<>>
          BY <1>4, <5>1
        <5>3. pre[m + 1] = pre[m] \o parts[m + 1]
          <6>1. \A j \in 1 .. len : pre[j] = pre[j - 1] \o parts[j]
            BY <1>8
          <6>2. PICK o \in 1 .. len : o = m + 1 /\ o - 1 = m
            BY <5>7
          <6>3. pre[o] = pre[o - 1] \o parts[o]
            BY <6>1
          <6> QED BY <6>2, <6>3, Zenon
        <5>4. pre[m + 1] = front \o <<>>
          BY <3>2, <5>2, <5>3, Zenon
        <5>5. front \o <<>> = front
          BY ConcatEmptySeq
        <5> QED BY <5>1, <5>4, <5>5
      <4>2. CASE ~Parted(n, k)
        <5>1. l = m + 1
          BY <1>3, <2>2, <4>2
        <5> QED BY <3>2, <5>1
      <4> QED BY <4>1, <4>2
    <3>5. PICK d \in S : d = digits[k] /\ shown[l] = d /\ d # comma
      BY <1>1, <1>3, <1>15, <2>2
    <3>6. parts[l] = <<d>>
      BY <1>4, <3>1, <3>5
    <3>7. pre[l] = front \o <<d>>
      <4>1. pre[l] = pre[l - 1] \o parts[l]
        BY <1>8, <3>1
      <4> QED BY <3>4, <3>6, <4>1, Zenon
    <3>8. CASE i = 0
      <4>1. front = <<>>
        BY <3>3, <3>8
      <4>2. <<d>> \in Seq(S)
        BY OneIs
      <4>3. PICK one \in Seq(S) : one = <<d>>
        BY <4>2
      <4>4. <<>> \o one = one
        BY ConcatEmptySeq
      <4>5. pre[l] = one
        BY <3>7, <4>1, <4>3, <4>4, Zenon
      <4>6. SubSeq(digits, 1, 1) = <<digits[1]>>
        <5>1. 1 \in 1 .. Len(digits)
          BY <1>1
        <5> QED BY <5>1, FirstOnly
      <4>7. k = 1
        BY <2>1, <3>8
      <4> QED BY <3>5, <4>3, <4>5, <4>6, <4>7, Zenon
    <3>9. CASE i # 0
      <4>1. i \in 1 .. Len(digits) - 1
        BY <1>1, <3>9
      <4>2. PICK more : more = SubSeq(digits, 1, i + 1)
        OBVIOUS
      <4>3. more = front \o <<digits[i + 1]>>
        BY <3>3, <4>1, <4>2, OneMore
      <4> QED BY <2>1, <3>5, <3>7, <4>2, <4>3, Zenon
    <3> QED BY <3>8, <3>9
  <2> QED BY <2>1, <2>2, <2>3
<1> HIDE DEF Good
<1>11. \A k \in 0 .. n : k \in Good
  BY <1>9, <1>10, Upwards
<1>12. pre[len] = SubSeq(digits, 1, n)
  <2>1. n \in Good
    BY <1>11
  <2> QED BY <1>2, <2>1 DEF Good
<1>13. SubSeq(digits, 1, n) = digits
  BY <1>1
<1> QED BY <1>6, <1>7, <1>12, <1>13

\* A number that is printed with commas is the number.
LEMMA CountsBack == Typed => CountsReadBack
<1> SUFFICES ASSUME Typed, session = "count", input # <<>>, NEW shown, shown = WithThousandsSeparator(input)
             PROVE  /\ FlattenSeq(Others(shown)) = input
                    /\ \A i \in DOMAIN shown :
                         i \in {k \in DOMAIN shown : shown[k] = ","} <=> (i > 1 /\ (Len(shown) - i) % 4 = 3)
  BY Zenon DEF CountsReadBack, About, Others
<1> DEFINE S == Sessions["count"].alphabet
           T == S \cup {","}
<1>1. input \in Seq(S)
  BY Zenon DEF Typed
<1>10. PICK comma : comma = "," /\ comma \notin S
  BY LinesAssumption, Zenon DEF Typed
<1>2. HasComma(T) /\ S \subseteq T
  BY Zenon DEF HasComma
<1> HIDE DEF S, T
<1>3. NoCommas(input)
  <2>1. \A k \in 1 .. Len(input) : input[k] \in S
    BY <1>1
  <2> QED BY <1>10, <2>1, Zenon DEF NoCommas
<1>4. input \in Seq(T)
  BY <1>1, <1>2
<1>5. PICK p : shown \in Seq(T) /\ Placed(input, shown, p)
  BY <1>2, <1>4, DigitsPlaced
<1>6. Len(input) > 0
  BY <1>1, EmptySeq
<1>7. FlattenSeq(Others(shown)) = input
  BY <1>1, <1>2, <1>3, <1>5, <1>6, DigitsLeft
<1>8. \A j \in 1 .. Len(shown) : Due(shown, j)
  BY <1>1, <1>3, <1>5, CommasDue
<1>9. DOMAIN shown = 1 .. Len(shown)
  BY <1>5
<1> QED BY <1>7, <1>8, <1>9, Zenon DEF Due

-----------------------------------------------------------------------------
(* Fields that are told apart again. *)

LEMMA NextOfAt ==
    ASSUME NEW S, NEW s \in Seq(S), NEW i \in 1 .. Len(s) + 1, NEW chars, NEW e \in i .. Len(s) + 1,
           e <= Len(s) => s[e] \in chars, \A j \in i .. e - 1 : s[j] \notin chars
    PROVE  NextOf(s, i, chars) = e
<1>1. PICK n \in Nat : n = Len(s)
  OBVIOUS
<1>2. PICK m : /\ m = NextOf(s, i, chars) /\ m \in i .. n + 1 /\ (\A j \in i .. m - 1 : s[j] \notin chars)
               /\ (m <= n => s[m] \in chars)
  BY <1>1, NextOfIs
<1>3. ~(m < e)
  <2>1. m < e => m \in i .. e - 1 /\ m <= n
    BY <1>1, <1>2
  <2> QED BY <1>2, <2>1
<1>4. ~(e < m)
  <2>1. e < m => e \in i .. m - 1 /\ e <= n
    BY <1>1, <1>2
  <2> QED BY <1>1, <1>2, <2>1
<1> QED BY <1>1, <1>2, <1>3, <1>4

LEMMA MinAt ==
    ASSUME NEW T \in SUBSET Nat, NEW e \in T, \A y \in T : e <= y
    PROVE  Min(T) = e
<1>1. Min(T) \in T /\ \A y \in T : Min(T) <= y
  BY MinIs
<1>2. PICK m \in Nat : m = Min(T) /\ m \in T
  BY <1>1
<1>3. m <= e /\ e <= m /\ e \in Nat
  BY <1>1, <1>2
<1>4. m = e
  BY <1>3
<1> QED BY <1>2, <1>4

\* A key, a sign and a value in a row.
Laid(line, key, sign, shown) ==
    /\ Len(line) = Len(key) + 1 + Len(shown) /\ line[Len(key) + 1] = sign
    /\ \A j \in 1 .. Len(key) : line[j] = key[j]
    /\ \A j \in 1 .. Len(shown) : line[Len(key) + 1 + j] = shown[j]

LEMMA LaidOut ==
    ASSUME NEW S, NEW sign \in S, NEW key \in Seq(S), NEW shown \in Seq(S),
           NEW line, line = (key \o <<sign>>) \o shown
    PROVE  line \in Seq(S) /\ Laid(line, key, sign, shown)
<1>1. PICK front : front = key \o <<sign>>
  OBVIOUS
<1>2. front \in Seq(S) /\ Len(front) = Len(key) + 1 /\ Continues(key, front) /\ front[Len(key) + 1] = sign
  <2>1. front \in Seq(S)
    BY <1>1, Opened
  <2>2. Len(front) = Len(key) + 1
    BY <1>1, Opened
  <2>3. Continues(key, front)
    BY <1>1, Opened
  <2>4. front[Len(key) + 1] = sign
    BY <1>1, Opened
  <2> QED BY <2>1, <2>2, <2>3, <2>4
<1>3. line = front \o shown
  BY <1>1
<1>4. line \in Seq(S)
  BY <1>2, <1>3, Extended
<1>5. Len(line) = Len(front) + Len(shown)
  BY <1>2, <1>3, Extended
<1>6. Continues(front, line)
  BY <1>2, <1>3, Extended
<1>7. \A m \in 1 .. Len(shown) : line[Len(front) + m] = shown[m]
  BY <1>2, <1>3, Extended
<1>8. PICK a \in Nat, b \in Nat : a = Len(key) /\ b = Len(shown)
  OBVIOUS
<1>9. \A j \in 1 .. a + 1 : line[j] = front[j]
  BY <1>2, <1>6, <1>8 DEF Continues
<1>10. \A j \in 1 .. a : front[j] = key[j]
  BY <1>2, <1>8 DEF Continues
<1>11. \A j \in 1 .. a : line[j] = key[j]
  <2>1. \A j \in 1 .. a : j \in 1 .. a + 1
    BY <1>8
  <2> QED BY <1>9, <1>10, <2>1
<1>12. line[a + 1] = sign
  <2>1. a + 1 \in 1 .. a + 1
    BY <1>8
  <2> QED BY <1>2, <1>8, <1>9, <2>1
<1>13. Len(line) = a + 1 + b /\ \A m \in 1 .. b : line[a + 1 + m] = shown[m]
  BY <1>2, <1>5, <1>7, <1>8
<1> QED BY <1>4, <1>8, <1>11, <1>12, <1>13, Zenon DEF Laid

\* The line is in the text at i, and a comma or nothing is behind it.
StandsAt(text, i, line) == Has(text, i, line) /\ (i + Len(line) <= Len(text) => text[i + Len(line)] = ",")

\* A value that is shown ends where its quote or the next comma is.
QuotedValue(S, shown) == \E text \in Seq(S) : shown = JsonString(text)
BareValue(shown) == (Len(shown) > 0 => shown[1] # "\"") /\ \A j \in 1 .. Len(shown) : shown[j] # ","

\* The place of the sign, and of the value behind it.
LEMMA SignIs ==
    ASSUME NEW S, NEW text \in Seq(S), NEW i \in 1 .. Len(text) + 1, NEW key \in Seq(S),
           NEW sign, sign = "=", sign \notin Range(key), NEW shown \in Seq(S), NEW line, Laid(line, key, sign, shown), Has(text, i, line)
    PROVE  /\ NextOf(text, i, {"="}) = i + Len(key) /\ i + Len(key) + 1 + Len(shown) <= Len(text) + 1
           /\ \A j \in 1 .. Len(shown) : text[i + Len(key) + j] = shown[j]
<1>1. PICK a \in Nat, b \in Nat, n \in Nat : a = Len(key) /\ b = Len(shown) /\ n = Len(text) /\ i \in 1 .. n + 1
  OBVIOUS
<1>2. /\ Len(line) = a + 1 + b /\ line[a + 1] = sign
      /\ (\A j \in 1 .. a : line[j] = key[j]) /\ \A j \in 1 .. b : line[a + 1 + j] = shown[j]
  BY <1>1 DEF Laid
<1>3. i + (a + 1 + b) <= n + 1 /\ \A m \in 1 .. a + 1 + b : text[i - 1 + m] = line[m]
  BY <1>1, <1>2 DEF Has
<1>4. \A j \in i .. i + a - 1 : text[j] \in Range(key)
  <2> SUFFICES ASSUME NEW j \in i .. i + a - 1 PROVE text[j] \in Range(key)
    OBVIOUS
  <2>1. PICK m \in 1 .. a : m = j - i + 1 /\ i - 1 + m = j /\ m \in 1 .. a + 1 + b
    <3>1. j - i + 1 \in 1 .. a /\ i - 1 + (j - i + 1) = j /\ j - i + 1 \in 1 .. a + 1 + b
      BY <1>1
    <3> QED BY <3>1
  <2>2. text[j] = key[m]
    BY <1>2, <1>3, <2>1
  <2>3. key[m] \in Range(key)
    <3>1. DOMAIN key = 1 .. a
      BY <1>1
    <3> QED BY <2>1, <3>1, Zenon DEF Range
  <2> QED BY <2>2, <2>3
<1>5. text[i + a] = sign
  <2>1. a + 1 \in 1 .. a + 1 + b /\ i - 1 + (a + 1) = i + a
    BY <1>1
  <2>2. text[i - 1 + (a + 1)] = line[a + 1]
    BY <1>3, <2>1
  <2> QED BY <1>2, <2>1, <2>2
<1>6. ASSUME NEW j \in 1 .. b PROVE text[i + a + j] = shown[j]
  <2>1. a + 1 + j \in 1 .. a + 1 + b /\ i - 1 + (a + 1 + j) = i + a + j
    BY <1>1
  <2>2. text[i - 1 + (a + 1 + j)] = line[a + 1 + j]
    BY <1>3, <2>1
  <2> QED BY <1>2, <2>1, <2>2
<1> DEFINE chars == {"="}
<1>8. sign \in chars /\ \A c \in Range(key) : c \notin chars
  BY Zenon
<1> HIDE DEF chars
<1>9. i + a \in i .. n + 1
  BY <1>3
<1>10. NextOf(text, i, chars) = i + a
  <2> DEFINE e == i + a
  <2>1. e \in i .. Len(text) + 1 /\ text[e] \in chars
    BY <1>1, <1>5, <1>8, <1>9
  <2>2. \A j \in i .. e - 1 : text[j] \notin chars
    BY <1>4, <1>8
  <2> HIDE DEF e
  <2>3. NextOf(text, i, chars) = e
    BY <2>1, <2>2, NextOfAt
  <2> QED BY <2>3 DEF e
<1> QED BY <1>1, <1>3, <1>6, <1>10 DEF chars

\* The places behind which a value without quotes cannot go on.
CommasFrom(text, v) == {j \in v .. Len(text) : text[j] = ","}

LEMMA FieldEndCases ==
    ASSUME NEW text, NEW i, NEW v, v = NextOf(text, i, {"="}) + 1
    PROVE  /\ At(text, v, {"\""}) => FieldEnd(text, i) = Min({x.next : x \in ReadQuotedValue(text, v + 1)} \cup {Len(text) + 1})
           /\ ~At(text, v, {"\""}) => FieldEnd(text, i) = Min(CommasFrom(text, v) \cup {Len(text) + 1})
<1>1. CASE At(text, v, {"\""})
  BY <1>1, Zenon DEF FieldEnd
<1>2. CASE ~At(text, v, {"\""})
  BY <1>2, Zenon DEF FieldEnd, CommasFrom
<1> QED BY <1>1, <1>2, Zenon

\* A value without quotes ends in front of the next comma.
LEMMA BareEnd ==
    ASSUME NEW S, NEW text \in Seq(S), NEW v \in Nat, v > 0, NEW shown \in Seq(S), BareValue(shown),
           v + Len(shown) <= Len(text) + 1, \A j \in 1 .. Len(shown) : text[v - 1 + j] = shown[j],
           NEW e, e = v + Len(shown), StandsAt(text, v, shown)
    PROVE  ~At(text, v, {"\""}) /\ Min(CommasFrom(text, v) \cup {Len(text) + 1}) = e
<1>1. PICK b \in Nat, n \in Nat : b = Len(shown) /\ n = Len(text) /\ e \in Nat /\ e = v + b
  OBVIOUS
<1>2. PICK comma, quote : comma = "," /\ quote = "\"" /\ comma # quote
  <2>1. "," # "\""
    OBVIOUS
  <2> QED BY <2>1, Zenon
<1>3. (b > 0 => shown[1] # quote) /\ \A j \in 1 .. b : shown[j] # comma
  BY <1>1, <1>2, Zenon DEF BareValue
<1>4. e <= n => text[e] = comma
  BY <1>1, <1>2, Zenon DEF StandsAt
<1>5. ASSUME v <= n PROVE text[v] # quote
  <2>1. CASE b = 0
    <3>1. e = v
      BY <1>1, <2>1
    <3>2. comma # quote
      BY <1>2, Zenon
    <3> QED BY <1>4, <1>5, <3>1, <3>2
  <2>2. CASE b # 0
    <3>1. 1 \in 1 .. b /\ v - 1 + 1 = v /\ b > 0
      BY <1>1, <2>2
    <3>2. text[v - 1 + 1] = shown[1]
      BY <1>1, <3>1
    <3> QED BY <1>3, <3>1, <3>2
  <2> QED BY <2>1, <2>2
<1>6. ~At(text, v, {"\""})
  BY <1>1, <1>2, <1>5, Zenon DEF At
<1> DEFINE T == CommasFrom(text, v) \cup {n + 1}
<1>7. \A j : j \in T <=> (j \in v .. n /\ text[j] = comma) \/ j = n + 1
  BY <1>1, <1>2, Zenon DEF CommasFrom
<1> HIDE DEF T
<1>8. T \in SUBSET Nat
  BY <1>1, <1>7
<1>9. e \in T
  <2>1. CASE e <= n
    <3>1. e \in v .. n
      BY <1>1, <2>1
    <3> QED BY <1>4, <1>7, <2>1, <3>1
  <2>2. CASE ~(e <= n)
    <3>1. e = n + 1
      BY <1>1, <2>2
    <3> QED BY <1>7, <3>1
  <2> QED BY <2>1, <2>2
<1>10. ASSUME NEW y \in T PROVE e <= y
  <2>1. CASE y = n + 1
    BY <1>1, <2>1
  <2>2. CASE y \in v .. n /\ text[y] = comma
    <3>1. ASSUME y < e PROVE FALSE
      <4>1. PICK j \in 1 .. b : j = y - v + 1 /\ v - 1 + j = y
        <5>1. y - v + 1 \in 1 .. b /\ v - 1 + (y - v + 1) = y
          BY <1>1, <2>2, <3>1
        <5> QED BY <5>1
      <4>2. text[v - 1 + j] = shown[j]
        BY <1>1, <4>1
      <4> QED BY <1>3, <2>2, <4>1, <4>2
    <3> QED BY <1>1, <2>2, <3>1
  <2> QED BY <1>7, <2>1, <2>2
<1>11. Min(T) = e
  BY <1>8, <1>9, <1>10, MinAt
<1> QED BY <1>1, <1>6, <1>11, Zenon DEF T

QuoteCloses(text, v, e) ==
    At(text, v, {"\""}) /\ Min({x.next : x \in ReadQuotedValue(text, v + 1)} \cup {Len(text) + 1}) = e

\* A value in quotes ends at its closing quote.
LEMMA QuotedEnd ==
    ASSUME NEW S, Marked(S), NEW text \in Seq(S), NEW v \in Nat, v > 0, NEW shown \in Seq(S), QuotedValue(S, shown),
           v + Len(shown) <= Len(text) + 1, \A j \in 1 .. Len(shown) : text[v - 1 + j] = shown[j],
           NEW e, e = v + Len(shown)
    PROVE  QuoteCloses(text, v, e)
<1>1. PICK said \in Seq(S) : shown = JsonString(said)
  BY Zenon DEF QuotedValue
<1>2. PICK written \in Seq(S), json \in Seq(S) :
          written = FlattenSeq(EscapedParts(said)) /\ json = JsonString(said) /\ InQuotes(json, written)
  BY JsonStringIs
<1>3. PICK m \in Nat, n \in Nat : m = Len(written) /\ n = Len(text)
  OBVIOUS
<1>4. PICK quote : quote = "\""
  OBVIOUS
<1>5. /\ Len(shown) = m + 2 /\ shown[1] = quote /\ shown[m + 2] = quote
      /\ \A k \in 1 .. m : shown[k + 1] = written[k]
  <2>1. shown = json
    BY <1>1, <1>2, Zenon
  <2> QED BY <1>2, <1>3, <1>4, <2>1, Zenon DEF InQuotes
<1>6. e = v + m + 2 /\ v + m + 2 <= n + 1 /\ e \in Nat
  BY <1>3, <1>5
<1>7. \A j \in 1 .. m + 2 : text[v - 1 + j] = shown[j]
  BY <1>5
<1>8. text[v] = quote /\ text[v + 1 + m] = quote /\ \A k \in 1 .. m : text[v + 1 - 1 + k] = written[k]
  <2>1. text[v] = quote
    <3>1. 1 \in 1 .. m + 2 /\ v - 1 + 1 = v
      OBVIOUS
    <3> QED BY <1>5, <1>7, <3>1
  <2>2. text[v + 1 + m] = quote
    <3>1. m + 2 \in 1 .. m + 2 /\ v - 1 + (m + 2) = v + 1 + m
      OBVIOUS
    <3> QED BY <1>5, <1>7, <3>1
  <2>3. ASSUME NEW k \in 1 .. m PROVE text[v + 1 - 1 + k] = written[k]
    <3>1. k + 1 \in 1 .. m + 2 /\ v - 1 + (k + 1) = v + 1 - 1 + k
      OBVIOUS
    <3> QED BY <1>5, <1>7, <3>1
  <2> QED BY <2>1, <2>2, <2>3
<1>9. At(text, v, {"\""})
  <2>1. v <= Len(text)
    BY <1>3, <1>6
  <2> QED BY <1>4, <1>8, <2>1, Zenon DEF At
<1> DEFINE i == v + 1
<1>10. i \in 1 .. Len(text) /\ Has(text, i, written) /\ i + Len(written) <= Len(text)
  <2>1. i \in 1 .. n /\ i + m <= n /\ i + m <= n + 1
    BY <1>6
  <2> QED BY <1>3, <1>8, <2>1 DEF Has
<1>11. text[i + Len(written)] = quote
  BY <1>3, <1>8
<1> HIDE DEF i
<1>12. ClosedAt(text, i, written)
  BY <1>4, <1>10, <1>11, Zenon DEF ClosedAt
<1>13. ReadBack(text, i, said, i + Len(written) + 1)
  BY <1>2, <1>10, <1>12, EscapedIsRead
<1>14. PICK r : r = [text |-> Kept(said), next |-> i + Len(written) + 1] /\ ReadQuotedValue(text, i) = {r}
  BY <1>13, Zenon DEF ReadBack
<1>15. r.next = e
  <2>1. r.next = i + Len(written) + 1
    BY <1>14
  <2> QED BY <1>3, <1>6, <2>1 DEF i
<1>16. {x.next : x \in ReadQuotedValue(text, i)} = {e}
  BY <1>14, <1>15, Zenon
<1> DEFINE T == {e} \cup {n + 1}
<1>17. Min(T) = e
  <2>1. T \in SUBSET Nat /\ e \in T /\ \A y \in T : e <= y
    BY <1>6
  <2> HIDE DEF T
  <2> QED BY <2>1, MinAt
<1> QED BY <1>3, <1>9, <1>16, <1>17, Zenon DEF QuoteCloses, i, T

\* Where a field ends that stands in a text.
LEMMA FieldEndIs ==
    ASSUME NEW S, Marked(S), NEW text \in Seq(S), NEW i \in 1 .. Len(text) + 1, NEW key \in Seq(S),
           NEW shown \in Seq(S), QuotedValue(S, shown) \/ BareValue(shown),
           NEW sign, sign = "=", sign \notin Range(key), NEW line, Laid(line, key, sign, shown), StandsAt(text, i, line)
    PROVE  FieldEnd(text, i) = i + Len(line)
<1>1. Has(text, i, line)
  BY Zenon DEF StandsAt
<1>2. NextOf(text, i, {"="}) = i + Len(key)
  BY <1>1, SignIs
<1>3. i + Len(key) + 1 + Len(shown) <= Len(text) + 1
  BY <1>1, SignIs
<1>4. \A j \in 1 .. Len(shown) : text[i + Len(key) + j] = shown[j]
  BY <1>1, SignIs
<1>5. PICK a \in Nat, b \in Nat, n \in Nat : a = Len(key) /\ b = Len(shown) /\ n = Len(text) /\ i \in 1 .. n + 1
  OBVIOUS
<1>6. PICK v \in Nat : v = i + a + 1 /\ v > 0 /\ v - 1 = i + a
  <2>1. i + a + 1 \in Nat /\ i + a + 1 > 0 /\ i + a + 1 - 1 = i + a
    BY <1>5
  <2> QED BY <2>1
<1>7. v = NextOf(text, i, {"="}) + 1
  BY <1>2, <1>5, <1>6, Zenon
<1>8. v + Len(shown) <= Len(text) + 1
  BY <1>3, <1>5, <1>6
<1>9. \A j \in 1 .. Len(shown) : text[v - 1 + j] = shown[j]
  BY <1>4, <1>5, <1>6
<1>10. PICK e : e = v + Len(shown)
  OBVIOUS
<1>11. Len(line) = a + 1 + b
  BY <1>5, Zenon DEF Laid
<1>12. e = i + Len(line)
  BY <1>5, <1>6, <1>10, <1>11
<1>13. CASE QuotedValue(S, shown)
  <2>4. QuoteCloses(text, v, e)
    BY <1>6, <1>8, <1>9, <1>10, <1>13, QuotedEnd
  <2>1. At(text, v, {"\""})
    BY <2>4, Zenon DEF QuoteCloses
  <2>2. Min({x.next : x \in ReadQuotedValue(text, v + 1)} \cup {Len(text) + 1}) = e
    BY <2>4, Zenon DEF QuoteCloses
  <2>3. FieldEnd(text, i) = Min({x.next : x \in ReadQuotedValue(text, v + 1)} \cup {Len(text) + 1})
    BY <1>7, <2>1, FieldEndCases, Zenon
  <2> QED BY <1>12, <2>2, <2>3, Zenon
<1>14. CASE BareValue(shown)
  <2>1. StandsAt(text, v, shown)
    <3>1. Has(text, v, shown)
      BY <1>8, <1>9 DEF Has
    <3>2. PICK comma : comma = ","
      OBVIOUS
    <3>3. i + Len(line) <= Len(text) => text[i + Len(line)] = comma
      BY <3>2, Zenon DEF StandsAt
    <3>4. v + Len(shown) <= Len(text) => text[v + Len(shown)] = comma
      BY <1>10, <1>12, <3>3, Zenon
    <3> QED BY <3>1, <3>2, <3>4, Zenon DEF StandsAt
  <2>2. ~At(text, v, {"\""})
    BY <1>6, <1>8, <1>9, <1>10, <1>14, <2>1, BareEnd
  <2>3. Min(CommasFrom(text, v) \cup {Len(text) + 1}) = e
    BY <1>6, <1>8, <1>9, <1>10, <1>14, <2>1, BareEnd
  <2>4. FieldEnd(text, i) = Min(CommasFrom(text, v) \cup {Len(text) + 1})
    BY <1>7, <2>2, FieldEndCases, Zenon
  <2> QED BY <1>12, <2>3, <2>4, Zenon
<1> QED BY <1>13, <1>14

\* A line with fields, taken apart one after the other.
SplitFrom(line, split, n) ==
    LET last == split[n - 1]
        end == FieldEnd(line, last.next)
    IN  CASE n = 0 -> [next |-> 1, parts |-> {}]
          [] n > 0 /\ last.next > Len(line) -> last
          [] OTHER -> [next |-> end + 2, parts |-> last.parts \cup {SubSeq(line, last.next, end - 1)}]
IsSplit(line, split) == split = [n \in 0 .. Len(line) |-> SplitFrom(line, split, n)]

LEMMA SplitCases ==
    ASSUME NEW line, NEW split, NEW n \in Nat
    PROVE  /\ n = 0 => SplitFrom(line, split, n) = [next |-> 1, parts |-> {}]
           /\ n > 0 /\ split[n - 1].next > Len(line) => SplitFrom(line, split, n) = split[n - 1]
           /\ n > 0 /\ ~(split[n - 1].next > Len(line)) =>
                SplitFrom(line, split, n) =
                    [next |-> FieldEnd(line, split[n - 1].next) + 2,
                     parts |-> split[n - 1].parts \cup
                                 {SubSeq(line, split[n - 1].next, FieldEnd(line, split[n - 1].next) - 1)}]
<1>1. CASE n = 0
  <2>1. ~(n > 0)
    BY <1>1
  <2> QED BY <1>1, <2>1, Zenon DEF SplitFrom
<1>2. CASE n > 0 /\ split[n - 1].next > Len(line)
  <2>1. n # 0
    BY <1>2
  <2> QED BY <1>2, <2>1, Zenon DEF SplitFrom
<1>3. CASE n > 0 /\ ~(split[n - 1].next > Len(line))
  <2>1. n # 0
    BY <1>3
  <2> QED BY <1>3, <2>1, Zenon DEF SplitFrom
<1>4. n = 0 \/ n > 0
  OBVIOUS
<1> QED BY <1>1, <1>2, <1>3, <1>4, Zenon

LEMMA SplitDone ==
    ASSUME NEW line, NEW split, NEW n \in Nat, n > 0, split[n - 1].next > Len(line)
    PROVE  SplitFrom(line, split, n) = split[n - 1]
BY SplitCases, Zenon

LEMMA SplitMore ==
    ASSUME NEW line, NEW split, NEW n \in Nat, n > 0, ~(split[n - 1].next > Len(line))
    PROVE  SplitFrom(line, split, n) =
             [next |-> FieldEnd(line, split[n - 1].next) + 2,
              parts |-> split[n - 1].parts \cup
                          {SubSeq(line, split[n - 1].next, FieldEnd(line, split[n - 1].next) - 1)}]
BY SplitCases, Zenon

LEMMA SplitAgrees ==
    ASSUME NEW line, NEW g, NEW h, NEW n \in Nat, n > 0 => g[n - 1] = h[n - 1]
    PROVE  SplitFrom(line, g, n) = SplitFrom(line, h, n)
<1>1. CASE n = 0
  BY <1>1, SplitCases, Zenon
<1>2. CASE n > 0
  <2>1. g[n - 1] = h[n - 1]
    BY <1>2
  <2> QED BY <2>1, Zenon DEF SplitFrom
<1>3. n = 0 \/ n > 0
  OBVIOUS
<1> QED BY <1>1, <1>2, <1>3

LEMMA SplitExists ==
    ASSUME NEW line, NEW len \in Nat, len = Len(line)
    PROVE  \E split : IsSplit(line, split)
<1> DEFINE Solves(g, k) == \A j \in 0 .. k : g[j] = SplitFrom(line, g, j)
           Good == {k \in 0 .. len : \E g : Solves(g, k)}
<1>1. 0 \in Good
  <2> DEFINE g == [j \in 0 .. 0 |-> [next |-> 1, parts |-> {}]]
  <2>1. 0 \in Nat
    OBVIOUS
  <2>2. g[0] = [next |-> 1, parts |-> {}]
    OBVIOUS
  <2> HIDE DEF g
  <2>3. SplitFrom(line, g, 0) = [next |-> 1, parts |-> {}]
    BY <2>1, SplitCases, Zenon
  <2>4. \A j \in 0 .. 0 : j = 0
    OBVIOUS
  <2>5. Solves(g, 0)
    BY <2>2, <2>3, <2>4, Zenon
  <2>6. 0 \in 0 .. len
    OBVIOUS
  <2> QED BY <2>5, <2>6
<1>2. ASSUME NEW k \in 0 .. len - 1, k \in Good PROVE k + 1 \in Good
  <2>1. PICK g : \A j \in 0 .. k : g[j] = SplitFrom(line, g, j)
    BY <1>2
  <2> DEFINE h == [j \in 0 .. k + 1 |-> IF j = k + 1 THEN SplitFrom(line, g, k + 1) ELSE g[j]]
  <2>2. \A j \in 0 .. k : h[j] = g[j]
    OBVIOUS
  <2>3. h[k + 1] = SplitFrom(line, g, k + 1)
    OBVIOUS
  <2> HIDE DEF h
  <2>4. ASSUME NEW j \in 0 .. k + 1 PROVE SplitFrom(line, h, j) = SplitFrom(line, g, j)
    <3>1. j \in Nat /\ (j > 0 => j - 1 \in 0 .. k)
      OBVIOUS
    <3>2. j > 0 => h[j - 1] = g[j - 1]
      BY <2>2, <3>1
    <3> QED BY <3>1, <3>2, SplitAgrees
  <2>5. ASSUME NEW j \in 0 .. k + 1 PROVE h[j] = SplitFrom(line, h, j)
    <3>1. j = k + 1 \/ j \in 0 .. k
      OBVIOUS
    <3> QED BY <2>1, <2>2, <2>3, <2>4, <3>1
  <2>6. k + 1 \in 0 .. len
    OBVIOUS
  <2> QED BY <2>5, <2>6
<1>3. PICK g : \A j \in 0 .. len : g[j] = SplitFrom(line, g, j)
  <2> HIDE DEF Good
  <2>1. \A k \in 0 .. len : k \in Good
    BY <1>1, <1>2, Upwards
  <2>2. len \in Good
    BY <2>1
  <2> QED BY <2>2 DEF Good
<1> DEFINE f == [j \in 0 .. len |-> g[j]]
<1>4. ASSUME NEW j \in 0 .. len PROVE SplitFrom(line, f, j) = SplitFrom(line, g, j)
  <2>1. j \in Nat /\ (j > 0 => j - 1 \in 0 .. len)
    OBVIOUS
  <2>2. j > 0 => f[j - 1] = g[j - 1]
    BY <2>1
  <2> HIDE DEF f
  <2> QED BY <2>1, <2>2, SplitAgrees
<1>5. \A j \in 0 .. len : g[j] = SplitFrom(line, f, j)
  <2> HIDE DEF f
  <2> QED BY <1>3, <1>4
<1>6. f = [j \in 0 .. len |-> SplitFrom(line, f, j)]
  <2> HIDE DEF f
  <2>1. f = [j \in 0 .. len |-> g[j]]
    BY DEF f
  <2> QED BY <1>5, <2>1
<1> HIDE DEF f
<1> QED BY <1>6 DEF IsSplit

LEMMA SplitIs ==
    ASSUME NEW line, NEW len \in Nat, len = Len(line)
    PROVE  \E split : IsSplit(line, split) /\ SplitFields(line) = split[len].parts
<1>1. \E split : IsSplit(line, split)
  BY SplitExists
<1> DEFINE split == CHOOSE split : IsSplit(line, split)
<1>2. SplitFields(line) = split[Len(line)].parts
  BY Zenon DEF SplitFields, IsSplit, SplitFrom
<1>3. IsSplit(line, split)
  BY <1>1, Zenon
<1> QED BY <1>2, <1>3, Zenon

\* Lines in one text, with a comma and one more character between two of them.
InOneLine(S, lines, sep, parts, pre, text) ==
    /\ lines \in Seq(Seq(S)) /\ sep \in Seq(S) /\ Len(sep) = 2 /\ sep[1] = ","
    /\ parts \in Seq(Seq(S)) /\ PartsOf(lines, sep, parts)
    /\ JoinedSoFar(S, parts, pre) /\ text = pre[Len(lines)] /\ text \in Seq(S)

\* Where the line behind the first k ones starts.
Start(pre, k) == IF k = 0 THEN 1 ELSE Len(pre[k]) + 3

LEMMA LineStands ==
    ASSUME NEW S, NEW lines, NEW sep, NEW parts, NEW pre, NEW text, InOneLine(S, lines, sep, parts, pre, text),
           NEW k \in 1 .. Len(lines)
    PROVE  /\ Start(pre, k - 1) \in 1 .. Len(text) + 1 /\ StandsAt(text, Start(pre, k - 1), lines[k])
           /\ Start(pre, k - 1) + Len(lines[k]) = Len(pre[k]) + 1
           /\ Len(pre[k]) \in 0 .. Len(text) /\ (k = Len(lines) => Len(pre[k]) = Len(text))
<1>1. /\ lines \in Seq(Seq(S)) /\ sep \in Seq(S) /\ Len(sep) = 2 /\ parts \in Seq(Seq(S))
      /\ JoinedSoFar(S, parts, pre) /\ text = pre[Len(lines)] /\ text \in Seq(S)
  BY Zenon DEF InOneLine
<1>2. PICK comma : comma = "," /\ sep[1] = comma
  BY Zenon DEF InOneLine
<1>3. Len(parts) = Len(lines) /\ \A i \in 1 .. Len(lines) : parts[i] = IF i = 1 THEN lines[i] ELSE sep \o lines[i]
  BY Zenon DEF InOneLine, PartsOf
<1>4. PICK m \in Nat, len \in Nat : m = Len(lines) /\ len = Len(text) /\ k \in 1 .. m
  BY <1>1
<1>5. PICK l \in Seq(S) : l = lines[k]
  BY <1>1
<1>6. PICK part \in Seq(S) : part = parts[k]
  BY <1>1, <1>3
<1>7. PICK p \in Seq(S), q \in Seq(S) : p = pre[k - 1] /\ q = pre[k] /\ Grown(p, q, part)
  <2>1. k \in 1 .. Len(parts)
    BY <1>3, <1>4
  <2> QED BY <1>1, <1>6, <2>1, PrefixesAre
<1>8. PICK a \in Nat, b \in Nat, c \in Nat, d \in Nat : a = Len(p) /\ b = Len(q) /\ c = Len(l) /\ d = Len(part)
  OBVIOUS
<1>9. b = a + d
  BY <1>7, <1>8 DEF Grown
<1>10. a + d <= len /\ \A j \in 1 .. d : text[a + j] = part[j]
  <2>1. k \in 1 .. Len(parts)
    BY <1>3, <1>4
  <2>2. Within(pre[Len(parts)], Len(pre[k - 1]), parts[k])
    BY <1>1, <2>1, PartIsAt
  <2>3. Within(text, a, part)
    BY <1>1, <1>3, <1>6, <1>7, <1>8, <2>2
  <2> QED BY <1>4, <1>8, <2>3 DEF Within
<1> DEFINE i == Start(pre, k - 1)
<1>11. /\ i \in 1 .. len + 1 /\ i + c = b + 1 /\ \A j \in 1 .. c : text[i - 1 + j] = l[j]
  <2>1. CASE k = 1
    <3>1. p = <<>> /\ a = 0
      <4>1. k - 1 = 0 /\ Len(<<>>) = 0
        BY <2>1
      <4>2. pre[0] = <<>>
        BY <1>1 DEF JoinedSoFar
      <4> QED BY <1>7, <1>8, <4>1, <4>2
    <3>2. part = l
      BY <1>3, <1>5, <1>6, <2>1, Zenon
    <3>3. i = 1
      BY <2>1 DEF Start
    <3>4. \A j \in 1 .. c : text[j] = l[j]
      <4>1. \A j \in 1 .. d : a + j = j
        BY <3>1
      <4>2. \A j \in 1 .. d : text[j] = part[j]
        BY <1>10, <4>1
      <4> QED BY <1>8, <3>2, <4>2
    <3>5. d = c
      BY <1>8, <3>2
    <3> HIDE DEF i
    <3>6. \A j \in 1 .. c : i - 1 + j = j
      BY <3>3
    <3> QED BY <1>9, <1>10, <3>1, <3>3, <3>4, <3>5, <3>6
  <2>2. CASE k # 1
    <3>1. part = sep \o l
      BY <1>3, <1>5, <1>6, <2>2, Zenon
    <3>2. d = 2 + c
      <4>1. Len(part) = Len(sep) + Len(l)
        BY <1>1, <3>1, Extended
      <4> QED BY <1>1, <1>8, <4>1
    <3>3. \A j \in 1 .. c : part[2 + j] = l[j]
      <4>1. \A j \in 1 .. Len(l) : part[Len(sep) + j] = l[j]
        <5>1. sep \in Seq(S)
          BY <1>1
        <5>2. \A j \in 1 .. Len(l) : (sep \o l)[Len(sep) + j] = l[j]
          BY <5>1, Extended
        <5> QED BY <3>1, <5>2, Zenon
      <4> QED BY <1>1, <1>8, <4>1
    <3>4. i = a + 3
      <4>1. k - 1 # 0
        BY <2>2
      <4> QED BY <1>7, <1>8, <4>1 DEF Start
    <3> HIDE DEF i
    <3>5. ASSUME NEW j \in 1 .. c PROVE text[i - 1 + j] = l[j]
      <4>1. i - 1 + j = a + (2 + j) /\ 2 + j \in 1 .. d
        BY <3>2, <3>4
      <4> QED BY <1>10, <3>3, <4>1
    <3>6. i \in 1 .. len + 1 /\ i + c = b + 1
      BY <1>9, <1>10, <3>2, <3>4
    <3> QED BY <3>5, <3>6
  <2> QED BY <2>1, <2>2
<1> HIDE DEF i
<1>12. b + 1 <= len => text[b + 1] = comma
  <2> SUFFICES ASSUME b + 1 <= len PROVE text[b + 1] = comma
    OBVIOUS
  <2>1. k # m
    <3>1. k = m => b = len
      BY <1>1, <1>4, <1>7, <1>8
    <3> QED BY <3>1
  <2>2. PICK n \in 1 .. m : n = k + 1 /\ n - 1 = k /\ n # 1 /\ n \in 1 .. Len(parts)
    <3>1. k + 1 \in 1 .. m /\ k + 1 - 1 = k /\ k + 1 # 1 /\ Len(parts) = m
      BY <1>3, <1>4, <2>1
    <3> QED BY <3>1
  <2>3. PICK r \in Seq(S), next \in Seq(S) : r = lines[n] /\ next = parts[n]
    <3>1. lines[n] \in Seq(S)
      BY <1>1, <1>4, <2>2
    <3>2. parts[n] \in Seq(S)
      BY <1>1, <2>2
    <3> QED BY <3>1, <3>2
  <2>4. next = sep \o r
    BY <1>3, <1>4, <2>2, <2>3, Zenon
  <2>5. Len(next) = Len(sep) + Len(r)
    BY <1>1, <2>4, Extended
  <2>6. Continues(sep, next)
    BY <1>1, <2>4, Extended
  <2>7. 1 \in 1 .. Len(next) /\ next[1] = comma
    <3>1. \A j \in 1 .. 2 : next[j] = sep[j]
      BY <1>1, <2>6 DEF Continues
    <3>2. PICK o \in Nat : o = Len(r)
      OBVIOUS
    <3>3. Len(next) = 2 + o /\ 1 \in 1 .. 2 + o /\ 1 \in 1 .. 2
      BY <1>1, <2>5, <3>2
    <3> QED BY <1>2, <3>1, <3>3
  <2>8. Within(pre[Len(parts)], Len(pre[n - 1]), parts[n])
    BY <1>1, <2>2, PartIsAt
  <2>9. Within(text, b, next)
    BY <1>1, <1>3, <1>7, <1>8, <2>2, <2>3, <2>8
  <2> QED BY <2>7, <2>9 DEF Within
<1>13. Has(text, i, l)
  BY <1>4, <1>8, <1>9, <1>10, <1>11 DEF Has
<1>14. i + Len(l) <= Len(text) => text[i + Len(l)] = comma
  BY <1>4, <1>8, <1>11, <1>12
<1>15. StandsAt(text, i, l)
  BY <1>2, <1>13, <1>14, Zenon DEF StandsAt
<1>16. Len(pre[k]) \in 0 .. Len(text) /\ (k = Len(lines) => Len(pre[k]) = Len(text))
  <2>1. b \in 0 .. len
    BY <1>9, <1>10
  <2>2. k = Len(lines) => pre[k] = text
    BY <1>1
  <2> QED BY <1>4, <1>7, <1>8, <2>1, <2>2
<1>17. i \in 1 .. Len(text) + 1 /\ i + Len(lines[k]) = Len(pre[k]) + 1
  BY <1>4, <1>5, <1>7, <1>8, <1>11
<1> QED BY <1>5, <1>15, <1>16, <1>17, Zenon DEF i

\* A line ends, wherever it stands, where it should.
EndsRight(text, line) ==
    \A i \in 1 .. Len(text) + 1 : StandsAt(text, i, line) => FieldEnd(text, i) = i + Len(line)

LEMMA LinesApart ==
    ASSUME NEW S, NEW lines, NEW sep, NEW parts, NEW pre, NEW text, InOneLine(S, lines, sep, parts, pre, text),
           \A k \in 1 .. Len(lines) : Len(lines[k]) > 0 /\ EndsRight(text, lines[k])
    PROVE  SplitFields(text) = {lines[k] : k \in 1 .. Len(lines)}
<1>1. lines \in Seq(Seq(S)) /\ text \in Seq(S) /\ text = pre[Len(lines)] /\ pre[0] = <<>>
  BY Zenon DEF InOneLine, JoinedSoFar
<1>2. PICK m \in Nat, len \in Nat : m = Len(lines) /\ len = Len(text)
  BY <1>1
<1>3. PICK split : IsSplit(text, split) /\ SplitFields(text) = split[len].parts
  BY <1>2, SplitIs
<1>4. \A n \in 0 .. len : split[n] = SplitFrom(text, split, n)
  BY <1>2, <1>3 DEF IsSplit
<1> DEFINE s == [k \in 0 .. m |-> Start(pre, k)]
           e == [k \in 0 .. m |-> Len(pre[k])]
<1>5. ASSUME NEW k \in 1 .. m
      PROVE  /\ s[k - 1] \in 1 .. len /\ e[k] \in 1 .. len /\ s[k] = e[k] + 3 /\ s[k - 1] <= e[k]
             /\ FieldEnd(text, s[k - 1]) = e[k] + 1 /\ (k = m => e[k] = len)
             /\ SubSeq(text, s[k - 1], e[k]) = lines[k]
  <2>1. k \in 0 .. m /\ k - 1 \in 0 .. m /\ k # 0
    OBVIOUS
  <2>2. s[k - 1] = Start(pre, k - 1) /\ e[k] = Len(pre[k]) /\ s[k] = Start(pre, k)
    BY <2>1
  <2> HIDE DEF s, e
  <2>3. s[k] = e[k] + 3
    BY <2>1, <2>2 DEF Start
  <2>4. PICK l \in Seq(S), c \in Nat : l = lines[k] /\ c = Len(l) /\ c > 0 /\ EndsRight(text, l)
    <3>1. lines[k] \in Seq(S) /\ Len(lines[k]) > 0 /\ EndsRight(text, lines[k])
      BY <1>1, <1>2
    <3>2. Len(lines[k]) \in Nat
      BY <3>1
    <3> QED BY <3>1, <3>2
  <2>5. k \in 1 .. Len(lines)
    BY <1>2
  <2>6. Start(pre, k - 1) \in 1 .. Len(text) + 1
    BY <2>5, LineStands
  <2>7. StandsAt(text, Start(pre, k - 1), lines[k])
    BY <2>5, LineStands
  <2>8. Start(pre, k - 1) + Len(lines[k]) = Len(pre[k]) + 1
    BY <2>5, LineStands
  <2>9. Len(pre[k]) \in 0 .. Len(text)
    BY <2>5, LineStands
  <2>10. k = Len(lines) => Len(pre[k]) = Len(text)
    BY <2>5, LineStands
  <2>11. PICK i \in Nat, b \in Nat : i = s[k - 1] /\ b = e[k] /\ i \in 1 .. len + 1 /\ b \in 0 .. len
    BY <1>2, <2>2, <2>6, <2>9
  <2>12. StandsAt(text, i, l)
    BY <2>2, <2>4, <2>7, <2>11
  <2>17. i + c = b + 1
    BY <2>2, <2>4, <2>8, <2>11
  <2>13. i <= b /\ b \in 1 .. len /\ i \in 1 .. len
    BY <2>4, <2>11, <2>17
  <2>14. FieldEnd(text, i) = b + 1
    <3>1. FieldEnd(text, i) = i + Len(l)
      BY <1>2, <2>4, <2>11, <2>12 DEF EndsRight
    <3> QED BY <2>4, <2>17, <3>1
  <2>15. SubSeq(text, i, b) = l
    <3> DEFINE u == SubSeq(text, i, b)
    <3>1. u \in Seq(S) /\ Len(u) = b - i + 1 /\ \A j \in 1 .. b - i + 1 : u[j] = text[i - 1 + j]
      <4>1. \A j \in 1 .. b - i + 1 : i + j - 1 = i - 1 + j
        OBVIOUS
      <4> QED BY <1>1, <1>2, <2>13, <4>1
    <3> HIDE DEF u
    <3>2. Has(text, i, l)
      BY <2>12, Zenon DEF StandsAt
    <3>3. \A j \in 1 .. c : text[i - 1 + j] = l[j]
      BY <2>4, <3>2 DEF Has
    <3>4. b - i + 1 = c
      BY <2>17
    <3>5. Len(u) = Len(l) /\ \A j \in 1 .. Len(u) : u[j] = l[j]
      BY <2>4, <3>1, <3>3, <3>4
    <3>6. u = l
      BY <3>1, <3>5, SeqEqual
    <3> QED BY <3>6 DEF u
  <2>16. k = m => b = len
    BY <1>2, <2>2, <2>10, <2>11
  <2> QED BY <2>3, <2>4, <2>11, <2>13, <2>14, <2>15, <2>16
<1>6. s[0] = 1 /\ (m = 0 => len = 0) /\ e[0] = 0
  <2>1. 0 \in 0 .. m /\ Len(<<>>) = 0
    OBVIOUS
  <2>2. Start(pre, 0) = 1
    BY DEF Start
  <2>3. m = 0 => text = <<>>
    BY <1>1, <1>2
  <2> QED BY <1>1, <1>2, <2>1, <2>2, <2>3
<1> HIDE DEF s, e
<1>7. m <= len
  <2> DEFINE Good == {k \in 0 .. m : e[k] >= k}
  <2>1. 0 \in Good
    BY <1>6
  <2>2. ASSUME NEW i \in 0 .. m - 1, i \in Good PROVE i + 1 \in Good
    <3>1. PICK k \in 1 .. m : k = i + 1 /\ k - 1 = i /\ k \in 0 .. m
      OBVIOUS
    <3>2. s[i] <= e[k] /\ e[k] \in 1 .. len
      BY <1>5, <3>1
    <3>3. CASE i = 0
      BY <3>1, <3>2, <3>3
    <3>4. CASE i # 0
      <4>1. i \in 1 .. m
        BY <3>4
      <4>2. s[i] = e[i] + 3 /\ e[i] \in 1 .. len /\ e[i] >= i
        BY <1>5, <2>2, <4>1
      <4>3. PICK x \in Nat, y \in Nat : x = e[i] /\ y = e[k]
        BY <3>2, <4>2
      <4>4. y >= k
        BY <3>1, <3>2, <4>2, <4>3
      <4> QED BY <3>1, <4>3, <4>4
    <3> QED BY <3>3, <3>4
  <2> HIDE DEF Good
  <2>3. \A k \in 0 .. m : k \in Good
    BY <2>1, <2>2, Upwards
  <2>4. m \in Good
    BY <2>3
  <2>5. CASE m = 0
    BY <1>6, <2>5
  <2>6. CASE m # 0
    <3>1. m \in 1 .. m
      BY <2>6
    <3>2. e[m] \in 1 .. len
      BY <1>5, <3>1
    <3>3. e[m] >= m
      BY <2>4 DEF Good
    <3> QED BY <3>2, <3>3
  <2> QED BY <2>5, <2>6
<1> DEFINE told(k) == {lines[j] : j \in 1 .. k}
           Told(k) == split[k].next = s[k] /\ split[k].parts = told(k)
           Good == {k \in 0 .. m : Told(k)}
<1>8. 0 \in Good
  <2>1. 0 \in 0 .. len /\ 0 \in Nat
    BY <1>2
  <2>2. SplitFrom(text, split, 0) = [next |-> 1, parts |-> {}]
    BY <2>1, SplitCases, Zenon
  <2>3. split[0] = [next |-> 1, parts |-> {}]
    BY <1>4, <2>1, <2>2
  <2>4. split[0].next = 1 /\ split[0].parts = {}
    BY <2>3
  <2>5. told(0) = {}
    OBVIOUS
  <2> HIDE DEF told
  <2>6. 0 \in 0 .. m
    OBVIOUS
  <2> QED BY <1>6, <2>4, <2>5, <2>6
<1>9. ASSUME NEW i \in 0 .. m - 1, i \in Good PROVE i + 1 \in Good
  <2>1. PICK k \in 1 .. m : k = i + 1 /\ k - 1 = i /\ k \in 0 .. m /\ k \in 0 .. len /\ k \in Nat /\ k > 0
    BY <1>7
  <2>2. PICK a, b : a = s[i] /\ b = e[k] /\ a \in 1 .. len /\ b \in 1 .. len
    BY <1>5, <2>1
  <2>3. FieldEnd(text, a) = b + 1 /\ SubSeq(text, a, b) = lines[k] /\ s[k] = b + 3
    BY <1>5, <2>1, <2>2
  <2>4. PICK last : last = split[k - 1] /\ last.next = a /\ last.parts = told(i)
    BY <1>9, <2>1, <2>2
  <2>5. ~(split[k - 1].next > Len(text))
    BY <1>2, <2>2, <2>4
  <2>6. SplitFrom(text, split, k) =
            [next |-> FieldEnd(text, split[k - 1].next) + 2,
             parts |-> split[k - 1].parts \cup
                         {SubSeq(text, split[k - 1].next, FieldEnd(text, split[k - 1].next) - 1)}]
    <3>1. k \in Nat /\ k > 0
      BY <2>1
    <3> QED BY <2>5, <3>1, SplitMore
  <2>7. PICK end : end = b + 1
    OBVIOUS
  <2>8. SplitFrom(text, split, k) = [next |-> end + 2, parts |-> told(i) \cup {SubSeq(text, a, end - 1)}]
    BY <2>3, <2>4, <2>6, <2>7, Zenon
  <2>9. end + 2 = s[k] /\ end - 1 = b
    BY <2>2, <2>3, <2>7
  <2>10. told(i) \cup {lines[k]} = told(k)
    <3>1. \A j : j \in 1 .. k <=> j \in 1 .. i \/ j = k
      BY <2>1
    <3> QED BY <3>1
  <2> HIDE DEF told
  <2>11. split[k] = [next |-> s[k], parts |-> told(k)]
    <3>1. SplitFrom(text, split, k) = [next |-> s[k], parts |-> told(k)]
      BY <2>3, <2>8, <2>9, <2>10, Zenon
    <3> QED BY <1>4, <2>1, <3>1
  <2>12. split[k].next = s[k] /\ split[k].parts = told(k)
    BY <2>11
  <2> QED BY <2>1, <2>12
<1>10. Told(m)
  <2> HIDE DEF Good, Told
  <2>1. \A k \in 0 .. m : k \in Good
    BY <1>8, <1>9, Upwards
  <2>2. m \in Good
    BY <2>1
  <2> QED BY <2>2 DEF Good
<1>11. s[m] > len
  <2>1. CASE m = 0
    BY <1>6, <2>1
  <2>2. CASE m # 0
    <3>1. m \in 1 .. m
      BY <2>2
    <3>2. s[m] = e[m] + 3 /\ e[m] = len
      BY <1>5, <3>1
    <3> QED BY <3>2
  <2> QED BY <2>1, <2>2
<1> DEFINE Rest == {k \in 0 .. len - m : split[m + k] = split[m]}
<1>12. 0 \in Rest
  <2>1. m + 0 = m /\ 0 \in 0 .. len - m
    BY <1>7
  <2> QED BY <2>1
<1>13. ASSUME NEW i \in 0 .. len - m - 1, i \in Rest PROVE i + 1 \in Rest
  <2>1. PICK k \in Nat : k = m + (i + 1) /\ k - 1 = m + i /\ k > 0 /\ k \in 0 .. len /\ i + 1 \in 0 .. len - m
    <3>1. /\ m + (i + 1) \in Nat /\ m + (i + 1) - 1 = m + i /\ m + (i + 1) > 0 /\ m + (i + 1) \in 0 .. len
          /\ i + 1 \in 0 .. len - m
      BY <1>7
    <3> QED BY <3>1
  <2>2. split[k - 1] = split[m]
    BY <1>13, <2>1
  <2>3. split[k - 1].next > Len(text)
    BY <1>2, <1>10, <1>11, <2>2
  <2>4. SplitFrom(text, split, k) = split[k - 1]
    <3>1. k \in Nat /\ k > 0
      BY <2>1
    <3> QED BY <2>3, <3>1, SplitDone
  <2>5. split[k] = split[m]
    BY <1>4, <2>1, <2>2, <2>4
  <2> QED BY <2>1, <2>5
<1>14. split[len] = split[m]
  <2> HIDE DEF Rest
  <2>1. PICK n \in Nat : n = len - m /\ m + n = len
    BY <1>7
  <2>2. \A k \in 0 .. n : k \in Rest
    BY <1>12, <1>13, <2>1, Upwards
  <2>3. n \in Rest
    BY <2>2
  <2> QED BY <2>1, <2>3 DEF Rest
<1> QED BY <1>2, <1>3, <1>10, <1>14

\* Commas are in strings only, where they are in quotes.
SignsOutside(fields) == \A key \in DOMAIN fields : "=" \notin Range(key)
CommasInStrings(fields) ==
    \A key \in DOMAIN fields : "," \in Range(fields[key].text) => fields[key].kind = "string"

\* Fields stay fields over more characters.
\* A field whose commas are in quotes ends, wherever it stands, where it should.
LEMMA FieldEndsRight ==
    ASSUME NEW S, Marked(S), NEW fields, HasFields(S, fields), CommasInStrings(fields), SignsOutside(fields),
           NEW key \in DOMAIN fields, NEW text \in Seq(S)
    PROVE  Len(FormatField(fields, key)) > 0 /\ EndsRight(text, FormatField(fields, key))
<1>1. IsFieldKey(S, key) /\ IsValue(S, fields[key])
  BY Zenon DEF HasFields
<1>2. key \in Seq(S)
  BY <1>1, Zenon DEF IsFieldKey
<1>3. PICK value : value = fields[key]
  OBVIOUS
<1>4. PICK said \in Seq(S) : said = value.text
  BY <1>1, <1>3, Zenon DEF IsValue
<1>5. PICK sign \in S : sign = "=" /\ sign \notin Range(key)
  BY Zenon DEF Marked, SignsOutside
<1>6. FormatFieldValue(value) \in Seq(S) /\ (QuotedValue(S, FormatFieldValue(value)) \/ BareValue(FormatFieldValue(value)))
  <2>1. CASE FormatFieldValue(value) = JsonString(said)
    <3>1. JsonString(said) \in Seq(S \ {"\n"})
      BY JsonStringClean
    <3>2. PICK r \in Seq(S \ {"\n"}) : r = JsonString(said)
      BY <3>1
    <3>3. r \in Seq(S)
      OBVIOUS
    <3> QED BY <2>1, <3>2, <3>3, Zenon DEF QuotedValue
  <2>2. CASE FormatFieldValue(value) = said /\ ShownBare(S, value)
    <3>1. "," \notin Range(said)
      BY <1>3, <1>4, <2>2, Zenon DEF ShownBare, CommasInStrings
    <3>2. \A j \in 1 .. Len(said) : said[j] \in Range(said)
      <4>1. DOMAIN said = 1 .. Len(said)
        OBVIOUS
      <4> QED BY <4>1, Zenon DEF Range
    <3>3. Len(said) > 0 => said[1] # "\""
      BY <1>4, <2>2, Zenon DEF ShownBare
    <3>4. BareValue(said)
      BY <3>1, <3>2, <3>3, Zenon DEF BareValue
    <3> QED BY <2>2, <3>4, Zenon
  <2>3. IsValue(S, value)
    BY <1>1, <1>3, Zenon
  <2>4. \/ FormatFieldValue(value) = JsonString(value.text)
        \/ FormatFieldValue(value) = value.text /\ ShownBare(S, value)
    BY <2>3, ShownIs
  <2> QED BY <1>4, <2>1, <2>2, <2>4, Zenon
<1>7. PICK shown \in Seq(S) : shown = FormatFieldValue(value) /\ (QuotedValue(S, shown) \/ BareValue(shown))
  BY <1>6, Zenon
<1>8. PICK line : line = (key \o <<sign>>) \o shown
  OBVIOUS
<1>9. line = FormatField(fields, key)
  BY <1>3, <1>5, <1>7, <1>8, Zenon DEF FormatField
<1>10. line \in Seq(S) /\ Laid(line, key, sign, shown)
  BY <1>2, <1>8, LaidOut
<1>11. Len(line) > 0
  <2>1. Len(line) = Len(key) + 1 + Len(shown)
    BY <1>10 DEF Laid
  <2> QED BY <1>2, <2>1
<1>12. ASSUME NEW i \in 1 .. Len(text) + 1, StandsAt(text, i, line) PROVE FieldEnd(text, i) = i + Len(line)
  BY <1>2, <1>5, <1>7, <1>10, <1>12, FieldEndIs
<1>13. EndsRight(text, line)
  BY <1>12 DEF EndsRight
<1> QED BY <1>9, <1>11, <1>13, Zenon

LEMMA LengthIsLast ==
    ASSUME NEW S, NEW s \in Seq(S)
    PROVE  Len(s) \in 0 .. Len(s)
OBVIOUS

\* What is joined of lines is one text in which they stand.
LEMMA JoinedInOneLine ==
    ASSUME NEW S, NEW comma \in S, comma = ",", NEW lines \in Seq(Seq(S)), NEW sep \in Seq(S), Len(sep) = 2, sep[1] = comma
    PROVE  \E parts, pre : \E text \in Seq(S) : InOneLine(S, lines, sep, parts, pre, text) /\ text = Joined(lines, sep)
<1>1. PICK parts \in Seq(Seq(S)) : PartsOf(lines, sep, parts)
  BY JoinedParts
<1>2. PICK pre : JoinedSoFar(S, parts, pre) /\ FlattenSeq(parts) = pre[Len(parts)]
  BY FlattenIs
<1>3. Len(parts) = Len(lines) /\ FlattenSeq(parts) = Joined(lines, sep)
  BY <1>1, Zenon DEF PartsOf
<1>4. PICK text \in Seq(S) : text = pre[Len(lines)] /\ text = Joined(lines, sep)
  <2>1. Len(parts) \in 0 .. Len(parts)
    BY LengthIsLast, Zenon
  <2>2. pre[Len(parts)] \in Seq(S)
    BY <1>2, <2>1 DEF JoinedSoFar
  <2> QED BY <1>2, <1>3, <2>2
<1>5. InOneLine(S, lines, sep, parts, pre, text)
  BY <1>1, <1>2, <1>4, Zenon DEF InOneLine
<1> QED BY <1>4, <1>5, Zenon

\* The fields on a line are the fields that are shown.
LEMMA FieldsSplit ==
    ASSUME NEW S, Marked(S), NEW fields, HasFields(S, fields), CommasInStrings(fields), SignsOutside(fields)
    PROVE  SplitFields(FormatFields(fields)) = {FormatField(fields, key) : key \in DOMAIN fields}
<1> DEFINE T == S \cup {",", " "}
<1>1. S \subseteq T /\ T \ {"\n"} \subseteq T
  OBVIOUS
<1>2. PICK comma \in T, space \in T : comma = "," /\ space = " "
  OBVIOUS
<1> HIDE DEF T
<1>3. Marked(T) /\ HasFields(T, fields)
  BY <1>1, FieldsMore
<1>4. PICK keys : \E lines \in Seq(Seq(T)) :
          Shows(fields, keys, lines) /\ FormatFields(fields) = Joined(lines, <<",", " ">>)
  <2>1. \A key \in DOMAIN fields : key \in Seq(T)
    BY <1>3, Zenon DEF HasFields, IsFieldKey
  <2> QED BY <1>1, <1>3, <2>1, FieldsShown, Zenon
<1>6. PICK lines \in Seq(Seq(T)) : Shows(fields, keys, lines) /\ FormatFields(fields) = Joined(lines, <<",", " ">>)
  BY <1>4, Zenon
<1>7. lines \in Seq(Seq(T))
  BY <1>6
<1>8. PICK sep \in Seq(T) : sep = <<comma, space>> /\ Len(sep) = 2 /\ sep[1] = comma
  <2>1. <<comma, space>> \in Seq(T)
    BY TwoAre
  <2>2. Len(<<comma, space>>) = 2 /\ <<comma, space>>[1] = comma
    OBVIOUS
  <2> QED BY <2>1, <2>2
<1>9. FormatFields(fields) = Joined(lines, sep)
  BY <1>2, <1>6, <1>8, Zenon
<1>10. PICK parts, pre : \E text \in Seq(T) : InOneLine(T, lines, sep, parts, pre, text) /\ text = Joined(lines, sep)
  <2>1. Len(sep) = 2 /\ sep[1] = comma
    BY <1>8, Zenon
  <2> QED BY <1>2, <1>7, <2>1, JoinedInOneLine, Zenon
<1>11. PICK text \in Seq(T) : InOneLine(T, lines, sep, parts, pre, text) /\ text = FormatFields(fields)
  BY <1>9, <1>10, Zenon
<1>12. Ordered(DOMAIN fields, keys) /\ Len(lines) = Len(keys)
       /\ \A i \in 1 .. Len(keys) : lines[i] = FormatField(fields, keys[i])
  BY <1>6, Zenon DEF Shows
<1>13. \A i \in 1 .. Len(keys) : keys[i] \in DOMAIN fields
  BY <1>12 DEF Ordered
<1>14. \A k \in 1 .. Len(lines) : Len(lines[k]) > 0 /\ EndsRight(text, lines[k])
  <2> SUFFICES ASSUME NEW k \in 1 .. Len(lines) PROVE Len(lines[k]) > 0 /\ EndsRight(text, lines[k])
    OBVIOUS
  <2>1. PICK key \in DOMAIN fields : lines[k] = FormatField(fields, key)
    BY <1>12, <1>13
  <2>2. Len(FormatField(fields, key)) > 0 /\ EndsRight(text, FormatField(fields, key))
    BY <1>3, FieldEndsRight
  <2> QED BY <2>1, <2>2, Zenon
<1>15. SplitFields(text) = {lines[k] : k \in 1 .. Len(lines)}
  BY <1>11, <1>14, LinesApart
<1>16. {lines[k] : k \in 1 .. Len(lines)} = {FormatField(fields, key) : key \in DOMAIN fields}
  <2>1. ASSUME NEW k \in 1 .. Len(lines) PROVE \E key \in DOMAIN fields : lines[k] = FormatField(fields, key)
    BY <1>12, <1>13
  <2>2. ASSUME NEW key \in DOMAIN fields PROVE \E k \in 1 .. Len(lines) : FormatField(fields, key) = lines[k]
    <3>1. PICK k \in 1 .. Len(keys) : keys[k] = key
      BY <1>12 DEF Ordered
    <3>2. k \in 1 .. Len(lines) /\ lines[k] = FormatField(fields, key)
      BY <1>12, <3>1
    <3> QED BY <3>2, Zenon
  <2> QED BY <2>1, <2>2, Zenon
<1> QED BY <1>11, <1>15, <1>16, Zenon

LEMMA FieldsSplitAgain == Typed => FieldsSplitBack
<1> SUFFICES ASSUME Typed, Recorded, NEW entry \in Entries, CommasInStrings(entry.fields), SignsOutside(entry.fields)
             PROVE  SplitFields(FormatFields(entry.fields)) =
                        {FormatField(entry.fields, key) : key \in DOMAIN entry.fields}
  BY Zenon DEF FieldsSplitBack, CommasInStrings, SignsOutside
<1>1. PICK S : IsEntry(S, entry)
  BY EntryTyped
<1>2. Marked(S) /\ HasFields(S, entry.fields)
  BY <1>1, Zenon DEF IsEntry
<1> QED BY <1>2, FieldsSplit, Zenon

-----------------------------------------------------------------------------
\* What is printed can be read back: the fields of a line, its one line break
\* for each of a column, the row that is logged again, and a number with commas.
THEOREM OutputReadsBackHolds == Spec => []OutputReadsBack
<1>1. Typed => OutputReadsBack
  BY FieldsSplitAgain, LinesOnce, RowsLoggedBack, CountsBack, Zenon DEF OutputReadsBack
<1>2. Spec => []Typed
  BY InputTyped
<1> QED BY <1>1, <1>2, PTL
=============================================================================
