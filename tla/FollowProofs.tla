---------------------------- MODULE FollowProofs ----------------------------
(***************************************************************************)
(* The tailer hands over no byte twice and none out of order, for lines of *)
(* any length, any size of the buffer, any number of rotations and any     *)
(* number of truncations in place, and so does the loop that follows.  As  *)
(* long as nothing is truncated, what it hands over of a file is one split *)
(* of what it has read, every line that is handed over is a whole line of  *)
(* the logger, and a call that ends at the end of the present file has     *)
(* handed over every new line of it.  The follow loop stores every line    *)
(* that it is given, counts each once, and never stores a line ahead of an *)
(* earlier one, for lines and chunks of any size, whatever fails and       *)
(* wherever it is killed.                                                  *)
(***************************************************************************)
EXTENDS WatchLoopProps, FiniteSetTheorems, SequenceTheorems, WellFoundedInduction, TLAPS

(* Splitting a sequence of bytes into lines. *)

Increasing(bytes) == \A i, j \in DOMAIN bytes : i < j => bytes[i] < bytes[j]
Count(bytes, n) == Cardinality(Newlines(bytes, n))

LEMMA CountType ==
    ASSUME NEW bytes \in Seq(Nat), NEW n \in Nat
    PROVE  /\ IsFiniteSet(Newlines(bytes, n)) /\ Count(bytes, n) \in Nat
           /\ Count(bytes, n) <= n
<1>1. IsFiniteSet(1 .. n) /\ Cardinality(1 .. n) = n
  BY FS_Interval
<1>2. Newlines(bytes, n) \in SUBSET (1 .. n)
  BY DEF Newlines
<1>3. IsFiniteSet(Newlines(bytes, n)) /\ Count(bytes, n) <= n
  BY <1>1, <1>2, FS_Subset DEF Count
<1> QED BY <1>3, FS_CardinalityType DEF Count

\* A prefix has no more newlines, and one byte adds one if it is a newline.
LEMMA CountGrows ==
    ASSUME NEW bytes \in Seq(Nat), NEW m \in Nat, NEW n \in Nat, m <= n
    PROVE  Count(bytes, m) <= Count(bytes, n)
<1>1. Newlines(bytes, m) \in SUBSET Newlines(bytes, n)
  BY DEF Newlines
<1> QED BY <1>1, CountType, FS_Subset DEF Count

LEMMA CountNext ==
    ASSUME NEW bytes \in Seq(Nat), NEW n \in Nat
    PROVE  Count(bytes, n + 1) = IF IsNewline(bytes[n + 1]) THEN Count(bytes, n) + 1 ELSE Count(bytes, n)
<1>1. CASE IsNewline(bytes[n + 1])
  <2>1. Newlines(bytes, n + 1) = Newlines(bytes, n) \cup {n + 1} /\ n + 1 \notin Newlines(bytes, n)
    BY <1>1 DEF Newlines
  <2> QED BY <1>1, <2>1, CountType, FS_AddElement DEF Count
<1>2. CASE ~IsNewline(bytes[n + 1])
  <2>1. Newlines(bytes, n + 1) = Newlines(bytes, n)
    BY <1>2 DEF Newlines
  <2> QED BY <1>2, <2>1 DEF Count
<1> QED BY <1>1, <1>2

\* Every number up to the number of newlines is reached, and at a newline.
LEMMA LineEndExists ==
    ASSUME NEW bytes \in Seq(Nat), NEW k \in 0 .. LineCount(bytes)
    PROVE  /\ LineEnd(bytes, k) \in 0 .. Len(bytes)
           /\ Count(bytes, LineEnd(bytes, k)) = k
           /\ LineEnd(bytes, k) = 0 \/ IsNewline(bytes[LineEnd(bytes, k)])
<1> DEFINE T == {n \in 0 .. Len(bytes) : Count(bytes, n) >= k}
<1>1. Len(bytes) \in Nat /\ LineCount(bytes) \in Nat /\ LineCount(bytes) = Count(bytes, Len(bytes))
  BY CountType DEF LineCount, Count
<1>2. Len(bytes) \in T /\ T \subseteq Nat
  BY <1>1
<1>3. PICK n \in T : \A i \in T : ~(<<i, n>> \in OpToRel(<, Nat))
  BY <1>2, NatLessThanWellFounded, WFMin
<1>4. \A i \in T : ~(i < n)
  BY <1>2, <1>3 DEF OpToRel
<1>5. Count(bytes, n) = k /\ (n = 0 \/ IsNewline(bytes[n]))
  <2>1. CASE n = 0
    <3>1. Count(bytes, 0) <= 0 /\ Count(bytes, 0) \in Nat
      BY CountType
    <3> QED BY <2>1, <3>1
  <2>2. CASE n # 0
    <3>1. PICK m \in 0 .. Len(bytes) : n = m + 1
      <4>1. n - 1 \in 0 .. Len(bytes) /\ n = (n - 1) + 1
        BY <1>1, <2>2
      <4> QED BY <4>1
    <3>2. m \notin T /\ Count(bytes, m) \in Nat /\ Count(bytes, n) >= k
      BY <1>1, <1>4, <3>1, CountType
    <3>3. Count(bytes, n) = IF IsNewline(bytes[n]) THEN Count(bytes, m) + 1 ELSE Count(bytes, m)
      BY <1>1, <3>1, CountNext
    <3>4. Count(bytes, m) < k
      BY <1>1, <3>2
    <3> QED BY <1>1, <3>2, <3>3, <3>4
  <2> QED BY <2>1, <2>2
<1> QED BY <1>5 DEF LineEnd, Count

LEMMA LineEndsAscend ==
    ASSUME NEW bytes \in Seq(Nat), NEW j \in 0 .. LineCount(bytes), NEW k \in 0 .. LineCount(bytes), j < k
    PROVE  LineEnd(bytes, j) < LineEnd(bytes, k)
<1>1. LineEnd(bytes, j) \in Nat /\ LineEnd(bytes, k) \in Nat
  BY LineEndExists
<1>2. Count(bytes, LineEnd(bytes, j)) = j /\ Count(bytes, LineEnd(bytes, k)) = k
  BY LineEndExists
<1>3. LineEnd(bytes, k) <= LineEnd(bytes, j) => k <= j
  BY <1>1, <1>2, CountGrows
<1>4. LineCount(bytes) \in Nat
  BY CountType DEF LineCount, Count
<1> QED BY <1>1, <1>3, <1>4

-----------------------------------------------------------------------------
LEMMA PartOf ==
    ASSUME NEW bytes \in Seq(Nat), NEW a \in Nat, NEW b \in Nat, a <= b, b <= Len(bytes)
    PROVE  /\ SubSeq(bytes, a + 1, b) \in Seq(Nat) /\ DOMAIN SubSeq(bytes, a + 1, b) = 1 .. b - a
           /\ \A x \in 1 .. b - a : a + x \in DOMAIN bytes /\ SubSeq(bytes, a + 1, b)[x] = bytes[a + x]
<1>1. \A i \in a + 1 .. b : bytes[i] \in Nat
  OBVIOUS
<1>2. /\ SubSeq(bytes, a + 1, b) \in Seq(Nat)
      /\ Len(SubSeq(bytes, a + 1, b)) = b - a
      /\ \A x \in 1 .. b - a : SubSeq(bytes, a + 1, b)[x] = bytes[a + x]
  OBVIOUS
<1> QED BY <1>2

\* Of increasing bytes the lines are increasing, within and among themselves,
\* and the partial line is behind them all.
LEMMA LinesInOrder ==
    ASSUME NEW bytes \in Seq(Nat), Increasing(bytes)
    PROVE  /\ Lines(bytes) \in Seq(Seq(Nat)) /\ PartialLine(bytes) \in Seq(Nat)
           /\ Increasing(PartialLine(bytes))
           /\ \A k \in DOMAIN Lines(bytes) : \A x \in DOMAIN Lines(bytes)[k] :
                \E i \in DOMAIN bytes : Lines(bytes)[k][x] = bytes[i]
           /\ \A x \in DOMAIN PartialLine(bytes) : \E i \in DOMAIN bytes : PartialLine(bytes)[x] = bytes[i]
           /\ \A j, k \in DOMAIN Lines(bytes) :
                \A x \in DOMAIN Lines(bytes)[j], y \in DOMAIN Lines(bytes)[k] :
                    j < k \/ (j = k /\ x < y) => Lines(bytes)[j][x] < Lines(bytes)[k][y]
           /\ \A k \in DOMAIN Lines(bytes) :
                \A x \in DOMAIN Lines(bytes)[k], y \in DOMAIN PartialLine(bytes) :
                    Lines(bytes)[k][x] < PartialLine(bytes)[y]
<1>1. Len(bytes) \in Nat /\ DOMAIN bytes = 1 .. Len(bytes) /\ \A i \in 1 .. Len(bytes) : bytes[i] \in Nat
  OBVIOUS
<1>2. PICK n \in Nat : n = LineCount(bytes)
  <2>1. LineCount(bytes) \in Nat
    BY CountType DEF LineCount, Count
  <2> QED BY <2>1
<1>3. PICK end \in [0 .. n -> 0 .. Len(bytes)] : \A k \in 0 .. n : end[k] = LineEnd(bytes, k)
  <2>1. \A k \in 0 .. n : LineEnd(bytes, k) \in 0 .. Len(bytes)
    BY <1>2, LineEndExists
  <2>2. [k \in 0 .. n |-> LineEnd(bytes, k)] \in [0 .. n -> 0 .. Len(bytes)]
    BY <2>1
  <2> QED BY <2>2
<1>4. \A j, k \in 0 .. n : j < k => end[j] < end[k]
  BY <1>2, <1>3, LineEndsAscend
<1>5. \A k \in 1 .. n : \E a \in 0 .. n : a = k - 1 /\ end[a] < end[k] /\ end[k] <= end[n]
  <2> TAKE k \in 1 .. n
  <2>1. k - 1 \in 0 .. n /\ k - 1 < k /\ k \in 0 .. n /\ n \in 0 .. n /\ (k < n \/ k = n)
    OBVIOUS
  <2>2. end[k] <= end[n]
    <3>1. end[k] \in Nat /\ end[n] \in Nat
      BY <1>3, <2>1
    <3>2. k < n => end[k] < end[n]
      BY <1>4, <2>1
    <3> QED BY <2>1, <3>1, <3>2
  <2>3. end[k - 1] < end[k]
    BY <2>1, <1>4
  <2> QED BY <2>1, <2>2, <2>3
<1>6. DOMAIN Lines(bytes) = 1 .. n
  BY <1>2 DEF Lines
<1>7. ASSUME NEW k \in 1 .. n, NEW a \in 0 .. n, a = k - 1
      PROVE  /\ Lines(bytes)[k] \in Seq(Nat) /\ DOMAIN Lines(bytes)[k] = 1 .. end[k] - 1 - end[a]
             /\ \A x \in DOMAIN Lines(bytes)[k] :
                    end[a] + x \in DOMAIN bytes /\ Lines(bytes)[k][x] = bytes[end[a] + x]
  <2>1. Lines(bytes)[k] = SubSeq(bytes, end[a] + 1, end[k] - 1)
    <3>1. Lines(bytes)[k] = SubSeq(bytes, LineEnd(bytes, k - 1) + 1, LineEnd(bytes, k) - 1)
      BY <1>2 DEF Lines
    <3>2. k \in 0 .. n
      OBVIOUS
    <3> QED BY <1>3, <1>7, <3>1, <3>2
  <2>2. end[a] \in Nat /\ end[k] - 1 \in Nat /\ end[a] <= end[k] - 1 /\ end[k] - 1 <= Len(bytes)
    BY <1>1, <1>3, <1>4, <1>7
  <2>3. PICK b \in Nat : b = end[k] - 1
    BY <2>2
  <2>4. end[a] <= b /\ b <= Len(bytes) /\ Lines(bytes)[k] = SubSeq(bytes, end[a] + 1, b)
    BY <2>1, <2>2, <2>3
  <2>5. /\ SubSeq(bytes, end[a] + 1, b) \in Seq(Nat) /\ DOMAIN SubSeq(bytes, end[a] + 1, b) = 1 .. b - end[a]
        /\ \A x \in 1 .. b - end[a] :
                end[a] + x \in DOMAIN bytes /\ SubSeq(bytes, end[a] + 1, b)[x] = bytes[end[a] + x]
    BY <2>2, <2>4, PartOf
  <2> QED BY <2>3, <2>4, <2>5
<1>8. /\ PartialLine(bytes) \in Seq(Nat) /\ DOMAIN PartialLine(bytes) = 1 .. Len(bytes) - end[n]
      /\ \A x \in DOMAIN PartialLine(bytes) :
            end[n] + x \in DOMAIN bytes /\ PartialLine(bytes)[x] = bytes[end[n] + x]
  <2>1. PartialLine(bytes) = SubSeq(bytes, end[n] + 1, Len(bytes))
    <3>1. PartialLine(bytes) = SubSeq(bytes, LineEnd(bytes, LineCount(bytes)) + 1, Len(bytes))
      BY DEF PartialLine
    <3>2. n \in 0 .. n
      OBVIOUS
    <3>3. end[n] = LineEnd(bytes, n)
      BY <1>3, <3>2
    <3> QED BY <1>2, <3>1, <3>3
  <2>2. PICK a \in Nat, b \in Nat : a = end[n] /\ b = Len(bytes)
    <3>1. end[n] \in Nat
      BY <1>3
    <3> QED BY <1>1, <3>1
  <2>4. a <= b /\ b <= Len(bytes)
    BY <1>1, <1>3, <2>2
  <2>3. /\ SubSeq(bytes, a + 1, b) \in Seq(Nat) /\ DOMAIN SubSeq(bytes, a + 1, b) = 1 .. b - a
        /\ \A x \in 1 .. b - a : a + x \in DOMAIN bytes /\ SubSeq(bytes, a + 1, b)[x] = bytes[a + x]
    BY <2>4, PartOf
  <2> QED BY <2>1, <2>2, <2>3
<1>9. Lines(bytes) \in Seq(Seq(Nat))
  <2>1. Lines(bytes) = [k \in 1 .. n |-> Lines(bytes)[k]]
    BY <1>2 DEF Lines
  <2>2. \A k \in 1 .. n : Lines(bytes)[k] \in Seq(Nat)
    BY <1>5, <1>7
  <2>3. [k \in 1 .. n |-> Lines(bytes)[k]] \in Seq(Seq(Nat))
    BY <2>2
  <2> QED BY <2>1, <2>3
<1>10. Increasing(PartialLine(bytes))
  BY <1>1, <1>3, <1>8 DEF Increasing
<1>11. ASSUME NEW j \in 1 .. n, NEW k \in 1 .. n,
              NEW x \in DOMAIN Lines(bytes)[j], NEW y \in DOMAIN Lines(bytes)[k],
              j < k \/ (j = k /\ x < y)
       PROVE  Lines(bytes)[j][x] < Lines(bytes)[k][y]
  <2>1. PICK a, b \in 0 .. n : a = j - 1 /\ b = k - 1
    BY <1>5
  <2>2. /\ x \in 1 .. end[j] - 1 - end[a] /\ y \in 1 .. end[k] - 1 - end[b]
        /\ end[a] + x \in DOMAIN bytes /\ end[b] + y \in DOMAIN bytes
        /\ Lines(bytes)[j][x] = bytes[end[a] + x] /\ Lines(bytes)[k][y] = bytes[end[b] + y]
    BY <1>7, <2>1, Zenon
  <2>3. j < k => end[j] <= end[b]
    <3>1. j < k => j < b \/ j = b
      BY <2>1
    <3>2. j \in 0 .. n /\ end[j] \in 0 .. Len(bytes)
      BY <1>3
    <3>3. j < b => end[j] < end[b]
      BY <1>4, <2>1, <3>2
    <3>4. end[b] \in 0 .. Len(bytes)
      BY <1>3, <2>1
    <3> QED BY <1>1, <3>1, <3>2, <3>3, <3>4
  <2>4. end[a] + x < end[b] + y
    <3>1. end[a] \in Nat /\ end[b] \in Nat /\ end[j] \in Nat /\ end[k] \in Nat
      <4>1. j \in 0 .. n /\ k \in 0 .. n
        OBVIOUS
      <4> QED BY <1>3, <4>1
    <3>2. end[a] + x < end[j] /\ y >= 1 /\ x \in Nat /\ y \in Nat
      <4>1. \A p, q \in Nat : \A z \in 1 .. p - 1 - q : q + z < p /\ z >= 1 /\ z \in Nat
        OBVIOUS
      <4>2. x \in 1 .. end[j] - 1 - end[a] /\ y \in 1 .. end[k] - 1 - end[b]
        BY <2>2
      <4> QED BY <3>1, <4>1, <4>2
    <3>3. j = k => a = b
      BY <2>1
    <3>4. CASE j < k
      BY <2>3, <3>1, <3>2, <3>4
    <3>5. CASE j = k /\ x < y
      BY <3>1, <3>2, <3>3, <3>5
    <3> QED BY <1>11, <3>4, <3>5
  <2> QED BY <2>2, <2>4 DEF Increasing
<1>12. ASSUME NEW k \in 1 .. n, NEW x \in DOMAIN Lines(bytes)[k], NEW y \in DOMAIN PartialLine(bytes)
       PROVE  Lines(bytes)[k][x] < PartialLine(bytes)[y]
  <2>1. PICK a \in 0 .. n : a = k - 1 /\ end[k] <= end[n]
    BY <1>5
  <2>2. /\ x \in 1 .. end[k] - 1 - end[a] /\ end[a] + x \in DOMAIN bytes
        /\ Lines(bytes)[k][x] = bytes[end[a] + x]
    BY <1>7, <2>1
  <2>3. /\ y \in 1 .. Len(bytes) - end[n] /\ end[n] + y \in DOMAIN bytes
        /\ PartialLine(bytes)[y] = bytes[end[n] + y]
    BY <1>8
  <2>4. end[a] + x < end[n] + y
    <3>1. end[a] \in Nat /\ end[k] \in Nat /\ end[n] \in Nat
      <4>1. k \in 0 .. n /\ n \in 0 .. n
        OBVIOUS
      <4> QED BY <1>3, <4>1
    <3>2. end[a] + x < end[k] /\ x \in Nat
      <4>1. \A p, q \in Nat : \A z \in 1 .. p - 1 - q : q + z < p /\ z \in Nat
        OBVIOUS
      <4> QED BY <2>2, <3>1, <4>1
    <3>3. y \in Nat
      BY <2>3, <3>1
    <3>4. \A p, q, z, v, w \in Nat : q + z < p /\ p <= v => q + z < v + w
      OBVIOUS
    <3> QED BY <2>1, <3>1, <3>2, <3>3, <3>4
  <2> QED BY <2>2, <2>3, <2>4 DEF Increasing
<1>13. \A k \in DOMAIN Lines(bytes) : \A x \in DOMAIN Lines(bytes)[k] :
          \E i \in DOMAIN bytes : Lines(bytes)[k][x] = bytes[i]
  BY <1>5, <1>6, <1>7
<1>14. \A x \in DOMAIN PartialLine(bytes) : \E i \in DOMAIN bytes : PartialLine(bytes)[x] = bytes[i]
  BY <1>8
<1> QED BY <1>6, <1>8, <1>9, <1>10, <1>11, <1>12, <1>13, <1>14

-----------------------------------------------------------------------------
(* The invariant. *)

InOrder(lines) ==
    \A j, k \in DOMAIN lines : \A x \in DOMAIN lines[j], y \in DOMAIN lines[k] :
        j < k \/ (j = k /\ x < y) => lines[j][x] < lines[k][y]
Below(lines, byte) == \A k \in DOMAIN lines : \A x \in DOMAIN lines[k] : lines[k][x] < byte
AllBelow(bytes, byte) == \A x \in DOMAIN bytes : bytes[x] < byte

\* The log: bytes grow within a file and from file to file, and what the logger
\* has not come to is empty.
LogInv ==
    /\ files \in Seq(Seq(Nat)) /\ writer \in DOMAIN files /\ next \in Nat
    /\ path \in {NoFile, Len(files)}
    /\ \A f \in DOMAIN files : Increasing(files[f]) /\ AllBelow(files[f], next)
    /\ \A f \in DOMAIN files : f > writer => files[f] = <<>>
    /\ \A f, g \in DOMAIN files : f < g =>
         \A j \in DOMAIN files[g] : AllBelow(files[f], files[g][j])

\* Where the tailer is: what is raw was read in the call in progress, and a
\* rotation always leads to a later file.
TailInv ==
    /\ tpc \in {"open", "seek", "idle", "stat", "reopen", "read", "failed"}
    /\ handle \in 0 .. Len(files) /\ offset \in Nat
    /\ leftover \in Seq(Nat) /\ raw \in Seq(Nat) /\ delivered \in Seq(Seq(Nat))
    /\ tpc = "open" => handle = NoFile
    /\ tpc \in {"seek", "idle", "stat", "reopen", "read"} => handle # NoFile
    /\ tpc \notin {"read", "failed"} => raw = <<>>
    /\ tpc = "reopen" => handle < Len(files)

\* What has been read and not handed over, and what is behind all that has
\* been read.
Pending == leftover \o raw
Behind(byte) == Below(delivered, byte) /\ AllBelow(Pending, byte)

\* What is still to be read is behind what has been; a file that is shorter
\* than the offset will be read from its start.
Unread(f, i) == f > handle \/ (f = handle /\ (i > offset \/ Len(files[f]) < offset))
OrderInv ==
    /\ InOrder(delivered) /\ Increasing(Pending)
    /\ \A y \in DOMAIN Pending : Below(delivered, Pending[y])
    /\ Behind(next)
    /\ \A f \in DOMAIN files : \A i \in DOMAIN files[f] : Unread(f, i) => Behind(files[f][i])

FollowInv == LogInv /\ TailInv /\ OrderInv

LEMMA BelowMore ==
    ASSUME NEW lines \in Seq(Seq(Nat)), NEW bytes \in Seq(Nat), NEW n \in Nat,
           Below(lines, n), AllBelow(bytes, n)
    PROVE  Below(lines, n + 1) /\ AllBelow(bytes, n + 1)
<1>1. \A k \in DOMAIN lines : \A x \in DOMAIN lines[k] : lines[k][x] \in Nat
  OBVIOUS
<1>2. \A x \in DOMAIN bytes : bytes[x] \in Nat
  OBVIOUS
<1>3. \A m \in Nat : m < n => m < n + 1
  OBVIOUS
<1> QED BY <1>1, <1>2, <1>3 DEF Below, AllBelow

-----------------------------------------------------------------------------
(* The logger and logrotate. *)

LEMMA WriteKeeps ==
    ASSUME FollowInv, Write, UNCHANGED <<tailVars, tailHistory>>
    PROVE  FollowInv'
<1> USE DEF FollowInv
<1>1. /\ files \in Seq(Seq(Nat)) /\ writer \in 1 .. Len(files) /\ next \in Nat
      /\ files' = [files EXCEPT ![writer] = Append(files[writer], next)]
      /\ next' = next + 1 /\ UNCHANGED <<path, writer>>
  BY DEF LogInv, Write
<1>2. /\ DOMAIN files = 1 .. Len(files) /\ Len(files) \in Nat
      /\ \A f \in 1 .. Len(files) :
            files[f] \in Seq(Nat) /\ Len(files[f]) \in Nat /\ DOMAIN files[f] = 1 .. Len(files[f])
  BY <1>1
<1>3. /\ files' \in Seq(Seq(Nat)) /\ Len(files') = Len(files) /\ DOMAIN files' = 1 .. Len(files)
      /\ files'[writer] = Append(files[writer], next)
      /\ \A f \in 1 .. Len(files) : f # writer => files'[f] = files[f]
  BY <1>1, <1>2
<1>4. PICK n \in Nat : n = Len(files[writer])
  BY <1>1, <1>2
<1>5. /\ Len(files'[writer]) = n + 1 /\ DOMAIN files'[writer] = 1 .. n + 1
      /\ files'[writer][n + 1] = next
      /\ \A i \in 1 .. n : files'[writer][i] = files[writer][i]
      /\ DOMAIN files[writer] = 1 .. n
  BY <1>1, <1>2, <1>3, <1>4
<1>6. /\ AllBelow(files[writer], next) /\ Increasing(files[writer])
      /\ \A f \in 1 .. Len(files) : AllBelow(files[f], next)
  BY <1>1, <1>2 DEF LogInv
<1>7. LogInv'
  <2>1. Increasing(files'[writer])
    BY <1>4, <1>5, <1>6 DEF Increasing, AllBelow
  <2>2. AllBelow(files'[writer], next + 1)
    BY <1>1, <1>2, <1>4, <1>5, <1>6 DEF AllBelow
  <2>3. \A f \in 1 .. Len(files) : Increasing(files'[f]) /\ AllBelow(files'[f], next + 1)
    BY <1>1, <1>2, <1>3, <1>6, <2>1, <2>2 DEF LogInv, AllBelow
  <2>4. \A f \in 1 .. Len(files) : f > writer => files'[f] = <<>>
    BY <1>1, <1>2, <1>3 DEF LogInv
  <2>5. ASSUME NEW f \in 1 .. Len(files), NEW g \in 1 .. Len(files), f < g, NEW j \in DOMAIN files'[g]
        PROVE  AllBelow(files'[f], files'[g][j])
    <3>1. CASE g > writer
      BY <1>1, <2>4, <2>5, <3>1
    <3>2. CASE g = writer
      <4>1. files'[f] = files[f]
        BY <1>1, <1>3, <2>5, <3>2
      <4>2. CASE j = n + 1
        BY <1>5, <1>6, <3>2, <4>1, <4>2
      <4>3. CASE j # n + 1
        <5>1. j \in DOMAIN files[writer] /\ files'[writer][j] = files[writer][j]
          BY <1>4, <1>5, <3>2, <4>3
        <5> QED BY <1>1, <1>2, <2>5, <3>2, <4>1, <5>1 DEF LogInv
      <4> QED BY <4>2, <4>3
    <3>3. CASE g < writer
      <4>1. files'[f] = files[f] /\ files'[g] = files[g]
        BY <1>1, <1>3, <2>5, <3>3
      <4> QED BY <1>1, <1>2, <2>5, <4>1 DEF LogInv
    <3>4. g > writer \/ g = writer \/ g < writer
      BY <1>1, <1>2
    <3> QED BY <3>1, <3>2, <3>3, <3>4
  <2>6. \A f \in DOMAIN files' : Increasing(files'[f]) /\ AllBelow(files'[f], next')
    BY <1>1, <1>3, <2>3
  <2>7. \A f \in DOMAIN files' : f > writer' => files'[f] = <<>>
    BY <1>1, <1>3, <2>4
  <2>8. \A f, g \in DOMAIN files' : f < g => \A j \in DOMAIN files'[g] : AllBelow(files'[f], files'[g][j])
    BY <1>3, <2>5
  <2>9. writer' \in DOMAIN files' /\ next' \in Nat /\ path' \in {NoFile, Len(files')}
    <3>1. path' = path /\ writer' = writer /\ path \in {NoFile, Len(files)}
      BY <1>1 DEF LogInv
    <3> QED BY <1>1, <1>3, <3>1
  <2> QED BY <1>3, <2>6, <2>7, <2>8, <2>9 DEF LogInv
<1>8. UNCHANGED <<tpc, handle, offset, leftover, raw, delivered>> /\ Pending' = Pending
  BY DEF tailVars, tailHistory, Pending
<1>9. TailInv'
  BY <1>3, <1>8 DEF TailInv
<1>10. Behind(next) /\ Behind(next + 1)
  <2>1. delivered \in Seq(Seq(Nat)) /\ Pending \in Seq(Nat) /\ Behind(next)
    BY DEF TailInv, Pending, OrderInv
  <2> QED BY <1>1, <2>1, BelowMore DEF Behind
<1>11. ASSUME NEW f \in 1 .. Len(files), NEW i \in DOMAIN files'[f], Unread(f, i)'
       PROVE  Behind(files'[f][i])
  <2>1. CASE f # writer
    BY <1>2, <1>3, <1>8, <1>11, <2>1 DEF OrderInv, Unread
  <2>2. CASE f = writer /\ i = n + 1
    BY <1>5, <1>10, <2>2
  <2>3. CASE f = writer /\ i # n + 1
    <3>1. i \in DOMAIN files[f] /\ files'[f][i] = files[f][i]
      BY <1>4, <1>5, <2>3
    <3>2. Unread(f, i)
      <4>1. offset \in Nat /\ Len(files[f]) = n /\ Len(files'[f]) = n + 1
        BY <1>4, <1>5, <2>3 DEF TailInv
      <4>2. f > handle \/ (f = handle /\ (i > offset \/ Len(files'[f]) < offset))
        BY <1>8, <1>11 DEF Unread
      <4> QED BY <4>1, <4>2 DEF Unread
    <3> QED BY <1>2, <3>1, <3>2 DEF OrderInv
  <2> QED BY <2>1, <2>2, <2>3
<1>12. OrderInv'
  <2>1. \A f \in DOMAIN files' : \A i \in DOMAIN files'[f] : Unread(f, i)' => Behind(files'[f][i])
    BY <1>3, <1>11
  <2>2. Behind(next)' /\ \A f, i : Behind(files[f][i])' <=> Behind(files'[f][i])
    BY <1>1, <1>8, <1>10 DEF Behind
  <2> QED BY <1>8, <2>1, <2>2 DEF OrderInv
<1> QED BY <1>7, <1>9, <1>12
\* A step of the logger that only moves the names of files.
LEMMA RenameKeeps ==
    ASSUME FollowInv, RenameAway \/ Reopen, UNCHANGED <<tailVars, tailHistory>>
    PROVE  FollowInv'
<1>1. UNCHANGED <<files, next, tpc, handle, offset, leftover, raw, delivered>>
  BY DEF RenameAway, Reopen, tailVars, tailHistory
<1>2. LogInv'
  <2>1. path' \in {NoFile, Len(files)} /\ writer' \in DOMAIN files
        /\ \A f \in DOMAIN files : f > writer' => files[f] = <<>>
    <3>1. CASE RenameAway
      BY <3>1 DEF FollowInv, LogInv, RenameAway
    <3>2. CASE Reopen
      <4>1. files \in Seq(Seq(Nat)) /\ path = Len(files) /\ writer' = path /\ path' = path
            /\ DOMAIN files = 1 .. Len(files) /\ Len(files) \in Nat /\ path # NoFile
        BY <3>2 DEF FollowInv, LogInv, Reopen
      <4> QED BY <4>1 DEF NoFile
    <3> QED BY <3>1, <3>2
  <2> QED BY <1>1, <2>1 DEF FollowInv, LogInv
<1>3. TailInv'
  BY <1>1 DEF FollowInv, TailInv
<1>4. OrderInv'
  BY <1>1 DEF FollowInv, OrderInv, Behind, Pending, Unread
<1> QED BY <1>2, <1>3, <1>4 DEF FollowInv

LEMMA CreateKeeps ==
    ASSUME FollowInv, Create, UNCHANGED <<tailVars, tailHistory>>
    PROVE  FollowInv'
<1>1. /\ UNCHANGED <<writer, next, tpc, handle, offset, leftover, raw, delivered>> /\ Pending' = Pending
      /\ files \in Seq(Seq(Nat)) /\ files' = Append(files, <<>>) /\ path' = Len(files')
  BY DEF Create, tailVars, tailHistory, FollowInv, LogInv, Pending
<1>2. PICK n \in Nat : n = Len(files) /\ DOMAIN files = 1 .. n
  BY <1>1
<1>3. /\ files' \in Seq(Seq(Nat)) /\ Len(files') = n + 1 /\ DOMAIN files' = 1 .. n + 1
      /\ files'[n + 1] = <<>> /\ \A f \in 1 .. n : files'[f] = files[f]
  BY <1>1, <1>2
<1>4. \A f \in 1 .. n + 1 : f \in 1 .. n \/ f = n + 1
  OBVIOUS
<1>5. LogInv'
  <2>1. \A f \in 1 .. n + 1 : Increasing(files'[f]) /\ AllBelow(files'[f], next)
    <3>1. \A f \in 1 .. n : Increasing(files'[f]) /\ AllBelow(files'[f], next)
      BY <1>2, <1>3 DEF FollowInv, LogInv
    <3>2. Increasing(<<>>) /\ AllBelow(<<>>, next)
      BY DEF Increasing, AllBelow
    <3> QED BY <1>3, <1>4, <3>1, <3>2
  <2>2. \A f \in 1 .. n + 1 : f > writer => files'[f] = <<>>
    BY <1>2, <1>3, <1>4 DEF FollowInv, LogInv
  <2>3. ASSUME NEW f \in 1 .. n + 1, NEW g \in 1 .. n + 1, f < g, NEW j \in DOMAIN files'[g]
        PROVE  AllBelow(files'[f], files'[g][j])
    <3>0. DOMAIN <<>> = {}
      OBVIOUS
    <3>1. g \in 1 .. n
      BY <1>3, <1>4, <2>3, <3>0
    <3>2. f \in 1 .. n
      BY <2>3, <3>1
    <3> QED BY <1>2, <1>3, <2>3, <3>1, <3>2 DEF FollowInv, LogInv
  <2>4. writer' \in DOMAIN files' /\ next' \in Nat
    BY <1>1, <1>2, <1>3 DEF FollowInv, LogInv
  <2> QED BY <1>1, <1>3, <2>1, <2>2, <2>3, <2>4 DEF LogInv
<1>6. TailInv'
  <2>1. handle \in 0 .. n => handle \in 0 .. n + 1
    OBVIOUS
  <2>2. tpc = "reopen" /\ handle < n => handle < n + 1
    BY <1>2 DEF FollowInv, TailInv
  <2> QED BY <1>1, <1>2, <1>3, <2>1, <2>2 DEF FollowInv, TailInv
<1>7. OrderInv'
  <2>1. ASSUME NEW f \in 1 .. n + 1, NEW i \in DOMAIN files'[f], Unread(f, i)'
        PROVE  Behind(files'[f][i])
    <3>1. f \in 1 .. n /\ files'[f] = files[f]
      BY <1>3, <1>4
    <3>2. Unread(f, i)
      BY <1>1, <2>1, <3>1 DEF Unread
    <3> QED BY <1>2, <3>1, <3>2 DEF FollowInv, OrderInv
  <2>2. Behind(next)' /\ \A f, i : Behind(files[f][i])' <=> Behind(files'[f][i])
    BY <1>1 DEF Behind, FollowInv, OrderInv
  <2> QED BY <1>1, <1>3, <2>1, <2>2 DEF FollowInv, OrderInv
<1> QED BY <1>5, <1>6, <1>7 DEF FollowInv

LEMMA TruncateKeeps ==
    ASSUME FollowInv, Truncate, UNCHANGED <<tailVars, tailHistory>>
    PROVE  FollowInv'
<1>1. /\ UNCHANGED <<path, writer, next, tpc, handle, offset, leftover, raw, delivered>> /\ Pending' = Pending
      /\ files \in Seq(Seq(Nat)) /\ writer \in DOMAIN files /\ files' = [files EXCEPT ![writer] = <<>>]
  BY DEF Truncate, tailVars, tailHistory, FollowInv, LogInv, Pending
<1>2. /\ files' \in Seq(Seq(Nat)) /\ Len(files') = Len(files) /\ DOMAIN files' = DOMAIN files
      /\ files'[writer] = <<>> /\ \A f \in DOMAIN files : f # writer => files'[f] = files[f]
  BY <1>1
<1>3. LogInv'
  <2>1. \A f \in DOMAIN files : Increasing(files'[f]) /\ AllBelow(files'[f], next)
    <3>1. \A f \in DOMAIN files : f # writer => Increasing(files'[f]) /\ AllBelow(files'[f], next)
      BY <1>2 DEF FollowInv, LogInv
    <3>2. Increasing(<<>>) /\ AllBelow(<<>>, next)
      BY DEF Increasing, AllBelow
    <3> QED BY <1>2, <3>1, <3>2
  <2>2. \A f \in DOMAIN files : f > writer => files'[f] = <<>>
    BY <1>2 DEF FollowInv, LogInv
  <2>3. ASSUME NEW f \in DOMAIN files, NEW g \in DOMAIN files, f < g, NEW j \in DOMAIN files'[g]
        PROVE  AllBelow(files'[f], files'[g][j])
    <3>1. g # writer /\ files'[g] = files[g]
      BY <1>2, <2>3
    <3>2. CASE f = writer
      BY <1>2, <3>2 DEF AllBelow
    <3>3. CASE f # writer
      BY <1>2, <2>3, <3>1, <3>3 DEF FollowInv, LogInv
    <3> QED BY <3>2, <3>3
  <2>4. writer' \in DOMAIN files' /\ next' \in Nat /\ path' \in {NoFile, Len(files')}
    BY <1>1, <1>2 DEF FollowInv, LogInv
  <2>5. \A f \in DOMAIN files' : f > writer' => files'[f] = <<>>
    BY <1>1, <1>2, <2>2
  <2>6. \A f \in DOMAIN files' : Increasing(files'[f]) /\ AllBelow(files'[f], next')
    BY <1>1, <1>2, <2>1
  <2>7. \A f, g \in DOMAIN files' : f < g => \A j \in DOMAIN files'[g] : AllBelow(files'[f], files'[g][j])
    BY <1>2, <2>3
  <2> QED BY <1>2, <2>4, <2>5, <2>6, <2>7 DEF LogInv
<1>4. TailInv'
  BY <1>1, <1>2 DEF FollowInv, TailInv
<1>5. OrderInv'
  <2>1. ASSUME NEW f \in DOMAIN files, NEW i \in DOMAIN files'[f], Unread(f, i)'
        PROVE  Behind(files'[f][i])
    <3>1. files'[f] = files[f]
      BY <1>2
    <3>2. Unread(f, i)
      BY <1>1, <2>1, <3>1 DEF Unread
    <3> QED BY <3>1, <3>2 DEF FollowInv, OrderInv
  <2>2. Behind(next)' /\ \A f, i : Behind(files[f][i])' <=> Behind(files'[f][i])
    BY <1>1 DEF Behind, FollowInv, OrderInv
  <2> QED BY <1>1, <1>2, <2>1, <2>2 DEF FollowInv, OrderInv
<1> QED BY <1>3, <1>4, <1>5 DEF FollowInv

LEMMA LogKeeps ==
    ASSUME FollowInv, LogStep, UNCHANGED <<tailVars, tailHistory>>
    PROVE  FollowInv'
BY WriteKeeps, RenameKeeps, CreateKeeps, TruncateKeeps DEF LogStep
-----------------------------------------------------------------------------
(* The tailer. *)

\* A step that moves the offset or the handle but reads and hands over nothing
\* must leave nothing unread that has been read.
LEMMA OrderStays ==
    ASSUME FollowInv, UNCHANGED <<files, next, delivered>>,
           Pending' = Pending \/ Pending' = <<>>,
           \A f \in DOMAIN files : \A i \in DOMAIN files[f] : Unread(f, i)' => Unread(f, i)
    PROVE  OrderInv'
<1>1. \A byte : Behind(byte) => Below(delivered, byte) /\ AllBelow(Pending', byte)
  <2>1. \A byte : AllBelow(<<>>, byte)
    BY DEF AllBelow
  <2> QED BY <2>1 DEF Behind
<1>2. Behind(next)'
  BY <1>1 DEF FollowInv, OrderInv, Behind
<1>3. ASSUME NEW f \in DOMAIN files, NEW i \in DOMAIN files[f], Unread(f, i)'
      PROVE  Behind(files[f][i])'
  <2>1. Behind(files[f][i])
    BY <1>3 DEF FollowInv, OrderInv
  <2> QED BY <1>1, <2>1 DEF Behind
<1>4. Increasing(Pending') /\ \A y \in DOMAIN Pending' : Below(delivered, Pending'[y])
  BY DEF FollowInv, OrderInv, Increasing
<1> QED BY <1>2, <1>3, <1>4 DEF FollowInv, OrderInv

LEMMA OpenKeeps ==
    ASSUME FollowInv, OpenFile
    PROVE  FollowInv'
<1>1. /\ UNCHANGED <<files, path, writer, next, offset, leftover, raw, delivered>>
      /\ tpc = "open" /\ handle = NoFile /\ raw = <<>>
      /\ path = Len(files) \/ path = NoFile
      /\ Len(files) \in Nat /\ DOMAIN files = 1 .. Len(files)
  BY DEF OpenFile, logVars, tailHistory, FollowInv, LogInv, TailInv
<1>2. LogInv'
  BY <1>1 DEF FollowInv, LogInv
<1>3. TailInv'
  BY <1>1 DEF OpenFile, FollowInv, TailInv, NoFile
<1>4. \A f \in DOMAIN files : \A i \in DOMAIN files[f] : Unread(f, i)
  BY <1>1 DEF Unread, NoFile
<1> QED BY <1>1, <1>2, <1>3, <1>4, OrderStays DEF FollowInv, Pending

LEMMA SeekKeeps ==
    ASSUME FollowInv, SeekToEnd
    PROVE  FollowInv'
<1>1. /\ UNCHANGED <<files, path, writer, next, handle, leftover, raw, delivered>>
      /\ tpc = "seek" /\ tpc' = "idle" /\ offset' = Len(files[handle])
      /\ handle \in DOMAIN files /\ files \in Seq(Seq(Nat))
  BY DEF SeekToEnd, logVars, FollowInv, LogInv, TailInv, NoFile
<1>2. files[handle] \in Seq(Nat) /\ Len(files[handle]) \in Nat /\ DOMAIN files[handle] = 1 .. Len(files[handle])
  BY <1>1
<1>3. LogInv'
  BY <1>1 DEF FollowInv, LogInv
<1>4. TailInv'
  BY <1>1, <1>2 DEF FollowInv, TailInv
<1>5. \A f \in DOMAIN files : \A i \in DOMAIN files[f] : Unread(f, i)' => Unread(f, i)
  BY <1>1, <1>2 DEF Unread
<1> QED BY <1>1, <1>3, <1>4, <1>5, OrderStays DEF FollowInv, Pending

\* A file shorter than the offset holds nothing that has been read.
LEMMA StatKeeps ==
    ASSUME FollowInv, Stat
    PROVE  FollowInv'
<1>1. /\ UNCHANGED <<files, path, writer, next, handle, raw, delivered>>
      /\ tpc = "stat" /\ raw = <<>> /\ handle # NoFile /\ handle \in 0 .. Len(files)
      /\ path = NoFile \/ path = Len(files)
      /\ files \in Seq(Seq(Nat)) /\ Len(files) \in Nat
      /\ offset \in Nat /\ leftover \in Seq(Nat)
  BY DEF Stat, logVars, FollowInv, LogInv, TailInv
<1>2. LogInv'
  BY <1>1 DEF FollowInv, LogInv
<1>3. CASE Shrunk /\ path = handle /\ tpc' = "read" /\ StartOver
  <2>1. offset' = 0 /\ leftover' = <<>> /\ leftover' \in Seq(Nat) /\ offset' \in Nat
    BY <1>3 DEF StartOver
  <2>2. TailInv'
    BY <1>1, <1>3, <2>1 DEF FollowInv, TailInv
  <2>3. Pending' = <<>>
    BY <1>1, <2>1 DEF Pending
  <2>4. \A f \in DOMAIN files : \A i \in DOMAIN files[f] : Unread(f, i)' => Unread(f, i)
    BY <1>1, <1>3 DEF Unread, Shrunk
  <2> QED BY <1>1, <1>2, <2>2, <2>3, <2>4, OrderStays DEF FollowInv
<1>4. CASE UNCHANGED <<offset, leftover>> /\ (tpc' \in {"idle", "read"} \/ (tpc' = "reopen" /\ path \notin {NoFile, handle}))
  <2>1. TailInv'
    <3>1. tpc' = "reopen" => handle < Len(files)
      BY <1>1, <1>4
    <3> QED BY <1>1, <1>4, <3>1 DEF FollowInv, TailInv
  <2>2. Pending' = Pending /\ \A f \in DOMAIN files : \A i \in DOMAIN files[f] : Unread(f, i)' => Unread(f, i)
    BY <1>1, <1>4 DEF Pending, Unread
  <2> QED BY <1>1, <1>2, <2>1, <2>2, OrderStays DEF FollowInv
<1> QED BY <1>3, <1>4 DEF Stat, PathGone, Rotated

LEMMA RotationKeeps ==
    ASSUME FollowInv, HandleRotation
    PROVE  FollowInv'
<1>1. /\ UNCHANGED <<files, path, writer, next, raw, delivered>>
      /\ tpc = "reopen" /\ tpc' = "read" /\ raw = <<>> /\ handle # NoFile
      /\ handle \in 0 .. Len(files) /\ handle < Len(files)
      /\ path = NoFile \/ path = Len(files)
      /\ files \in Seq(Seq(Nat)) /\ Len(files) \in Nat /\ DOMAIN files = 1 .. Len(files)
  BY DEF HandleRotation, logVars, FollowInv, LogInv, TailInv
<1>2. LogInv'
  BY <1>1 DEF FollowInv, LogInv
<1>3. CASE PathGone
  <2>1. UNCHANGED <<handle, offset, leftover>>
    BY <1>3 DEF HandleRotation
  <2>2. TailInv'
    BY <1>1, <2>1 DEF FollowInv, TailInv
  <2>3. Pending' = Pending /\ \A f \in DOMAIN files : \A i \in DOMAIN files[f] : Unread(f, i)' => Unread(f, i)
    BY <1>1, <2>1 DEF Pending, Unread
  <2> QED BY <1>1, <1>2, <2>2, <2>3, OrderStays DEF FollowInv
<1>4. CASE ~PathGone
  <2>1. handle' = Len(files) /\ offset' = 0 /\ leftover' = <<>> /\ leftover' \in Seq(Nat)
    BY <1>1, <1>4 DEF HandleRotation, StartOver, PathGone
  <2>2. TailInv'
    BY <1>1, <2>1 DEF FollowInv, TailInv, NoFile
  <2>3. Pending' = <<>>
    BY <1>1, <2>1 DEF Pending
  <2>4. \A f \in DOMAIN files : \A i \in DOMAIN files[f] : Unread(f, i)' => Unread(f, i)
    BY <1>1, <2>1 DEF Unread
  <2> QED BY <1>1, <1>2, <2>2, <2>3, <2>4, OrderStays DEF FollowInv
<1> QED BY <1>3, <1>4
\* Sequences put behind each other.
LEMMA Joined ==
    ASSUME NEW S, NEW s \in Seq(S), NEW t \in Seq(S)
    PROVE  /\ s \o t \in Seq(S) /\ Len(s) \in Nat
           /\ \A x \in DOMAIN s : x \in DOMAIN (s \o t) /\ (s \o t)[x] = s[x] /\ x <= Len(s) /\ x \in Nat
           /\ \A y \in DOMAIN t : y \in Nat /\ y >= 1 /\ (s \o t)[Len(s) + y] = t[y]
           /\ \A z \in DOMAIN (s \o t) : z \in DOMAIN s \/ \E y \in DOMAIN t : z = Len(s) + y
<1>1. PICK m \in Nat, n \in Nat : m = Len(s) /\ n = Len(t)
  OBVIOUS
<1>2. DOMAIN s = 1 .. m /\ DOMAIN t = 1 .. n /\ DOMAIN (s \o t) = 1 .. m + n
  BY <1>1
<1>3. \A z \in 1 .. m + n : z \in 1 .. m \/ \E y \in 1 .. n : z = m + y
  <2>1. \A z \in 1 .. m + n : z \in 1 .. m \/ (z - m \in 1 .. n /\ z = m + (z - m))
    OBVIOUS
  <2> QED BY <2>1
<1>4. \A x \in 1 .. m : x \in 1 .. m + n /\ x <= m /\ x \in Nat /\ (s \o t)[x] = s[x]
  BY <1>1
<1>5. \A y \in 1 .. n : y \in Nat /\ y >= 1 /\ (s \o t)[m + y] = t[y]
  BY <1>1
<1>6. s \o t \in Seq(S)
  OBVIOUS
<1>7. \A x \in DOMAIN s : x \in DOMAIN (s \o t) /\ (s \o t)[x] = s[x] /\ x <= Len(s) /\ x \in Nat
  BY <1>1, <1>2, <1>4
<1>8. \A y \in DOMAIN t : y \in Nat /\ y >= 1 /\ (s \o t)[Len(s) + y] = t[y]
  BY <1>1, <1>2, <1>5
<1>9. ASSUME NEW z \in DOMAIN (s \o t)
      PROVE  z \in DOMAIN s \/ \E y \in DOMAIN t : z = Len(s) + y
  <2>1. z \in 1 .. m + n
    BY <1>2
  <2>2. z \in 1 .. m \/ \E y \in 1 .. n : z = m + y
    BY <1>3, <2>1
  <2> QED BY <1>1, <1>2, <2>2
<1> QED BY <1>1, <1>6, <1>7, <1>8, <1>9

LEMMA JoinedIncreasing ==
    ASSUME NEW s \in Seq(Nat), NEW t \in Seq(Nat), Increasing(s), Increasing(t),
           \A y \in DOMAIN t : AllBelow(s, t[y])
    PROVE  Increasing(s \o t)
<1>0. /\ s \o t \in Seq(Nat) /\ Len(s) \in Nat
      /\ \A x \in DOMAIN s : x \in DOMAIN (s \o t) /\ (s \o t)[x] = s[x] /\ x <= Len(s) /\ x \in Nat
      /\ \A y \in DOMAIN t : y \in Nat /\ y >= 1 /\ (s \o t)[Len(s) + y] = t[y]
      /\ \A z \in DOMAIN (s \o t) : z \in DOMAIN s \/ \E y \in DOMAIN t : z = Len(s) + y
  BY Joined
<1> SUFFICES ASSUME NEW i \in DOMAIN (s \o t), NEW j \in DOMAIN (s \o t), i < j
             PROVE  (s \o t)[i] < (s \o t)[j]
  BY DEF Increasing
<1>1. CASE i \in DOMAIN s /\ j \in DOMAIN s
  BY <1>1, <1>0 DEF Increasing
<1>2. ASSUME NEW y \in DOMAIN t, j = Len(s) + y, i \in DOMAIN s
      PROVE  (s \o t)[i] < (s \o t)[j]
  BY <1>2, <1>0 DEF AllBelow
<1>3. ASSUME NEW x \in DOMAIN t, i = Len(s) + x, j \in DOMAIN s
      PROVE  FALSE
  <2>1. Len(s) \in Nat /\ x \in Nat /\ x >= 1 /\ j <= Len(s) /\ j \in Nat
    BY <1>3, <1>0
  <2> QED BY <1>3, <2>1
<1>4. ASSUME NEW x \in DOMAIN t, NEW y \in DOMAIN t, i = Len(s) + x, j = Len(s) + y
      PROVE  (s \o t)[i] < (s \o t)[j]
  <2>1. Len(s) \in Nat /\ x \in Nat /\ y \in Nat /\ (s \o t)[i] = t[x] /\ (s \o t)[j] = t[y]
    BY <1>4, <1>0
  <2>2. x < y
    BY <1>4, <2>1
  <2> QED BY <2>1, <2>2 DEF Increasing
<1> QED BY <1>1, <1>2, <1>3, <1>4, <1>0

LEMMA JoinedInOrder ==
    ASSUME NEW s \in Seq(Seq(Nat)), NEW t \in Seq(Seq(Nat)), InOrder(s), InOrder(t),
           \A k \in DOMAIN t : \A y \in DOMAIN t[k] : Below(s, t[k][y])
    PROVE  InOrder(s \o t)
<1>0. /\ s \o t \in Seq(Seq(Nat)) /\ Len(s) \in Nat
      /\ \A x \in DOMAIN s : x \in DOMAIN (s \o t) /\ (s \o t)[x] = s[x] /\ x <= Len(s) /\ x \in Nat
      /\ \A y \in DOMAIN t : y \in Nat /\ y >= 1 /\ (s \o t)[Len(s) + y] = t[y]
      /\ \A z \in DOMAIN (s \o t) : z \in DOMAIN s \/ \E y \in DOMAIN t : z = Len(s) + y
  BY Joined, Z3
<1> SUFFICES ASSUME NEW i \in DOMAIN (s \o t), NEW j \in DOMAIN (s \o t),
                    NEW x \in DOMAIN (s \o t)[i], NEW y \in DOMAIN (s \o t)[j],
                    i < j \/ (i = j /\ x < y)
             PROVE  (s \o t)[i][x] < (s \o t)[j][y]
  BY DEF InOrder
<1>1. CASE i \in DOMAIN s /\ j \in DOMAIN s
  <2>1. (s \o t)[i] = s[i] /\ (s \o t)[j] = s[j]
    BY <1>1, <1>0
  <2> QED BY <1>1, <2>1 DEF InOrder
<1>2. ASSUME NEW b \in DOMAIN t, j = Len(s) + b, i \in DOMAIN s
      PROVE  (s \o t)[i][x] < (s \o t)[j][y]
  <2>1. (s \o t)[i] = s[i] /\ (s \o t)[j] = t[b]
    BY <1>2, <1>0
  <2> QED BY <1>2, <2>1 DEF Below
<1>3. ASSUME NEW a \in DOMAIN t, i = Len(s) + a, j \in DOMAIN s
      PROVE  FALSE
  <2>1. Len(s) \in Nat /\ a \in Nat /\ a >= 1 /\ j <= Len(s) /\ j \in Nat
    BY <1>3, <1>0
  <2>2. i \in Nat /\ j < i
    BY <1>3, <2>1
  <2>3. ~(i < j) /\ i # j
    BY <2>1, <2>2
  <2> QED BY <2>3
<1>4. ASSUME NEW a \in DOMAIN t, NEW b \in DOMAIN t, i = Len(s) + a, j = Len(s) + b
      PROVE  (s \o t)[i][x] < (s \o t)[j][y]
  <2>1. Len(s) \in Nat /\ a \in Nat /\ b \in Nat /\ (s \o t)[i] = t[a] /\ (s \o t)[j] = t[b]
    BY <1>4, <1>0
  <2>2. a < b \/ (a = b /\ x < y)
    <3>1. \A l, p, q \in Nat : (l + p < l + q => p < q) /\ (l + p = l + q => p = q)
      OBVIOUS
    <3> QED BY <1>4, <2>1, <3>1
  <2> QED BY <2>1, <2>2 DEF InOrder
<1> QED BY <1>1, <1>2, <1>3, <1>4, <1>0

LEMMA JoinedBelow ==
    ASSUME NEW s \in Seq(Seq(Nat)), NEW t \in Seq(Seq(Nat)), NEW byte, Below(s, byte), Below(t, byte)
    PROVE  Below(s \o t, byte)
<1>0. /\ s \o t \in Seq(Seq(Nat)) /\ Len(s) \in Nat
      /\ \A x \in DOMAIN s : x \in DOMAIN (s \o t) /\ (s \o t)[x] = s[x] /\ x <= Len(s) /\ x \in Nat
      /\ \A y \in DOMAIN t : y \in Nat /\ y >= 1 /\ (s \o t)[Len(s) + y] = t[y]
      /\ \A z \in DOMAIN (s \o t) : z \in DOMAIN s \/ \E y \in DOMAIN t : z = Len(s) + y
  BY Joined
<1> SUFFICES ASSUME NEW k \in DOMAIN (s \o t), NEW x \in DOMAIN (s \o t)[k]
             PROVE  (s \o t)[k][x] < byte
  BY DEF Below
<1>1. CASE k \in DOMAIN s
  BY <1>1, <1>0 DEF Below
<1>2. ASSUME NEW y \in DOMAIN t, k = Len(s) + y
      PROVE  (s \o t)[k][x] < byte
  BY <1>2, <1>0 DEF Below
<1> QED BY <1>1, <1>2, <1>0

LEMMA JoinedAllBelow ==
    ASSUME NEW s \in Seq(Nat), NEW t \in Seq(Nat), NEW byte, AllBelow(s, byte), AllBelow(t, byte)
    PROVE  AllBelow(s \o t, byte)
<1>1. /\ s \o t \in Seq(Nat) /\ Len(s) \in Nat
      /\ \A x \in DOMAIN s : x \in DOMAIN (s \o t) /\ (s \o t)[x] = s[x] /\ x <= Len(s) /\ x \in Nat
      /\ \A y \in DOMAIN t : y \in Nat /\ y >= 1 /\ (s \o t)[Len(s) + y] = t[y]
      /\ \A z \in DOMAIN (s \o t) : z \in DOMAIN s \/ \E y \in DOMAIN t : z = Len(s) + y
  BY Joined
<1> QED BY <1>1 DEF AllBelow

-----------------------------------------------------------------------------
LEMMA ReadKeeps ==
    ASSUME FollowInv, Read
    PROVE  FollowInv'
<1>1. /\ UNCHANGED <<files, path, writer, next, tpc, handle, leftover, delivered>>
      /\ tpc = "read" /\ handle \in DOMAIN files
      /\ files \in Seq(Seq(Nat)) /\ next \in Nat /\ offset \in Nat /\ offset < Len(files[handle])
      /\ leftover \in Seq(Nat) /\ raw \in Seq(Nat) /\ delivered \in Seq(Seq(Nat))
      /\ offset' = ReadEnd
  BY DEF Read, logVars, tailHistory, FollowInv, LogInv, TailInv, NoFile
<1>2. PICK bytes \in Seq(Nat), a \in Nat, b \in Nat :
          bytes = files[handle] /\ a = offset /\ b = ReadEnd /\ a < b /\ b <= Len(bytes)
  <2>1. BufferSize \in Nat /\ BufferSize > 0 /\ files[handle] \in Seq(Nat) /\ Len(files[handle]) \in Nat
    BY <1>1, TailerAssumption
  <2>2. ReadEnd \in Nat /\ offset < ReadEnd /\ ReadEnd <= Len(files[handle])
    BY <1>1, <2>1 DEF ReadEnd
  <2> QED BY <1>1, <2>1, <2>2
<1>3. DOMAIN bytes = 1 .. Len(bytes) /\ Len(bytes) \in Nat /\ \A i \in DOMAIN bytes : bytes[i] \in Nat
  OBVIOUS
<1>4. PICK piece \in Seq(Nat) :
          /\ piece = SubSeq(bytes, a + 1, b) /\ DOMAIN piece = 1 .. b - a
          /\ \A x \in DOMAIN piece : a + x \in DOMAIN bytes /\ piece[x] = bytes[a + x]
  <2>1. a <= b
    BY <1>2
  <2>2. /\ SubSeq(bytes, a + 1, b) \in Seq(Nat) /\ DOMAIN SubSeq(bytes, a + 1, b) = 1 .. b - a
        /\ \A x \in 1 .. b - a : a + x \in DOMAIN bytes /\ SubSeq(bytes, a + 1, b)[x] = bytes[a + x]
    BY <1>2, <2>1, PartOf
  <2> QED BY <2>2
<1>5. raw' = raw \o piece /\ raw' \in Seq(Nat)
  BY <1>1, <1>2, <1>4 DEF Read
<1>6. Pending \in Seq(Nat) /\ Pending' = Pending \o piece
  <2>1. leftover \o (raw \o piece) = (leftover \o raw) \o piece
    <3>1. leftover \in Seq(Nat) /\ raw \in Seq(Nat) /\ piece \in Seq(Nat)
      BY <1>1
    <3> QED BY <3>1, Z3
  <2>2. leftover \o raw \in Seq(Nat)
    BY <1>1
  <2> QED BY <1>1, <1>5, <2>1, <2>2 DEF Pending
<1>7. Increasing(bytes) /\ AllBelow(bytes, next)
  BY <1>1, <1>2 DEF FollowInv, LogInv
<1>8. \A x \in DOMAIN piece : Behind(piece[x])
  <2> TAKE x \in DOMAIN piece
  <2>1. a + x > offset
    BY <1>2, <1>4
  <2> QED BY <1>1, <1>2, <1>4, <2>1 DEF FollowInv, OrderInv, Unread
<1>9. LogInv'
  BY <1>1 DEF FollowInv, LogInv
<1>10. TailInv'
  BY <1>1, <1>2, <1>5 DEF FollowInv, TailInv
<1>11. Increasing(Pending')
  <2>1. Increasing(piece)
    <3>1. \A x, y \in 1 .. b - a : x < y => a + x < a + y
      OBVIOUS
    <3> QED BY <1>4, <1>7, <3>1 DEF Increasing
  <2>2. Increasing(Pending) /\ \A y \in DOMAIN piece : AllBelow(Pending, piece[y])
    BY <1>8 DEF FollowInv, OrderInv, Behind
  <2> QED BY <1>6, <2>1, <2>2, JoinedIncreasing
<1>12. \A y \in DOMAIN Pending' : Below(delivered, Pending'[y])
  <2>1. /\ \A y \in DOMAIN Pending : Below(delivered, Pending[y])
        /\ \A y \in DOMAIN piece : Below(delivered, piece[y])
    BY <1>8 DEF FollowInv, OrderInv, Behind
  <2> QED BY <1>6, <2>1, Joined
<1>13. ASSUME NEW byte, Behind(byte), AllBelow(piece, byte)
       PROVE  Behind(byte)'
  BY <1>1, <1>6, <1>13, JoinedAllBelow DEF Behind
<1>14. Behind(next)'
  <2>1. AllBelow(piece, next)
    BY <1>4, <1>7 DEF AllBelow
  <2>2. Behind(next)
    BY DEF FollowInv, OrderInv
  <2> QED BY <1>1, <1>13, <2>1, <2>2
<1>15. ASSUME NEW f \in DOMAIN files, NEW i \in DOMAIN files[f], Unread(f, i)'
       PROVE  Behind(files[f][i])'
  <2>1. Unread(f, i) /\ (f > handle \/ (f = handle /\ i > b))
    <3>1. f > handle \/ (f = handle /\ (i > b \/ Len(bytes) < b))
      BY <1>1, <1>2, <1>15 DEF Unread
    <3>2. ~(Len(bytes) < b)
      BY <1>2, <1>3
    <3>3. f = handle => i \in Nat
      BY <1>2, <1>3
    <3>4. f = handle /\ i > b => i > offset
      BY <1>2, <3>3
    <3> QED BY <3>1, <3>2, <3>4 DEF Unread
  <2>2. AllBelow(piece, files[f][i])
    <3>1. CASE f > handle
      <4>1. AllBelow(bytes, files[f][i])
        BY <1>1, <1>2, <3>1 DEF FollowInv, LogInv
      <4> QED BY <1>4, <4>1 DEF AllBelow
    <3>2. CASE f = handle /\ i > b
      <4>1. \A x \in 1 .. b - a : a + x < i
        BY <1>2, <1>3, <3>2
      <4> QED BY <1>2, <1>4, <1>7, <3>2, <4>1 DEF AllBelow, Increasing
    <3> QED BY <2>1, <3>1, <3>2
  <2>3. Behind(files[f][i])
    BY <2>1 DEF FollowInv, OrderInv
  <2> QED BY <1>1, <1>13, <2>2, <2>3
<1> QED BY <1>1, <1>9, <1>10, <1>11, <1>12, <1>14, <1>15 DEF FollowInv, OrderInv
\* What is handed over was pending, and so was what remains.
LEMMA ReturnKeeps ==
    ASSUME FollowInv, Return
    PROVE  FollowInv'
<1>1. /\ UNCHANGED <<files, path, writer, next, handle, offset>>
      /\ tpc = "read" /\ tpc' = "idle" /\ raw' = <<>> /\ handle # NoFile /\ handle \in 0 .. Len(files)
      /\ offset \in Nat /\ leftover \in Seq(Nat) /\ raw \in Seq(Nat) /\ delivered \in Seq(Seq(Nat))
      /\ leftover' = PartialLine(Pending) /\ delivered' = delivered \o Lines(Pending)
  BY DEF Return, logVars, FollowInv, LogInv, TailInv, Pending
<1>2. Pending \in Seq(Nat) /\ Increasing(Pending)
  BY <1>1 DEF FollowInv, OrderInv, Pending
<1>3. PICK lines \in Seq(Seq(Nat)), rest \in Seq(Nat) :
          /\ lines = Lines(Pending) /\ rest = PartialLine(Pending) /\ Increasing(rest)
          /\ \A k \in DOMAIN lines : \A x \in DOMAIN lines[k] :
                \E i \in DOMAIN Pending : lines[k][x] = Pending[i]
          /\ \A x \in DOMAIN rest : \E i \in DOMAIN Pending : rest[x] = Pending[i]
          /\ InOrder(lines)
          /\ \A y \in DOMAIN rest : Below(lines, rest[y])
  <2>1. InOrder(Lines(Pending)) /\ \A y \in DOMAIN PartialLine(Pending) : Below(Lines(Pending), PartialLine(Pending)[y])
    BY <1>2, LinesInOrder DEF InOrder, Below
  <2> QED BY <1>2, <2>1, LinesInOrder
<1>4. Pending' = rest
  BY <1>1, <1>3 DEF Pending
<1>5. delivered' = delivered \o lines /\ delivered' \in Seq(Seq(Nat))
  BY <1>1, <1>3
<1>6. LogInv'
  BY <1>1 DEF FollowInv, LogInv
<1>7. TailInv'
  BY <1>1, <1>3, <1>5 DEF FollowInv, TailInv
<1>8. \A y \in DOMAIN Pending : Below(delivered, Pending[y])
  BY DEF FollowInv, OrderInv
<1>9. InOrder(delivered')
  <2>1. InOrder(delivered)
    BY DEF FollowInv, OrderInv
  <2>2. \A k \in DOMAIN lines : \A y \in DOMAIN lines[k] : Below(delivered, lines[k][y])
    BY <1>3, <1>8
  <2> QED BY <1>1, <1>3, <1>5, <2>1, <2>2, JoinedInOrder
<1>10. ASSUME NEW y \in DOMAIN rest
       PROVE  Below(delivered', rest[y])
  <2>1. Below(delivered, rest[y]) /\ Below(lines, rest[y])
    BY <1>3, <1>8
  <2> QED BY <1>1, <1>5, <2>1, JoinedBelow
<1>11. ASSUME NEW byte, Behind(byte)
       PROVE  Behind(byte)'
  <2>1. Below(delivered, byte) /\ AllBelow(Pending, byte)
    BY <1>11 DEF Behind
  <2>2. Below(lines, byte) /\ AllBelow(rest, byte)
    BY <1>3, <2>1 DEF Below, AllBelow
  <2>3. Below(delivered', byte)
    BY <1>1, <1>5, <2>1, <2>2, JoinedBelow
  <2> QED BY <1>4, <2>2, <2>3 DEF Behind
<1>12. \A f \in DOMAIN files : \A i \in DOMAIN files[f] : Unread(f, i)' => Behind(files[f][i])'
  <2> SUFFICES ASSUME NEW f \in DOMAIN files, NEW i \in DOMAIN files[f], Unread(f, i)'
               PROVE  Behind(files[f][i])'
    OBVIOUS
  <2>1. Unread(f, i)
    BY <1>1 DEF Unread
  <2>2. Behind(files[f][i])
    BY <2>1 DEF FollowInv, OrderInv
  <2> QED BY <1>1, <1>11, <2>2
<1>13. Behind(next)'
  BY <1>1, <1>11 DEF FollowInv, OrderInv
<1> QED BY <1>1, <1>3, <1>4, <1>6, <1>7, <1>9, <1>10, <1>12, <1>13 DEF FollowInv, OrderInv

\* A call begins, a system call fails, or the tailer rests.
LEMMA OthersKeep ==
    ASSUME FollowInv,
           UNCHANGED <<handle, offset, leftover, raw, delivered, logVars>>,
           \/ tpc = "idle" /\ tpc' = "stat"
           \/ tpc' \in {tpc, "failed"}
    PROVE  FollowInv'
<1>1. UNCHANGED <<files, path, writer, next, handle, offset, leftover, raw, delivered>>
  BY DEF logVars
<1>2. LogInv'
  BY <1>1 DEF FollowInv, LogInv
<1>3. TailInv'
  BY <1>1 DEF FollowInv, TailInv
<1>4. Pending' = Pending /\ \A f \in DOMAIN files : \A i \in DOMAIN files[f] : Unread(f, i)' => Unread(f, i)
  BY <1>1 DEF Pending, Unread
<1> QED BY <1>1, <1>2, <1>3, <1>4, OrderStays DEF FollowInv

LEMMA FollowStarts ==
    ASSUME LogInit, TailInit
    PROVE  FollowInv
<1>1. /\ files = <<<<>>>> /\ path = 1 /\ writer = 1 /\ next = 0
      /\ tpc = "open" /\ handle = 0 /\ offset = 0 /\ leftover = <<>> /\ raw = <<>> /\ delivered = <<>>
  BY DEF LogInit, TailInit, NoFile
<1>2. files \in Seq(Seq(Nat)) /\ Len(files) = 1 /\ DOMAIN files = {1} /\ files[1] = <<>> /\ DOMAIN files[1] = {}
  BY <1>1
<1>3. LogInv
  BY <1>1, <1>2 DEF LogInv, Increasing, AllBelow, NoFile
<1>4. <<>> \in Seq(Nat) /\ <<>> \in Seq(Seq(Nat)) /\ DOMAIN <<>> = {} /\ <<>> \o <<>> = <<>>
  OBVIOUS
<1>5. TailInv
  BY <1>1, <1>2, <1>4 DEF TailInv, NoFile
<1>6. Pending = <<>> /\ DOMAIN delivered = {} /\ DOMAIN Pending = {}
  BY <1>1, <1>4 DEF Pending
<1>7. OrderInv
  BY <1>2, <1>6 DEF OrderInv, InOrder, Increasing, Behind, Below, AllBelow
<1> QED BY <1>3, <1>5, <1>7 DEF FollowInv

LEMMA TailKeeps ==
    ASSUME FollowInv, TailStep
    PROVE  FollowInv'
<1>1. ASSUME IoError PROVE FollowInv'
  BY <1>1, OthersKeep DEF IoError, tailHistory
<1> QED BY <1>1, OpenKeeps, SeekKeeps, StatKeeps, RotationKeeps, ReadKeeps, ReturnKeeps DEF TailStep

-----------------------------------------------------------------------------
(* The theorems. *)

\* What the tailer has handed over, what it holds and what it has still to
\* read are in the order of writing, wherever its calls, the logger and the
\* rotations are.
THEOREM TailerInvariant == Spec => []FollowInv
<1>1. Init => FollowInv
  BY FollowStarts DEF Init
<1>2. FollowInv /\ [Next]_vars => FollowInv'
  <2> SUFFICES ASSUME FollowInv, [Next]_vars PROVE FollowInv'
    OBVIOUS
  <2>1. CASE Call /\ UNCHANGED <<tailHistory, logVars>>
    BY <2>1, OthersKeep DEF Call, tailHistory
  <2>2. CASE TailStep
    BY <2>2, TailKeeps
  <2>3. CASE LogStep /\ UNCHANGED <<tailVars, tailHistory>>
    BY <2>3, LogKeeps
  <2>4. CASE UNCHANGED vars
    BY <2>4, OthersKeep DEF vars, tailVars, tailHistory
  <2> QED BY <2>1, <2>2, <2>3, <2>4 DEF Next
<1> QED BY <1>1, <1>2, PTL DEF Spec

\* The loop that follows does nothing to the tailer but call it.
THEOREM FollowInvariant == WatchSpec => []FollowInv
<1>1. WatchInit => FollowInv
  BY FollowStarts DEF WatchInit
<1>2. FollowInv /\ [WatchNext]_allVars => FollowInv'
  <2> SUFFICES ASSUME FollowInv, [WatchNext]_allVars PROVE FollowInv'
    OBVIOUS
  <2>1. CASE TailUnchanged
    BY <2>1, OthersKeep DEF TailUnchanged, tailVars, tailHistory
  <2>2. CASE Receive
    BY <2>2, OthersKeep DEF Receive, Call, tailHistory
  <2>3. CASE TailerRuns
    <3>1. TailStep
      BY <2>3 DEF TailerRuns, TailStep
    <3> QED BY <3>1, TailKeeps
  <2>4. CASE LogRuns
    BY <2>4, LogKeeps DEF LogRuns
  <2>5. CASE UNCHANGED allVars
    BY <2>5, <2>1 DEF allVars, TailUnchanged
  <2>6. ASSUME \/ SetUp \/ Top \/ Parse \/ ReadFails \/ StoreChunk \/ Disconnected \/ StoreFails
               \/ Notify \/ CtrlC \/ Killed
        PROVE  TailUnchanged
    BY <2>6 DEF SetUp, Top, Parse, ReadFails, StoreChunk, Disconnected, StoreFails, Notify, CtrlC, Killed
  <2> QED BY <2>1, <2>2, <2>3, <2>4, <2>5, <2>6 DEF WatchNext, LoopStep
<1> QED BY <1>1, <1>2, PTL DEF WatchSpec

\* No byte of the log is handed over twice or out of order by the tailer,
\* whoever calls it.
THEOREM TailerInOrderOnce == Spec => []InOrderOnce
<1>1. FollowInv => InOrderOnce
  BY DEF FollowInv, OrderInv, InOrder, InOrderOnce
<1> QED BY <1>1, TailerInvariant, PTL

\* Nor does `ingest --follow` ever see one twice or out of order, up to its
\* end or its death.
THEOREM FollowInOrderOnce == WatchSpec => []InOrderOnce
<1>1. FollowInv => InOrderOnce
  BY DEF FollowInv, OrderInv, InOrder, InOrderOnce
<1> QED BY <1>1, FollowInvariant, PTL
-----------------------------------------------------------------------------
(* Splitting in one go and in several. *)

LEMMA LineEndUnique ==
    ASSUME NEW bytes \in Seq(Nat), NEW n \in 0 .. Len(bytes), NEW k, k = Count(bytes, n),
           n = 0 \/ IsNewline(bytes[n])
    PROVE  k \in 0 .. LineCount(bytes) /\ LineEnd(bytes, k) = n
<1>1. Len(bytes) \in Nat /\ n \in Nat /\ n <= Len(bytes)
  OBVIOUS
<1>2. k \in Nat /\ LineCount(bytes) \in Nat /\ LineCount(bytes) = Count(bytes, Len(bytes))
  BY <1>1, CountType DEF LineCount, Count
<1>3. k <= LineCount(bytes)
  BY <1>1, <1>2, CountGrows
<1>4. k \in 0 .. LineCount(bytes)
  BY <1>2, <1>3
<1>5. PICK e \in Nat :
          /\ e = LineEnd(bytes, k) /\ Count(bytes, e) = k
          /\ e = 0 \/ IsNewline(bytes[e])
  BY <1>1, <1>4, LineEndExists
<1>6. ASSUME NEW a \in Nat, NEW b \in Nat, a < b, IsNewline(bytes[b]), Count(bytes, a) = k, Count(bytes, b) = k
      PROVE  FALSE
  <2>1. PICK m \in Nat : b = m + 1 /\ a <= m
    <3>1. b - 1 \in Nat /\ b = (b - 1) + 1 /\ a <= b - 1
      BY <1>6
    <3> QED BY <3>1
  <2>2. Count(bytes, m + 1) = Count(bytes, m) + 1
    BY <1>6, <2>1, CountNext
  <2>3. Count(bytes, a) <= Count(bytes, m) /\ Count(bytes, m) \in Nat
    BY <2>1, CountGrows, CountType
  <2> QED BY <1>2, <1>6, <2>1, <2>2, <2>3
<1>7. ~(e < n)
  <2> SUFFICES ASSUME e < n PROVE FALSE
    OBVIOUS
  <2>1. IsNewline(bytes[n])
    BY <1>1, <1>5
  <2> QED BY <1>1, <1>5, <1>6, <2>1
<1>8. ~(n < e)
  <2> SUFFICES ASSUME n < e PROVE FALSE
    OBVIOUS
  <2>1. IsNewline(bytes[e])
    BY <1>1, <1>5
  <2> QED BY <1>1, <1>5, <1>6, <2>1
<1>9. e = n
  BY <1>1, <1>5, <1>7, <1>8
<1> QED BY <1>4, <1>5, <1>9

LEMMA CountJoined ==
    ASSUME NEW s \in Seq(Nat), NEW t \in Seq(Nat)
    PROVE  /\ \A i \in 0 .. Len(s) : Count(s \o t, i) = Count(s, i)
           /\ \A j \in 0 .. Len(t) : Count(s \o t, Len(s) + j) = LineCount(s) + Count(t, j)
           /\ LineCount(s \o t) = LineCount(s) + LineCount(t)
<1>1. PICK m \in Nat, n \in Nat : m = Len(s) /\ n = Len(t)
  OBVIOUS
<1>2. /\ \A i \in 1 .. m : (s \o t)[i] = s[i]
      /\ \A j \in 1 .. n : (s \o t)[m + j] = t[j]
      /\ s \o t \in Seq(Nat) /\ Len(s \o t) = m + n
  BY <1>1
<1>3. \A i \in 0 .. m : Count(s \o t, i) = Count(s, i)
  <2> TAKE i \in 0 .. m
  <2>1. \A x \in 1 .. i : x \in 1 .. m
    OBVIOUS
  <2>2. Newlines(s \o t, i) = Newlines(s, i)
    BY <1>2, <2>1 DEF Newlines
  <2> QED BY <2>2 DEF Count
<1>4. ASSUME NEW j \in 0 .. n
      PROVE  Count(s \o t, m + j) = Count(s, m) + Count(t, j)
  <2> DEFINE Before == Newlines(s, m)
             After == Newlines(t, j)
             Moved == {m + i : i \in After}
             move == [i \in After |-> m + i]
  <2>1. After \subseteq 1 .. j /\ Before \subseteq 1 .. m /\ j \in Nat /\ j <= n
    BY DEF Newlines
  <2>2. Newlines(s \o t, m + j) = Before \cup Moved
    <3>1. ASSUME NEW x \in 1 .. m + j
          PROVE  x \in 1 .. m \/ (x - m \in 1 .. j /\ x = m + (x - m))
      BY <2>1
    <3>2. Newlines(s \o t, m + j) \subseteq Before \cup Moved
      <4> SUFFICES ASSUME NEW x \in 1 .. m + j, IsNewline((s \o t)[x])
                   PROVE  x \in Before \cup Moved
        BY DEF Newlines
      <4>1. CASE x \in 1 .. m
        BY <1>2, <4>1 DEF Newlines
      <4>2. CASE x - m \in 1 .. j /\ x = m + (x - m)
        <5>1. PICK y \in 1 .. j : x = m + y
          BY <4>2
        <5>2. y \in 1 .. n
          BY <2>1
        <5>3. IsNewline(t[y])
          BY <1>2, <5>1, <5>2
        <5> QED BY <5>1, <5>3 DEF Newlines
      <4> QED BY <3>1, <4>1, <4>2
    <3>3. Before \subseteq Newlines(s \o t, m + j)
      <4>1. \A x \in 1 .. m : x \in 1 .. m + j
        BY <2>1
      <4> QED BY <1>2, <4>1 DEF Newlines
    <3>4. Moved \subseteq Newlines(s \o t, m + j)
      <4>1. \A i \in 1 .. j : m + i \in 1 .. m + j /\ i \in 1 .. n
        BY <2>1
      <4> QED BY <1>2, <4>1 DEF Newlines
    <3> QED BY <3>2, <3>3, <3>4
  <2>3. Before \cap Moved = {}
    BY <2>1
  <2>4. IsFiniteSet(Before) /\ IsFiniteSet(After) /\ Cardinality(Before) \in Nat /\ Cardinality(After) \in Nat
    BY <2>1, CountType DEF Count
  <2>5. IsFiniteSet(Moved) /\ Cardinality(Moved) = Cardinality(After)
    <3>1. move \in Bijection(After, Moved)
      <4>1. \A x, y \in After : m + x = m + y => x = y
        BY <2>1
      <4> QED BY <4>1 DEF Bijection, Injection, Surjection, IsInjective
    <3>2. ExistsBijection(After, Moved)
      BY <3>1 DEF ExistsBijection
    <3> QED BY <2>4, <3>2, FS_Bijection
  <2>6. Cardinality(Before \cup Moved) = Cardinality(Before) + Cardinality(Moved) - Cardinality({})
    <3> HIDE DEF Before, After, Moved
    <3>1. Cardinality(Before \cup Moved)
            = Cardinality(Before) + Cardinality(Moved) - Cardinality(Before \cap Moved)
      BY <2>4, <2>5, FS_Union
    <3> QED BY <2>3, <3>1
  <2>7. Cardinality({}) = 0
    BY FS_EmptySet
  <2>8. Count(s \o t, m + j) = Cardinality(Before \cup Moved)
    BY <2>2 DEF Count
  <2>9. Count(s, m) = Cardinality(Before) /\ Count(t, j) = Cardinality(After)
    BY DEF Count
  <2> HIDE DEF Before, After, Moved
  <2> QED BY <2>4, <2>5, <2>6, <2>7, <2>8, <2>9
<1>5. LineCount(s) = Count(s, m) /\ LineCount(t) = Count(t, n) /\ LineCount(s \o t) = Count(s \o t, m + n)
  BY <1>1, <1>2 DEF LineCount, Count
<1>6. n \in 0 .. n
  OBVIOUS
<1> QED BY <1>1, <1>3, <1>4, <1>5, <1>6
\* A part of one of two joined sequences is that part of the whole.
LEMMA PartOfJoined ==
    ASSUME NEW s \in Seq(Nat), NEW t \in Seq(Nat), NEW a \in Nat, NEW b \in Nat, a <= b
    PROVE  /\ b <= Len(s) => SubSeq(s \o t, a + 1, b) = SubSeq(s, a + 1, b)
           /\ b <= Len(t) => SubSeq(s \o t, Len(s) + a + 1, Len(s) + b) = SubSeq(t, a + 1, b)
<1>1. PICK m \in Nat, n \in Nat : m = Len(s) /\ n = Len(t)
  OBVIOUS
<1>2. /\ \A i \in 1 .. m : (s \o t)[i] = s[i]
      /\ \A j \in 1 .. n : (s \o t)[m + j] = t[j]
      /\ s \o t \in Seq(Nat) /\ Len(s \o t) = m + n
  BY <1>1
<1>3. PICK c \in Nat : b = a + c
  <2>1. b - a \in Nat /\ b = a + (b - a)
    OBVIOUS
  <2> QED BY <2>1
<1>4. ASSUME NEW u \in Seq(Nat), NEW d \in Nat, d + c <= Len(u)
      PROVE  /\ SubSeq(u, d + 1, d + c) \in Seq(Nat) /\ Len(SubSeq(u, d + 1, d + c)) = c
             /\ \A x \in 1 .. c : SubSeq(u, d + 1, d + c)[x] = u[d + x]
  <2>1. PICK e \in Nat : e = d + c /\ d <= e /\ e - d = c /\ e <= Len(u)
    <3>1. d + c \in Nat /\ d <= d + c /\ (d + c) - d = c
      OBVIOUS
    <3> QED BY <1>4, <3>1
  <2>2. \A i \in d + 1 .. e : u[i] \in Nat
    BY <2>1
  <2>3. /\ SubSeq(u, d + 1, e) \in Seq(Nat) /\ Len(SubSeq(u, d + 1, e)) = e - d
        /\ \A x \in 1 .. e - d : SubSeq(u, d + 1, e)[x] = u[d + x]
    BY <2>1, <2>2
  <2> QED BY <2>1, <2>3
<1>5. ASSUME b <= m
      PROVE  SubSeq(s \o t, a + 1, b) = SubSeq(s, a + 1, b)
  <2>1. a + c <= Len(s) /\ a + c <= Len(s \o t)
    BY <1>1, <1>2, <1>3, <1>5
  <2>2. \A x \in 1 .. c : a + x \in 1 .. m
    BY <1>3, <1>5
  <2>3. \A x \in 1 .. c : SubSeq(s \o t, a + 1, a + c)[x] = SubSeq(s, a + 1, a + c)[x]
    BY <1>2, <1>4, <2>1, <2>2
  <2>4. /\ SubSeq(s \o t, a + 1, a + c) \in Seq(Nat) /\ Len(SubSeq(s \o t, a + 1, a + c)) = c
        /\ SubSeq(s, a + 1, a + c) \in Seq(Nat) /\ Len(SubSeq(s, a + 1, a + c)) = c
    BY <1>2, <1>4, <2>1
  <2>5. SubSeq(s \o t, a + 1, a + c) = SubSeq(s, a + 1, a + c)
    BY <2>3, <2>4, SeqEqual
  <2> QED BY <1>3, <2>5
<1>6. ASSUME b <= n
      PROVE  SubSeq(s \o t, m + a + 1, m + b) = SubSeq(t, a + 1, b)
  <2>1. PICK d \in Nat : d = m + a /\ d + c = m + b /\ d + c <= Len(s \o t) /\ a + c <= Len(t)
    <3>1. m + a \in Nat /\ (m + a) + c = m + b /\ m + b <= m + n
      BY <1>3, <1>6
    <3> QED BY <1>1, <1>2, <1>3, <1>6, <3>1
  <2>2. \A x \in 1 .. c : a + x \in 1 .. n /\ d + x = m + (a + x)
    BY <1>3, <1>6, <2>1
  <2>3. \A x \in 1 .. c : SubSeq(s \o t, d + 1, d + c)[x] = SubSeq(t, a + 1, a + c)[x]
    <3>1. \A x \in 1 .. c : SubSeq(s \o t, d + 1, d + c)[x] = (s \o t)[d + x]
      BY <1>2, <1>4, <2>1
    <3>2. \A x \in 1 .. c : SubSeq(t, a + 1, a + c)[x] = t[a + x]
      BY <1>4, <2>1
    <3>3. \A x \in 1 .. c : (s \o t)[d + x] = t[a + x]
      BY <1>2, <2>2
    <3> QED BY <3>1, <3>2, <3>3
  <2>4. /\ SubSeq(s \o t, d + 1, d + c) \in Seq(Nat) /\ Len(SubSeq(s \o t, d + 1, d + c)) = c
        /\ SubSeq(t, a + 1, a + c) \in Seq(Nat) /\ Len(SubSeq(t, a + 1, a + c)) = c
    BY <1>2, <1>4, <2>1
  <2>5. SubSeq(s \o t, d + 1, d + c) = SubSeq(t, a + 1, a + c)
    BY <2>3, <2>4, SeqEqual
  <2> QED BY <1>3, <2>1, <2>5
<1> QED BY <1>1, <1>5, <1>6

LEMMA JoinedSequences ==
    ASSUME NEW S, NEW u \in Seq(S), NEW v \in Seq(S)
    PROVE  /\ u \o v \in Seq(S) /\ Len(u \o v) = Len(u) + Len(v)
           /\ \A i \in 1 .. Len(u) : (u \o v)[i] = u[i]
           /\ \A i \in 1 .. Len(v) : (u \o v)[Len(u) + i] = v[i]
OBVIOUS

LEMMA CutOut ==
    ASSUME NEW S, NEW u \in Seq(S), NEW i \in Nat, NEW n \in Nat, i + n <= Len(u)
    PROVE  /\ SubSeq(u, i + 1, i + n) \in Seq(S) /\ Len(SubSeq(u, i + 1, i + n)) = n
           /\ \A x \in 1 .. n : SubSeq(u, i + 1, i + n)[x] = u[i + x]
<1>1. PICK e \in Nat : e = i + n /\ i <= e /\ e - i = n /\ e <= Len(u)
  <2>1. i + n \in Nat /\ i <= i + n /\ (i + n) - i = n
    OBVIOUS
  <2> QED BY <2>1
<1>2. \A x \in i + 1 .. e : u[x] \in S
  BY <1>1
<1>3. /\ SubSeq(u, i + 1, e) \in Seq(S) /\ Len(SubSeq(u, i + 1, e)) = e - i
      /\ \A x \in 1 .. e - i : SubSeq(u, i + 1, e)[x] = u[i + x]
  BY <1>1, <1>2
<1> QED BY <1>1, <1>3

LEMMA CutInTwo ==
    ASSUME NEW S, NEW u \in Seq(S), NEW p \in Nat, NEW a \in Nat, NEW b \in Nat,
           p <= a, a <= b, b <= Len(u)
    PROVE  SubSeq(u, p + 1, b) = SubSeq(u, p + 1, a) \o SubSeq(u, a + 1, b)
<1>1. PICK c \in Nat, d \in Nat : a = p + c /\ b = a + d /\ b = p + (c + d)
  <2>1. a - p \in Nat /\ b - a \in Nat /\ a = p + (a - p) /\ b = a + (b - a) /\ b = p + ((a - p) + (b - a))
    OBVIOUS
  <2> QED BY <2>1
<1>3. PICK v \in Seq(S) :
          /\ v = SubSeq(u, p + 1, a) /\ Len(v) = c
          /\ \A x \in 1 .. c : v[x] = u[p + x]
  <2>1. p + c <= Len(u)
    BY <1>1
  <2>2. /\ SubSeq(u, p + 1, p + c) \in Seq(S) /\ Len(SubSeq(u, p + 1, p + c)) = c
        /\ \A x \in 1 .. c : SubSeq(u, p + 1, p + c)[x] = u[p + x]
    BY <2>1, CutOut
  <2> QED BY <1>1, <2>2
<1>4. PICK w \in Seq(S) :
          /\ w = SubSeq(u, a + 1, b) /\ Len(w) = d
          /\ \A x \in 1 .. d : w[x] = u[a + x]
  <2>1. a + d <= Len(u)
    BY <1>1
  <2>2. /\ SubSeq(u, a + 1, a + d) \in Seq(S) /\ Len(SubSeq(u, a + 1, a + d)) = d
        /\ \A x \in 1 .. d : SubSeq(u, a + 1, a + d)[x] = u[a + x]
    BY <2>1, CutOut
  <2> QED BY <1>1, <2>2
<1>5. PICK z \in Seq(S) :
          /\ z = SubSeq(u, p + 1, b) /\ Len(z) = c + d
          /\ \A x \in 1 .. c + d : z[x] = u[p + x]
  <2>1. c + d \in Nat /\ p + (c + d) <= Len(u)
    BY <1>1
  <2>2. /\ SubSeq(u, p + 1, p + (c + d)) \in Seq(S) /\ Len(SubSeq(u, p + 1, p + (c + d))) = c + d
        /\ \A x \in 1 .. c + d : SubSeq(u, p + 1, p + (c + d))[x] = u[p + x]
    BY <2>1, CutOut
  <2> QED BY <1>1, <2>2
<1>6. /\ v \o w \in Seq(S) /\ Len(v \o w) = c + d
      /\ \A x \in 1 .. c : (v \o w)[x] = v[x]
      /\ \A x \in 1 .. d : (v \o w)[c + x] = w[x]
  <2>1. /\ v \o w \in Seq(S) /\ Len(v \o w) = Len(v) + Len(w)
        /\ \A x \in 1 .. Len(v) : (v \o w)[x] = v[x]
        /\ \A x \in 1 .. Len(w) : (v \o w)[Len(v) + x] = w[x]
    BY JoinedSequences
  <2> QED BY <1>3, <1>4, <2>1
<1>7. \A x \in 1 .. c + d : x \in 1 .. c \/ \E y \in 1 .. d : x = c + y /\ p + x = a + y
  <2>1. \A x \in 1 .. c + d : x \in 1 .. c \/ (x - c \in 1 .. d /\ x = c + (x - c) /\ p + x = a + (x - c))
    BY <1>1
  <2> QED BY <2>1
<1>8. \A x \in 1 .. c + d : z[x] = (v \o w)[x]
  <2> TAKE x \in 1 .. c + d
  <2>1. z[x] = u[p + x]
    BY <1>5
  <2>2. CASE x \in 1 .. c
    <3>1. v[x] = u[p + x] /\ (v \o w)[x] = v[x]
      BY <1>3, <1>6, <2>2
    <3> QED BY <2>1, <3>1
  <2>3. ASSUME NEW y \in 1 .. d, x = c + y, p + x = a + y
        PROVE  z[x] = (v \o w)[x]
    <3>1. w[y] = u[a + y] /\ (v \o w)[c + y] = w[y]
      BY <1>4, <1>6
    <3> QED BY <2>1, <2>3, <3>1
  <2> QED BY <1>7, <2>2, <2>3
<1>9. z = v \o w
  BY <1>5, <1>6, <1>8, SeqEqual
<1> QED BY <1>3, <1>4, <1>5, <1>9

LEMMA CutBytes ==
    ASSUME NEW u \in Seq(Nat), NEW p \in Nat, NEW a \in Nat, NEW b \in Nat,
           p <= a, a <= b, b <= Len(u)
    PROVE  SubSeq(u, p + 1, b) = SubSeq(u, p + 1, a) \o SubSeq(u, a + 1, b)
BY CutInTwo

LEMMA CutFront ==
    ASSUME NEW u \in Seq(Nat), NEW a \in 0 .. Len(u)
    PROVE  u = SubSeq(u, 1, a) \o SubSeq(u, a + 1, Len(u))
<1>1. a \in Nat /\ Len(u) \in Nat /\ 0 <= a /\ a <= Len(u) /\ Len(u) <= Len(u)
  OBVIOUS
<1>2. \A b \in Nat : b <= Len(u) /\ a <= b
         => SubSeq(u, 0 + 1, b) = SubSeq(u, 0 + 1, a) \o SubSeq(u, a + 1, b)
  BY <1>1, CutBytes
<1>3. SubSeq(u, 0 + 1, Len(u)) = SubSeq(u, 0 + 1, a) \o SubSeq(u, a + 1, Len(u))
  BY <1>1, <1>2
<1>4. SubSeq(u, 1, Len(u)) = u /\ 0 + 1 = 1
  OBVIOUS
<1> QED BY <1>3, <1>4

LEMMA LinesAreSequences ==
    ASSUME NEW bytes \in Seq(Nat)
    PROVE  /\ Lines(bytes) \in Seq(Seq(Nat)) /\ PartialLine(bytes) \in Seq(Nat)
           /\ \A k \in 1 .. LineCount(bytes) : Lines(bytes)[k] \in Seq(Nat)
<1>1. PICK n \in Nat : n = LineCount(bytes)
  <2>1. LineCount(bytes) \in Nat
    BY CountType DEF LineCount, Count
  <2> QED BY <2>1
<1>2. \A a, b \in Nat : SubSeq(bytes, a + 1, b) \in Seq(Nat) \/ b > Len(bytes)
  <2> SUFFICES ASSUME NEW a \in Nat, NEW b \in Nat, b <= Len(bytes)
               PROVE  SubSeq(bytes, a + 1, b) \in Seq(Nat)
    OBVIOUS
  <2>1. \A i \in a + 1 .. b : bytes[i] \in Nat
    OBVIOUS
  <2> QED BY <2>1
<1>3. \A k \in 0 .. n : LineEnd(bytes, k) \in Nat /\ LineEnd(bytes, k) <= Len(bytes)
  BY <1>1, LineEndExists
<1>4. PartialLine(bytes) \in Seq(Nat)
  <2>1. LineEnd(bytes, n) \in Nat /\ Len(bytes) \in Nat
    BY <1>3
  <2>2. SubSeq(bytes, LineEnd(bytes, n) + 1, Len(bytes)) \in Seq(Nat)
    BY <1>2, <2>1
  <2> QED BY <1>1, <2>2 DEF PartialLine
<1>5. ASSUME NEW k \in 1 .. n
      PROVE  Lines(bytes)[k] \in Seq(Nat)
  <2>1. PICK j \in 0 .. n : j = k - 1 /\ j < k
    <3>1. k - 1 \in 0 .. n /\ k - 1 < k
      OBVIOUS
    <3> QED BY <3>1
  <2>2. PICK a \in Nat, e \in Nat : a = LineEnd(bytes, j) /\ e = LineEnd(bytes, k) /\ a < e /\ e <= Len(bytes)
    <3>1. k \in 0 .. n
      OBVIOUS
    <3> QED BY <1>1, <1>3, <2>1, <3>1, LineEndsAscend
  <2>3. PICK b \in Nat : b = e - 1 /\ ~(b > Len(bytes))
    <3>1. e - 1 \in Nat /\ ~(e - 1 > Len(bytes))
      BY <2>2
    <3> QED BY <3>1
  <2>4. Lines(bytes)[k] = SubSeq(bytes, a + 1, b)
    BY <1>1, <2>1, <2>2, <2>3 DEF Lines
  <2> QED BY <1>2, <2>3, <2>4
<1>6. Lines(bytes) \in Seq(Seq(Nat))
  <2>1. Lines(bytes) = [k \in 1 .. n |-> Lines(bytes)[k]]
    BY <1>1 DEF Lines
  <2>2. [k \in 1 .. n |-> Lines(bytes)[k]] \in Seq(Seq(Nat))
    BY <1>5
  <2> QED BY <2>1, <2>2
<1> QED BY <1>1, <1>4, <1>5, <1>6

LEMMA LengthOfLines ==
    ASSUME NEW bytes \in Seq(Nat)
    PROVE  Len(Lines(bytes)) = LineCount(bytes)
<1>1. LineCount(bytes) \in Nat
  BY CountType DEF LineCount, Count
<1>2. Lines(bytes) \in Seq(Seq(Nat)) /\ DOMAIN Lines(bytes) = 1 .. LineCount(bytes)
  BY LinesAreSequences DEF Lines
<1> QED BY <1>1, <1>2

LEMMA LineSeqEqual ==
    ASSUME NEW S, NEW u \in Seq(S), NEW v \in Seq(S), Len(u) = Len(v),
           \A i \in 1 .. Len(u) : u[i] = v[i]
    PROVE  u = v
OBVIOUS

\* Behind a newline, or in front of everything, a sequence of bytes can be cut in
\* two without cutting a line.
LEMMA LinesOfJoined ==
    ASSUME NEW s \in Seq(Nat), NEW t \in Seq(Nat), Len(s) = 0 \/ IsNewline(s[Len(s)])
    PROVE  /\ Lines(s \o t) = Lines(s) \o Lines(t)
           /\ PartialLine(s \o t) = PartialLine(t)
<1>1. PICK m \in Nat, n \in Nat : m = Len(s) /\ n = Len(t)
  OBVIOUS
<1>2. /\ \A i \in 1 .. m : (s \o t)[i] = s[i]
      /\ \A j \in 1 .. n : (s \o t)[m + j] = t[j]
      /\ s \o t \in Seq(Nat) /\ Len(s \o t) = m + n
  BY <1>1
<1>3. PICK k \in Nat, r \in Nat : k = LineCount(s) /\ r = LineCount(t) /\ LineCount(s \o t) = k + r
  <2>1. LineCount(s) \in Nat /\ LineCount(t) \in Nat
    BY <1>1, CountType DEF LineCount, Count
  <2> QED BY <2>1, CountJoined
<1>4. \A i \in 0 .. k : /\ LineEnd(s \o t, i) = LineEnd(s, i)
                         /\ LineEnd(s, i) \in 0 .. m
  <2> TAKE i \in 0 .. k
  <2>1. PICK e \in 0 .. m : e = LineEnd(s, i) /\ Count(s, e) = i /\ (e = 0 \/ IsNewline(s[e]))
    BY <1>1, <1>3, LineEndExists
  <2>2. Count(s \o t, e) = i
    BY <1>1, <2>1, CountJoined
  <2>3. e = 0 \/ e \in 1 .. m
    OBVIOUS
  <2>4. e = 0 \/ IsNewline((s \o t)[e])
    BY <1>2, <2>1, <2>3
  <2>5. e \in 0 .. Len(s \o t)
    BY <1>2
  <2> QED BY <1>2, <2>1, <2>2, <2>4, <2>5, LineEndUnique
<1>5. \A i \in 0 .. r : /\ LineEnd(s \o t, k + i) = m + LineEnd(t, i)
                         /\ LineEnd(t, i) \in 0 .. n
  <2> TAKE i \in 0 .. r
  <2>1. PICK e \in 0 .. n : e = LineEnd(t, i) /\ Count(t, e) = i /\ (e = 0 \/ IsNewline(t[e]))
    BY <1>1, <1>3, LineEndExists
  <2>2. Count(s \o t, m + e) = k + i
    BY <1>1, <1>3, <2>1, CountJoined
  <2>3. e = 0 \/ e \in 1 .. n
    OBVIOUS
  <2>4. m = 0 \/ m \in 1 .. m
    OBVIOUS
  <2>5. m + e = 0 \/ IsNewline((s \o t)[m + e])
    <3>1. CASE e = 0
      <4>1. m + e = m
        BY <3>1
      <4> QED BY <1>1, <1>2, <2>4, <4>1
    <3>2. CASE e \in 1 .. n
      <4>1. e # 0
        BY <3>2
      <4> QED BY <1>2, <2>1, <3>2, <4>1
    <3> QED BY <2>3, <3>1, <3>2
  <2>6. m + e \in 0 .. Len(s \o t)
    BY <1>2
  <2>7. LineEnd(s \o t, k + i) = m + e
    <3>1. PICK f \in 0 .. Len(s \o t), g \in Nat : f = m + e /\ g = k + i
      <4>1. m + e \in 0 .. Len(s \o t) /\ k + i \in Nat
        BY <2>6
      <4> QED BY <4>1
    <3>2. Count(s \o t, f) = g /\ (f = 0 \/ IsNewline((s \o t)[f]))
      BY <2>2, <2>5, <3>1
    <3>3. LineEnd(s \o t, g) = f
      BY <1>2, <3>2, LineEndUnique
    <3> QED BY <3>1, <3>3
  <2> QED BY <2>1, <2>7
<1>6. PartialLine(s \o t) = PartialLine(t)
  <2>1. r \in 0 .. r
    OBVIOUS
  <2>2. PICK e \in 0 .. n : e = LineEnd(t, r) /\ LineEnd(s \o t, k + r) = m + e
    BY <1>5, <2>1
  <2>3. SubSeq(s \o t, m + e + 1, m + n) = SubSeq(t, e + 1, n)
    <3>1. e \in Nat /\ e <= n
      OBVIOUS
    <3> QED BY <1>1, <3>1, PartOfJoined
  <2>4. PartialLine(s \o t) = SubSeq(s \o t, m + e + 1, m + n) /\ PartialLine(t) = SubSeq(t, e + 1, n)
    BY <1>1, <1>2, <1>3, <2>2 DEF PartialLine
  <2> QED BY <2>3, <2>4
<1>7. /\ Lines(s) = [i \in 1 .. k |-> Lines(s)[i]] /\ Lines(t) = [i \in 1 .. r |-> Lines(t)[i]]
      /\ Lines(s \o t) = [i \in 1 .. k + r |-> Lines(s \o t)[i]]
  BY <1>3 DEF Lines
<1>8. \A i \in 1 .. k : Lines(s \o t)[i] = Lines(s)[i]
  <2> TAKE i \in 1 .. k
  <2>1. PICK j \in 0 .. k : j = i - 1
    <3>1. i - 1 \in 0 .. k
      OBVIOUS
    <3> QED BY <3>1
  <2>2. PICK a \in Nat, e \in Nat : a = LineEnd(s, j) /\ e = LineEnd(s, i) /\ a < e /\ e <= m
    <3>1. j < i /\ i \in 0 .. k
      BY <2>1
    <3>2. LineEnd(s, j) < LineEnd(s, i)
      BY <1>3, <3>1, LineEndsAscend
    <3>3. LineEnd(s, j) \in 0 .. m /\ LineEnd(s, i) \in 0 .. m
      BY <1>4, <3>1
    <3> QED BY <3>2, <3>3
  <2>3. LineEnd(s \o t, j) = a /\ LineEnd(s \o t, i) = e
    BY <1>4, <2>2
  <2>4. PICK b \in Nat : b = e - 1 /\ a <= b /\ b <= m
    <3>1. e - 1 \in Nat /\ a <= e - 1 /\ e - 1 <= m
      BY <2>2
    <3> QED BY <3>1
  <2>5. Lines(s \o t)[i] = SubSeq(s \o t, a + 1, b) /\ Lines(s)[i] = SubSeq(s, a + 1, b)
    <3>1. i \in 1 .. k + r
      OBVIOUS
    <3> QED BY <1>3, <2>1, <2>2, <2>3, <2>4, <3>1 DEF Lines
  <2> QED BY <1>1, <2>4, <2>5, PartOfJoined
<1>9. \A i \in 1 .. r : Lines(s \o t)[k + i] = Lines(t)[i]
  <2> TAKE i \in 1 .. r
  <2>1. PICK j \in 0 .. r : j = i - 1 /\ (k + i) - 1 = k + j
    <3>1. i - 1 \in 0 .. r /\ (k + i) - 1 = k + (i - 1)
      OBVIOUS
    <3> QED BY <3>1
  <2>2. PICK a \in Nat, e \in Nat : a = LineEnd(t, j) /\ e = LineEnd(t, i) /\ a < e /\ e <= n
    <3>1. j < i /\ i \in 0 .. r
      BY <2>1
    <3>2. LineEnd(t, j) < LineEnd(t, i)
      BY <1>3, <3>1, LineEndsAscend
    <3>3. LineEnd(t, j) \in 0 .. n /\ LineEnd(t, i) \in 0 .. n
      BY <1>5, <3>1
    <3> QED BY <3>2, <3>3
  <2>3. LineEnd(s \o t, k + j) = m + a /\ LineEnd(s \o t, k + i) = m + e
    BY <1>5, <2>2
  <2>4. PICK b \in Nat : b = e - 1 /\ a <= b /\ b <= n /\ (m + e) - 1 = m + b
    <3>1. e - 1 \in Nat /\ a <= e - 1 /\ e - 1 <= n /\ (m + e) - 1 = m + (e - 1)
      BY <2>2
    <3> QED BY <3>1
  <2>5. Lines(s \o t)[k + i] = SubSeq(s \o t, m + a + 1, m + b) /\ Lines(t)[i] = SubSeq(t, a + 1, b)
    <3>1. k + i \in 1 .. k + r
      OBVIOUS
    <3>2. Lines(s \o t)[k + i] = SubSeq(s \o t, LineEnd(s \o t, (k + i) - 1) + 1, LineEnd(s \o t, k + i) - 1)
      BY <1>3, <3>1 DEF Lines
    <3>3. Lines(t)[i] = SubSeq(t, LineEnd(t, i - 1) + 1, LineEnd(t, i) - 1)
      BY <1>3 DEF Lines
    <3> QED BY <2>1, <2>2, <2>3, <2>4, <3>2, <3>3
  <2>6. SubSeq(s \o t, Len(s) + a + 1, Len(s) + b) = SubSeq(t, a + 1, b)
    BY <1>1, <2>4, PartOfJoined
  <2> QED BY <1>1, <2>5, <2>6
<1>10. Lines(s \o t) = Lines(s) \o Lines(t)
  <2>1. Lines(s) \in Seq(Seq(Nat)) /\ Lines(t) \in Seq(Seq(Nat)) /\ Lines(s \o t) \in Seq(Seq(Nat))
    BY <1>2, LinesAreSequences
  <2>2. Len(Lines(s)) = k /\ Len(Lines(t)) = r /\ Len(Lines(s \o t)) = k + r
    <3>1. Len(Lines(s)) = k /\ Len(Lines(t)) = r
      BY <1>3, LengthOfLines
    <3>2. Len(Lines(s \o t)) = LineCount(s \o t)
      BY <1>2, LengthOfLines
    <3> QED BY <1>3, <3>1, <3>2
  <2> HIDE DEF Lines
  <2>3. /\ Lines(s) \o Lines(t) \in Seq(Seq(Nat)) /\ Len(Lines(s) \o Lines(t)) = k + r
        /\ \A i \in 1 .. k : (Lines(s) \o Lines(t))[i] = Lines(s)[i]
        /\ \A i \in 1 .. r : (Lines(s) \o Lines(t))[k + i] = Lines(t)[i]
    <3>1. \A u, v \in Seq(Seq(Nat)) :
              /\ u \o v \in Seq(Seq(Nat)) /\ Len(u \o v) = Len(u) + Len(v)
              /\ \A i \in 1 .. Len(u) : (u \o v)[i] = u[i]
              /\ \A i \in 1 .. Len(v) : (u \o v)[Len(u) + i] = v[i]
      BY JoinedSequences
    <3> QED BY <2>1, <2>2, <3>1
  <2>4. \A i \in 1 .. k + r : i \in 1 .. k \/ \E j \in 1 .. r : i = k + j
    <3>1. \A i \in 1 .. k + r : i \in 1 .. k \/ (i - k \in 1 .. r /\ i = k + (i - k))
      OBVIOUS
    <3> QED BY <3>1
  <2>5. ASSUME NEW i \in 1 .. k + r
        PROVE  Lines(s \o t)[i] = (Lines(s) \o Lines(t))[i]
    <3>1. CASE i \in 1 .. k
      BY <1>8, <2>3, <3>1
    <3>2. ASSUME NEW j \in 1 .. r, i = k + j
          PROVE  Lines(s \o t)[i] = (Lines(s) \o Lines(t))[i]
      <4>1. Lines(s \o t)[k + j] = Lines(t)[j] /\ (Lines(s) \o Lines(t))[k + j] = Lines(t)[j]
        BY <1>9, <2>3
      <4> QED BY <3>2, <4>1
    <3> QED BY <2>4, <3>1, <3>2
  <2> QED BY <2>1, <2>2, <2>3, <2>5, LineSeqEqual
<1> QED BY <1>6, <1>10
\* What is split, then put together with the partial line that was left over, is
\* split as in one go.
LEMMA SplitInTwo ==
    ASSUME NEW s \in Seq(Nat), NEW t \in Seq(Nat)
    PROVE  /\ Lines(s \o t) = Lines(s) \o Lines(PartialLine(s) \o t)
           /\ PartialLine(s \o t) = PartialLine(PartialLine(s) \o t)
<1>1. PICK k \in Nat : k = LineCount(s)
  <2>1. LineCount(s) \in Nat
    BY CountType DEF LineCount, Count
  <2> QED BY <2>1
<1>2. PICK e \in 0 .. Len(s) : e = LineEnd(s, k) /\ Count(s, e) = k /\ (e = 0 \/ IsNewline(s[e]))
  <2>1. k \in 0 .. LineCount(s)
    BY <1>1
  <2> QED BY <2>1, LineEndExists
<1>3. PICK h \in Seq(Nat), q \in Seq(Nat) :
          /\ h = SubSeq(s, 1, e) /\ q = PartialLine(s) /\ s = h \o q /\ Len(h) = e
          /\ Len(h) = 0 \/ IsNewline(h[Len(h)])
  <2>1. PartialLine(s) = SubSeq(s, e + 1, Len(s))
    BY <1>1, <1>2 DEF PartialLine
  <2>2. SubSeq(s, 1, e) \in Seq(Nat) /\ Len(SubSeq(s, 1, e)) = e
    BY <1>2
  <2>3. s = SubSeq(s, 1, e) \o SubSeq(s, e + 1, Len(s))
    BY <1>2, CutFront
  <2>4. e = 0 \/ (e \in 1 .. e /\ SubSeq(s, 1, e)[e] = s[e])
    BY <1>2
  <2>5. PartialLine(s) \in Seq(Nat)
    BY LinesAreSequences
  <2> QED BY <1>2, <2>1, <2>2, <2>3, <2>4, <2>5
<1>4. LineCount(q) = 0
  <2>1. LineCount(h) \in Nat /\ LineCount(q) \in Nat /\ LineCount(h) = Count(h, e)
    <3>1. LineCount(h) = Count(h, Len(h)) /\ LineCount(q) = Count(q, Len(q))
      BY DEF LineCount, Count
    <3>2. Len(h) \in Nat /\ Len(q) \in Nat
      OBVIOUS
    <3> QED BY <1>3, <3>1, <3>2, CountType
  <2>2. LineCount(h \o q) = LineCount(h) + LineCount(q) /\ Count(h \o q, e) = Count(h, e)
    <3>1. e \in 0 .. Len(h)
      BY <1>3
    <3> QED BY <3>1, CountJoined
  <2>3. LineCount(h \o q) = k /\ Count(h \o q, e) = k
    BY <1>1, <1>2, <1>3
  <2> QED BY <2>1, <2>2, <2>3
<1>5. Lines(s) = Lines(h)
  <2>1. Lines(h \o q) = Lines(h) \o Lines(q)
    BY <1>3, LinesOfJoined
  <2>2. Lines(q) = <<>>
    <3>1. Lines(q) \in Seq(Seq(Nat)) /\ Len(Lines(q)) = 0
      BY <1>4, LinesAreSequences, LengthOfLines
    <3> HIDE DEF Lines
    <3> QED BY <3>1
  <2>3. Lines(h) \in Seq(Seq(Nat))
    BY LinesAreSequences
  <2>4. \A u \in Seq(Seq(Nat)) : u \o <<>> = u
    OBVIOUS
  <2> HIDE DEF Lines
  <2> QED BY <1>3, <2>1, <2>2, <2>3, <2>4
<1>6. PICK v \in Seq(Nat) : v = q \o t
  <2>1. q \o t \in Seq(Nat)
    OBVIOUS
  <2> QED BY <2>1
<1>7. s \o t = h \o v
  <2>1. (h \o q) \o t = h \o (q \o t)
    OBVIOUS
  <2> QED BY <1>3, <1>6, <2>1
<1>8. Lines(h \o v) = Lines(h) \o Lines(v) /\ PartialLine(h \o v) = PartialLine(v)
  BY <1>3, LinesOfJoined
<1> QED BY <1>3, <1>5, <1>6, <1>7, <1>8
-----------------------------------------------------------------------------
(* What has been handed over of the present file is one split. *)

Told == SubSeq(delivered, base + 1, Len(delivered))
Seen == SubSeq(files[handle], from + 1, offset)
Reading == tpc \in {"idle", "stat", "reopen", "read"}

\* Of what has been seen of the present file, `done` has been split, and the rest
\* is raw.
SplitUpTo(done) == Seen = done \o raw /\ Told = Lines(done) /\ leftover = PartialLine(done)
SplitSoFar ==
    /\ tpc \in {"open", "seek"} => delivered = <<>> /\ base = 0 /\ leftover = <<>>
    /\ Reading => /\ from \in Nat /\ base \in Nat /\ base <= Len(delivered)
                  /\ from <= offset /\ offset <= Len(files[handle])
                  /\ \E done \in Seq(Nat) : SplitUpTo(done)
SplitInv == truncations \in Nat /\ (truncations = 0 => SplitSoFar)

LEMMA InodeTypes ==
    ASSUME NEW fs \in Seq(Seq(Nat)), NEW f \in 0 .. Len(fs), f # 0
    PROVE  f \in DOMAIN fs /\ fs[f] \in Seq(Nat) /\ Len(fs[f]) \in Nat
<1>1. f \in DOMAIN fs
  OBVIOUS
<1>2. fs[f] \in Seq(Nat)
  BY <1>1
<1> QED BY <1>1, <1>2

LEMMA NothingSplit ==
    /\ Lines(<<>>) = <<>> /\ PartialLine(<<>>) = <<>> /\ <<>> \in Seq(Nat)
    /\ \A n \in Nat : \A u \in Seq(Nat) : SubSeq(u, n + 1, n) = <<>>
    /\ \A n \in Nat : \A u \in Seq(Seq(Nat)) : SubSeq(u, n + 1, n) = <<>>
<1>1. /\ <<>> \in Seq(Nat)
      /\ \A n \in Nat : \A u \in Seq(Nat) : SubSeq(u, n + 1, n) = <<>>
      /\ \A n \in Nat : \A u \in Seq(Seq(Nat)) : SubSeq(u, n + 1, n) = <<>>
  OBVIOUS
<1>2. LineCount(<<>>) \in Nat /\ LineEnd(<<>>, LineCount(<<>>)) = 0
  <2>1. Len(<<>>) = 0 /\ 0 \in 0 .. Len(<<>>) /\ LineCount(<<>>) = Count(<<>>, 0)
    BY DEF LineCount, Count
  <2>2. Count(<<>>, 0) \in Nat
    <3>1. PICK b \in Seq(Nat), n \in Nat : b = <<>> /\ n = 0
      BY <1>1
    <3>2. Count(b, n) \in Nat
      BY CountType
    <3> QED BY <3>1, <3>2
  <2> QED BY <1>1, <2>1, <2>2, LineEndUnique
<1>3. LineCount(<<>>) = 0
  <2>1. PICK k \in Nat, b \in Seq(Nat) : b = <<>> /\ k = LineCount(b)
    BY <1>1, <1>2
  <2>2. b \o b = b
    BY <2>1
  <2>3. LineCount(b \o b) = LineCount(b) + LineCount(b)
    BY CountJoined
  <2> QED BY <2>1, <2>2, <2>3
<1>4. Lines(<<>>) = <<>>
  <2>1. Lines(<<>>) \in Seq(Seq(Nat)) /\ Len(Lines(<<>>)) = 0
    BY <1>1, <1>3, LinesAreSequences, LengthOfLines
  <2> HIDE DEF Lines
  <2> QED BY <2>1
<1>5. PartialLine(<<>>) = <<>>
  <2>1. PartialLine(<<>>) = SubSeq(<<>>, 0 + 1, 0)
    BY <1>2 DEF PartialLine
  <2>2. SubSeq(<<>>, 0 + 1, 0) = <<>>
    OBVIOUS
  <2> QED BY <2>1, <2>2
<1> QED BY <1>1, <1>4, <1>5

\* Reading begins at the end of an opened file, or at the start of a new one.
LEMMA FreshSplit ==
    ASSUME LogInv', TailInv', truncations' \in Nat, Reading',
           from' = offset', offset' <= Len(files'[handle']), base' = Len(delivered'),
           leftover' = <<>>, raw' = <<>>
    PROVE  SplitInv'
<1>1. PICK u \in Seq(Nat), d \in Seq(Seq(Nat)), n \in Nat, k \in Nat :
          /\ u = files'[handle'] /\ d = delivered' /\ n = offset' /\ k = Len(d)
  <2>1. files' \in Seq(Seq(Nat)) /\ handle' \in 0 .. Len(files') /\ handle' # 0
    BY DEF LogInv, TailInv, Reading, NoFile
  <2>2. files'[handle'] \in Seq(Nat)
    BY <2>1, InodeTypes
  <2>3. delivered' \in Seq(Seq(Nat)) /\ offset' \in Nat /\ Len(delivered') \in Nat
    BY DEF TailInv
  <2> QED BY <2>2, <2>3
<1>2. Seen' = <<>> /\ Told' = <<>>
  <2>1. SubSeq(u, n + 1, n) = <<>> /\ SubSeq(d, k + 1, k) = <<>>
    BY NothingSplit
  <2> QED BY <1>1, <2>1 DEF Seen, Told
<1>3. SplitUpTo(<<>>)'
  <2>1. <<>> \o <<>> = <<>>
    OBVIOUS
  <2> QED BY <1>2, <2>1, NothingSplit DEF SplitUpTo
<1>4. (\E done \in Seq(Nat) : SplitUpTo(done))'
  BY <1>3, NothingSplit
<1> QED BY <1>1, <1>4 DEF SplitInv, SplitSoFar, Reading

\* Nothing that has been seen or told changes.
LEMMA SplitStays ==
    ASSUME FollowInv, FollowInv', SplitInv, truncations' = truncations,
           UNCHANGED <<offset, leftover, raw, delivered, from, base>>,
           tpc' \in {"open", "seek"} => tpc \in {"open", "seek"},
           Reading' => /\ Reading /\ handle' = handle
                       /\ Len(files[handle]) <= Len(files'[handle])
                       /\ truncations = 0 => SubSeq(files'[handle], from + 1, offset) = Seen
    PROVE  SplitInv'
<1> SUFFICES ASSUME truncations = 0 PROVE SplitSoFar'
  BY DEF SplitInv
<1>1. SplitSoFar
  BY DEF SplitInv
<1>2. tpc' \in {"open", "seek"} => delivered' = <<>> /\ base' = 0 /\ leftover' = <<>>
  BY <1>1 DEF SplitSoFar
<1>3. ASSUME Reading'
      PROVE  /\ from' \in Nat /\ base' \in Nat /\ base' <= Len(delivered')
             /\ from' <= offset' /\ offset' <= Len(files'[handle'])
             /\ (\E done \in Seq(Nat) : SplitUpTo(done))'
  <2>1. /\ Reading /\ handle' = handle /\ Len(files[handle]) <= Len(files'[handle])
        /\ Seen' = Seen /\ Told' = Told
    BY <1>3 DEF Seen, Told
  <2>2. /\ from \in Nat /\ base \in Nat /\ base <= Len(delivered)
        /\ from <= offset /\ offset <= Len(files[handle])
        /\ \E done \in Seq(Nat) : SplitUpTo(done)
    BY <1>1, <2>1 DEF SplitSoFar
  <2>3. PICK done \in Seq(Nat) : SplitUpTo(done)
    BY <2>2
  <2>4. SplitUpTo(done)'
    BY <2>1, <2>3 DEF SplitUpTo
  <2>5. offset <= Len(files'[handle])
    <3>1. /\ files \in Seq(Seq(Nat)) /\ handle \in 0 .. Len(files) /\ handle # 0 /\ offset \in Nat
      BY <2>1 DEF FollowInv, LogInv, TailInv, Reading, NoFile
    <3>2. /\ files' \in Seq(Seq(Nat)) /\ handle' \in 0 .. Len(files')
      BY DEF FollowInv, LogInv, TailInv
    <3>3. Len(files[handle]) \in Nat
      BY <3>1, InodeTypes
    <3>4. Len(files'[handle]) \in Nat
      BY <2>1, <3>1, <3>2, InodeTypes
    <3> QED BY <2>1, <2>2, <3>1, <3>3, <3>4
  <2> QED BY <2>1, <2>2, <2>4, <2>5
<1> QED BY <1>2, <1>3 DEF SplitSoFar
LEMMA SeekSplit ==
    ASSUME FollowInv, FollowInv', SplitInv, SeekToEnd
    PROVE  SplitInv'
<1>1. /\ UNCHANGED <<files, truncations, handle, leftover, raw, delivered, base>>
      /\ tpc = "seek" /\ tpc' = "idle" /\ offset' = Len(files[handle]) /\ from' = offset'
  BY DEF SeekToEnd, logVars
<1>2. truncations' \in Nat /\ raw = <<>> /\ offset' \in Nat
  BY <1>1 DEF SplitInv, FollowInv, TailInv
<1>3. CASE truncations = 0
  <2>1. delivered = <<>> /\ base = 0 /\ leftover = <<>>
    BY <1>1, <1>3 DEF SplitInv, SplitSoFar
  <2>2. base' = Len(delivered') /\ leftover' = <<>> /\ raw' = <<>> /\ offset' <= Len(files'[handle'])
    BY <1>1, <1>2, <2>1
  <2>3. LogInv' /\ TailInv' /\ Reading'
    BY <1>1 DEF FollowInv, Reading
  <2> QED BY <1>1, <1>2, <2>2, <2>3, FreshSplit
<1>4. CASE truncations # 0
  BY <1>1, <1>2, <1>4 DEF SplitInv
<1> QED BY <1>3, <1>4

\* Reading starts over, in this file or in the next one.
LEMMA StartOverSplit ==
    ASSUME FollowInv, FollowInv', SplitInv, StartOver, tpc \in {"stat", "reopen"}, tpc' = "read",
           UNCHANGED <<truncations, raw, delivered>>
    PROVE  SplitInv'
<1>1. /\ truncations' \in Nat /\ raw' = <<>> /\ leftover' = <<>> /\ base' = Len(delivered')
      /\ from' = offset' /\ offset' = 0 /\ LogInv' /\ TailInv' /\ Reading'
  BY DEF SplitInv, FollowInv, TailInv, StartOver, Reading
<1>2. /\ files' \in Seq(Seq(Nat)) /\ handle' \in 0 .. Len(files') /\ handle' # 0
  BY <1>1 DEF LogInv, TailInv, Reading, NoFile
<1>3. Len(files'[handle']) \in Nat
  BY <1>2, InodeTypes
<1>4. offset' <= Len(files'[handle'])
  BY <1>1, <1>3
<1> QED BY <1>1, <1>4, FreshSplit

LEMMA LookSplit ==
    ASSUME FollowInv, FollowInv', SplitInv, Stat \/ HandleRotation
    PROVE  SplitInv'
<1>1. /\ UNCHANGED <<files, truncations, raw, delivered>>
      /\ tpc \in {"stat", "reopen"} /\ tpc' \in {"idle", "reopen", "read"}
  BY DEF Stat, HandleRotation, logVars
<1>2. \/ StartOver /\ tpc' = "read"
      \/ UNCHANGED <<handle, offset, leftover, from, base>>
  BY DEF Stat, HandleRotation
<1>3. CASE StartOver /\ tpc' = "read"
  BY <1>1, <1>3, StartOverSplit
<1>4. CASE UNCHANGED <<handle, offset, leftover, from, base>>
  <2>1. /\ UNCHANGED <<offset, leftover, raw, delivered, from, base>> /\ truncations' = truncations
        /\ tpc' \notin {"open", "seek"} /\ Reading /\ handle' = handle
        /\ files'[handle] = files[handle]
    BY <1>1, <1>4 DEF Reading
  <2>2. files \in Seq(Seq(Nat)) /\ handle \in 0 .. Len(files) /\ handle # 0
    BY <2>1 DEF FollowInv, LogInv, TailInv, Reading, NoFile
  <2>3. Len(files[handle]) \in Nat
    BY <2>2, InodeTypes
  <2>4. Len(files[handle]) <= Len(files'[handle]) /\ SubSeq(files'[handle], from + 1, offset) = Seen
    BY <2>1, <2>3 DEF Seen
  <2> QED BY <2>1, <2>4, SplitStays
<1> QED BY <1>2, <1>3, <1>4

\* What is read is added to what is raw.
LEMMA ReadSplit ==
    ASSUME FollowInv, FollowInv', SplitInv, Read
    PROVE  SplitInv'
<1>1. /\ UNCHANGED <<files, truncations, handle, leftover, delivered, base, from>>
      /\ tpc = "read" /\ tpc' = "read" /\ offset' = ReadEnd /\ offset < Len(files[handle])
      /\ raw' = raw \o SubSeq(files[handle], offset + 1, ReadEnd)
  BY DEF Read, logVars, tailHistory
<1> SUFFICES ASSUME truncations = 0 PROVE SplitSoFar'
  BY <1>1 DEF SplitInv
<1>2. /\ from \in Nat /\ base \in Nat /\ base <= Len(delivered)
      /\ from <= offset /\ \E done \in Seq(Nat) : SplitUpTo(done)
  BY <1>1 DEF SplitInv, SplitSoFar, Reading
<1>3. PICK done \in Seq(Nat) : SplitUpTo(done)
  BY <1>2
<1>4. PICK u \in Seq(Nat) : u = files[handle] /\ Len(u) \in Nat
  <2>1. files \in Seq(Seq(Nat)) /\ handle \in 0 .. Len(files) /\ handle # 0
    BY <1>1 DEF FollowInv, LogInv, TailInv, NoFile
  <2> QED BY <2>1, InodeTypes
<1>5. PICK f \in Nat, a \in Nat, b \in Nat :
          f = from /\ a = offset /\ b = offset' /\ f <= a /\ a <= b /\ b <= Len(u)
  <2>1. offset \in Nat /\ BufferSize \in Nat
    BY TailerAssumption DEF FollowInv, TailInv
  <2>2. ReadEnd \in Nat /\ offset <= ReadEnd /\ ReadEnd <= Len(u)
    BY <1>1, <1>4, <2>1 DEF ReadEnd
  <2> QED BY <1>1, <1>2, <2>1, <2>2
<1>6. PICK r \in Seq(Nat), piece \in Seq(Nat) : r = raw /\ piece = SubSeq(u, a + 1, b)
  <2>1. SubSeq(u, a + 1, b) \in Seq(Nat)
    BY <1>5, PartOf
  <2> QED BY <2>1 DEF FollowInv, TailInv
<1>7. Seen' = Seen \o piece
  <2>1. SubSeq(u, f + 1, b) = SubSeq(u, f + 1, a) \o SubSeq(u, a + 1, b)
    <3>1. f <= a /\ a <= b /\ b <= Len(u)
      BY <1>5
    <3> QED BY <3>1, CutBytes
  <2> QED BY <1>1, <1>4, <1>5, <1>6, <2>1 DEF Seen
<1>8. raw' = r \o piece
  BY <1>1, <1>4, <1>5, <1>6
<1>9. SplitUpTo(done)'
  <2>1. (done \o r) \o piece = done \o (r \o piece)
    BY Z3
  <2>2. Seen = done \o r
    BY <1>3, <1>6 DEF SplitUpTo
  <2>3. Seen' = done \o raw'
    BY <1>7, <1>8, <2>1, <2>2
  <2>4. Told' = Told
    BY <1>1 DEF Told
  <2> QED BY <1>1, <1>3, <2>3, <2>4 DEF SplitUpTo
<1>10. from' <= offset' /\ offset' <= Len(files'[handle'])
  BY <1>1, <1>4, <1>5
<1> QED BY <1>1, <1>2, <1>9, <1>10 DEF SplitSoFar, Reading
LEMMA TellMore ==
    ASSUME NEW S, NEW d \in Seq(S), NEW o \in Seq(S), NEW b \in Nat, b <= Len(d)
    PROVE  SubSeq(d \o o, b + 1, Len(d \o o)) = SubSeq(d, b + 1, Len(d)) \o o
<1>1. PICK c \in Nat, n \in Nat, k \in Nat : n = Len(d) /\ k = Len(o) /\ n = b + c
  <2>1. Len(d) - b \in Nat /\ Len(d) = b + (Len(d) - b) /\ Len(d) \in Nat /\ Len(o) \in Nat
    OBVIOUS
  <2> QED BY <2>1
<1>2. PICK v \in Seq(S) :
          /\ v = SubSeq(d, b + 1, n) /\ Len(v) = c
          /\ \A x \in 1 .. c : v[x] = d[b + x]
  <2>1. b + c <= Len(d)
    BY <1>1
  <2>2. /\ SubSeq(d, b + 1, b + c) \in Seq(S) /\ Len(SubSeq(d, b + 1, b + c)) = c
        /\ \A x \in 1 .. c : SubSeq(d, b + 1, b + c)[x] = d[b + x]
    BY <2>1, CutOut
  <2> QED BY <1>1, <2>2
<1>3. PICK w \in Seq(S) :
          /\ w = d \o o /\ Len(w) = n + k
          /\ \A x \in 1 .. n : w[x] = d[x]
          /\ \A x \in 1 .. k : w[n + x] = o[x]
  <2>1. /\ d \o o \in Seq(S) /\ Len(d \o o) = Len(d) + Len(o)
        /\ \A x \in 1 .. Len(d) : (d \o o)[x] = d[x]
        /\ \A x \in 1 .. Len(o) : (d \o o)[Len(d) + x] = o[x]
    BY JoinedSequences
  <2> QED BY <1>1, <2>1
<1>4. PICK z \in Seq(S) :
          /\ z = SubSeq(w, b + 1, n + k) /\ Len(z) = c + k
          /\ \A x \in 1 .. c + k : z[x] = w[b + x]
  <2>1. PICK e \in Nat : e = c + k /\ b + e = n + k /\ b + e <= Len(w)
    <3>1. c + k \in Nat /\ b + (c + k) = n + k /\ n + k <= n + k
      BY <1>1
    <3> QED BY <1>3, <3>1
  <2>2. /\ SubSeq(w, b + 1, b + e) \in Seq(S) /\ Len(SubSeq(w, b + 1, b + e)) = e
        /\ \A x \in 1 .. e : SubSeq(w, b + 1, b + e)[x] = w[b + x]
    <3>1. b + e <= Len(w)
      BY <2>1
    <3>2. \A y \in Nat : b + y <= Len(w) =>
             /\ SubSeq(w, b + 1, b + y) \in Seq(S) /\ Len(SubSeq(w, b + 1, b + y)) = y
             /\ \A x \in 1 .. y : SubSeq(w, b + 1, b + y)[x] = w[b + x]
      BY CutOut, Zenon
    <3> QED BY <3>1, <3>2
  <2> QED BY <2>1, <2>2
<1>5. /\ v \o o \in Seq(S) /\ Len(v \o o) = c + k
      /\ \A x \in 1 .. c : (v \o o)[x] = v[x]
      /\ \A x \in 1 .. k : (v \o o)[c + x] = o[x]
  <2>1. /\ v \o o \in Seq(S) /\ Len(v \o o) = Len(v) + Len(o)
        /\ \A x \in 1 .. Len(v) : (v \o o)[x] = v[x]
        /\ \A x \in 1 .. Len(o) : (v \o o)[Len(v) + x] = o[x]
    BY JoinedSequences
  <2> QED BY <1>1, <1>2, <2>1
<1>6. \A x \in 1 .. c + k :
          \/ x \in 1 .. c /\ b + x \in 1 .. n
          \/ \E y \in 1 .. k : x = c + y /\ b + x = n + y
  <2>1. \A x \in 1 .. c + k :
          \/ x \in 1 .. c /\ b + x \in 1 .. n
          \/ x - c \in 1 .. k /\ x = c + (x - c) /\ b + x = n + (x - c)
    BY <1>1
  <2> QED BY <2>1
<1>7. \A x \in 1 .. c + k : z[x] = (v \o o)[x]
  <2> TAKE x \in 1 .. c + k
  <2>1. z[x] = w[b + x]
    BY <1>4
  <2>2. CASE x \in 1 .. c /\ b + x \in 1 .. n
    <3>1. w[b + x] = d[b + x] /\ (v \o o)[x] = v[x] /\ v[x] = d[b + x]
      BY <1>2, <1>3, <1>5, <2>2
    <3> QED BY <2>1, <3>1
  <2>3. ASSUME NEW y \in 1 .. k, x = c + y, b + x = n + y
        PROVE  z[x] = (v \o o)[x]
    <3>1. w[n + y] = o[y] /\ (v \o o)[c + y] = o[y]
      BY <1>3, <1>5
    <3> QED BY <2>1, <2>3, <3>1
  <2> QED BY <1>6, <2>2, <2>3
<1>8. z = v \o o
  BY <1>4, <1>5, <1>7, SeqEqual
<1> QED BY <1>1, <1>2, <1>3, <1>4, <1>8

\* What is handed over is what one split of all that has been seen adds.
LEMMA ReturnSplit ==
    ASSUME FollowInv, FollowInv', SplitInv, Return
    PROVE  SplitInv'
<1>1. /\ UNCHANGED <<files, truncations, handle, offset, base, from>>
      /\ tpc = "read" /\ tpc' = "idle" /\ raw' = <<>>
      /\ delivered' = delivered \o Lines(leftover \o raw)
      /\ leftover' = PartialLine(leftover \o raw)
  BY DEF Return, logVars
<1> SUFFICES ASSUME truncations = 0 PROVE SplitSoFar'
  BY <1>1 DEF SplitInv
<1>2. /\ from \in Nat /\ base \in Nat /\ base <= Len(delivered)
      /\ from <= offset /\ offset <= Len(files[handle]) /\ \E done \in Seq(Nat) : SplitUpTo(done)
  BY <1>1 DEF SplitInv, SplitSoFar, Reading
<1>3. PICK done \in Seq(Nat) : SplitUpTo(done)
  BY <1>2
<1>4. PICK r \in Seq(Nat), d \in Seq(Seq(Nat)), o \in Seq(Seq(Nat)) :
          /\ r = raw /\ d = delivered /\ o = Lines(leftover \o raw) /\ delivered' = d \o o
  <2>1. raw \in Seq(Nat) /\ leftover \in Seq(Nat) /\ delivered \in Seq(Seq(Nat))
    BY DEF FollowInv, TailInv
  <2>2. leftover \o raw \in Seq(Nat)
    BY <2>1
  <2>3. Lines(leftover \o raw) \in Seq(Seq(Nat))
    BY <2>2, LinesAreSequences
  <2> QED BY <1>1, <2>1, <2>3
<1>5. done \o r \in Seq(Nat) /\ (done \o r) \o <<>> = done \o r
  OBVIOUS
<1>6. /\ Lines(done \o r) = Lines(done) \o Lines(PartialLine(done) \o r)
      /\ PartialLine(done \o r) = PartialLine(PartialLine(done) \o r)
  BY SplitInTwo
<1>7. Told' = Told \o o /\ base <= Len(delivered')
  <2>1. SubSeq(d \o o, base + 1, Len(d \o o)) = SubSeq(d, base + 1, Len(d)) \o o
    <3>1. base \in Nat /\ base <= Len(d)
      BY <1>2, <1>4
    <3> QED BY <3>1, TellMore
  <2>2. Told' = SubSeq(d \o o, base + 1, Len(d \o o)) /\ Told = SubSeq(d, base + 1, Len(d))
    BY <1>1, <1>4 DEF Told
  <2>3. Len(d \o o) = Len(d) + Len(o) /\ Len(d) \in Nat /\ Len(o) \in Nat
    BY JoinedSequences
  <2>4. base <= Len(d) + Len(o)
    BY <1>2, <1>4, <2>3
  <2> QED BY <1>4, <2>1, <2>2, <2>3, <2>4
<1>8. SplitUpTo(done \o r)'
  <2>1. Seen' = Seen /\ Seen = done \o r
    BY <1>1, <1>3, <1>4 DEF Seen, SplitUpTo
  <2>2. Told' = Lines(done \o r)
    BY <1>3, <1>4, <1>6, <1>7 DEF SplitUpTo
  <2>3. leftover' = PartialLine(done \o r)
    BY <1>1, <1>3, <1>4, <1>6 DEF SplitUpTo
  <2> QED BY <1>1, <1>5, <2>1, <2>2, <2>3 DEF SplitUpTo
<1>9. (\E e \in Seq(Nat) : SplitUpTo(e))'
  BY <1>5, <1>8
<1> QED BY <1>1, <1>2, <1>7, <1>9 DEF SplitSoFar, Reading

\* The logger only appends to what has been seen, until it truncates.
LEMMA LogSplit ==
    ASSUME FollowInv, FollowInv', SplitInv, LogStep, UNCHANGED <<tailVars, tailHistory>>
    PROVE  SplitInv'
<1>1. UNCHANGED <<tpc, handle, offset, leftover, raw, delivered, from, base>>
  BY DEF tailVars, tailHistory
<1>2. CASE Truncate
  <2>1. truncations \in Nat /\ truncations' = truncations + 1
    BY <1>2 DEF SplitInv, Truncate
  <2>2. truncations' \in Nat /\ truncations' # 0
    BY <2>1
  <2> QED BY <2>2 DEF SplitInv
<1>3. ASSUME ~Truncate, Reading
      PROVE  /\ Len(files[handle]) <= Len(files'[handle])
             /\ truncations = 0 => SubSeq(files'[handle], from + 1, offset) = Seen
  <2>1. files \in Seq(Seq(Nat)) /\ handle \in 0 .. Len(files) /\ handle # 0
    BY <1>3 DEF FollowInv, LogInv, TailInv, Reading, NoFile
  <2>2. PICK u \in Seq(Nat) : u = files[handle] /\ Len(u) \in Nat /\ handle \in DOMAIN files
    BY <2>1, InodeTypes
  <2>3. files'[handle] = u \/ \E x \in Nat : files'[handle] = Append(u, x)
    <3>1. CASE UNCHANGED files
      BY <2>2, <3>1
    <3>2. CASE Write
      <4>1. files' = [files EXCEPT ![writer] = Append(@, next)] /\ next \in Nat
        BY <3>2 DEF Write, FollowInv, LogInv
      <4> QED BY <2>2, <4>1
    <3>3. CASE Create
      <4>1. files' = Append(files, <<>>)
        BY <3>3 DEF Create
      <4> QED BY <2>1, <2>2, <4>1
    <3> QED BY <1>3, <3>1, <3>2, <3>3 DEF LogStep, RenameAway, Reopen
  <2>4. CASE files'[handle] = u
    BY <2>2, <2>4 DEF Seen
  <2>5. ASSUME NEW x \in Nat, files'[handle] = Append(u, x)
        PROVE  /\ Len(files[handle]) <= Len(files'[handle])
               /\ truncations = 0 => SubSeq(files'[handle], from + 1, offset) = Seen
    <3>1. PICK t \in Seq(Nat) : Append(u, x) = u \o t
      <4>1. <<x>> \in Seq(Nat) /\ Append(u, x) = u \o <<x>>
        OBVIOUS
      <4> QED BY <4>1
    <3>2. Len(u) <= Len(Append(u, x))
      OBVIOUS
    <3>3. ASSUME truncations = 0
          PROVE  SubSeq(files'[handle], from + 1, offset) = Seen
      <4>1. PICK a \in Nat, b \in Nat : a = from /\ b = offset /\ a <= b /\ b <= Len(u)
        BY <1>3, <2>2, <3>3 DEF SplitInv, SplitSoFar, FollowInv, TailInv
      <4>2. SubSeq(u \o t, a + 1, b) = SubSeq(u, a + 1, b)
        BY <4>1, PartOfJoined
      <4> QED BY <2>2, <2>5, <3>1, <4>1, <4>2 DEF Seen
    <3> QED BY <2>2, <2>5, <3>2, <3>3
  <2> QED BY <2>3, <2>4, <2>5
<1>4. CASE ~Truncate
  <2>1. truncations' = truncations
    BY <1>4 DEF LogStep, Write, RenameAway, Create, Reopen
  <2>2. Reading' => Reading
    BY <1>1 DEF Reading
  <2> QED BY <1>1, <1>3, <1>4, <2>1, <2>2, SplitStays
<1> QED BY <1>2, <1>4
LEMMA SplitStarts ==
    ASSUME LogInit, TailInit
    PROVE  SplitInv
BY DEF LogInit, TailInit, SplitInv, SplitSoFar, Reading

LEMMA TailSplits ==
    ASSUME FollowInv, FollowInv', SplitInv, TailStep
    PROVE  SplitInv'
<1>1. CASE OpenFile \/ IoError
  <2>1. /\ UNCHANGED <<offset, leftover, raw, delivered, from, base>> /\ truncations' = truncations
        /\ tpc' \in {"open", "seek"} => tpc \in {"open", "seek"}
        /\ ~Reading'
    BY <1>1 DEF OpenFile, IoError, Reading, logVars, tailHistory
  <2> QED BY <2>1, SplitStays
<1> QED BY <1>1, SeekSplit, LookSplit, ReadSplit, ReturnSplit DEF TailStep

\* A call begins, or the tailer rests.
LEMMA OthersSplit ==
    ASSUME FollowInv, FollowInv', SplitInv,
           UNCHANGED <<handle, offset, leftover, raw, delivered, from, base, logVars>>,
           (tpc = "idle" /\ tpc' = "stat") \/ tpc' = tpc
    PROVE  SplitInv'
<1>1. /\ UNCHANGED <<files, handle, offset, leftover, raw, delivered, from, base>>
      /\ truncations' = truncations
      /\ tpc' \in {"open", "seek"} => tpc \in {"open", "seek"}
      /\ Reading' => Reading
  BY DEF logVars, Reading
<1>2. ASSUME Reading
      PROVE  /\ Len(files[handle]) <= Len(files'[handle])
             /\ SubSeq(files'[handle], from + 1, offset) = Seen
  <2>1. files \in Seq(Seq(Nat)) /\ handle \in 0 .. Len(files) /\ handle # 0
    BY <1>2 DEF FollowInv, LogInv, TailInv, Reading, NoFile
  <2>2. Len(files[handle]) \in Nat
    BY <2>1, InodeTypes
  <2> QED BY <1>1, <2>2 DEF Seen
<1> QED BY <1>1, <1>2, SplitStays

\* Between two calls, done is all that was read.
LEMMA SplitInvImplies == FollowInv /\ SplitInv => (truncations = 0 => OneSplit)
<1> SUFFICES ASSUME FollowInv, SplitInv, truncations = 0, tpc = "idle"
             PROVE  /\ SubSeq(delivered, base + 1, Len(delivered)) = Lines(SubSeq(files[handle], from + 1, offset))
                    /\ leftover = PartialLine(SubSeq(files[handle], from + 1, offset))
  BY DEF OneSplit
<1>1. PICK done \in Seq(Nat) : SplitUpTo(done)
  BY DEF SplitInv, SplitSoFar, Reading
<1>2. raw = <<>>
  BY DEF FollowInv, TailInv
<1>3. done \o <<>> = done
  OBVIOUS
<1> QED BY <1>1, <1>2, <1>3 DEF SplitUpTo, Seen, Told

\* As long as nothing has been truncated, the present file is handed over as one
\* split of what has been read of it, however many calls and buffers it took
\* (the leftover buffering of read_new_lines).
THEOREM OneSplitHolds == Spec => [](truncations = 0 => OneSplit)
<1>1. Init => SplitInv
  BY SplitStarts DEF Init
<1>2. FollowInv /\ FollowInv' /\ SplitInv /\ [Next]_vars => SplitInv'
  <2> SUFFICES ASSUME FollowInv, FollowInv', SplitInv, [Next]_vars PROVE SplitInv'
    OBVIOUS
  <2>1. CASE Call /\ UNCHANGED <<tailHistory, logVars>>
    BY <2>1, OthersSplit DEF Call, tailHistory
  <2>2. CASE TailStep
    BY <2>2, TailSplits
  <2>3. CASE LogStep /\ UNCHANGED <<tailVars, tailHistory>>
    BY <2>3, LogSplit
  <2>4. CASE UNCHANGED vars
    BY <2>4, OthersSplit DEF vars, tailVars, tailHistory
  <2> QED BY <2>1, <2>2, <2>3, <2>4 DEF Next
<1>3. FollowInv /\ SplitInv => (truncations = 0 => OneSplit)
  BY SplitInvImplies
<1> QED BY <1>1, <1>2, <1>3, TailerInvariant, PTL DEF Spec

-----------------------------------------------------------------------------
(* Numbers of bytes and of lines. *)

LEMMA LineLength == LineBytes \in Nat /\ LineBytes > 1 /\ LineBytes \in Nat \ {0}
BY LogFileAssumption

LEMMA DivMod ==
    ASSUME NEW a \in Int, NEW d \in Nat \ {0}
    PROVE  /\ a \div d \in Int /\ a % d \in 0 .. d - 1
           /\ a = d * (a \div d) + (a % d)
OBVIOUS

LEMMA NextMultiple ==
    ASSUME NEW p \in Int, NEW q \in Int, NEW d \in Nat \ {0}, p < q
    PROVE  d * p + d <= d * q
<1>1. p + 1 <= q
  OBVIOUS
<1>2. d * (p + 1) <= d * q
  BY <1>1
<1>3. d * (p + 1) = d * p + d
  OBVIOUS
<1> QED BY <1>2, <1>3

LEMMA DivModUnique ==
    ASSUME NEW a \in Int, NEW d \in Nat \ {0}, NEW q \in Int, NEW r \in 0 .. d - 1, a = d * q + r
    PROVE  a \div d = q /\ a % d = r
<1>1. PICK p \in Int, s \in 0 .. d - 1 : p = a \div d /\ s = a % d /\ a = d * p + s
  BY DivMod
<1>2. ~(q < p)
  BY <1>1, NextMultiple
<1>3. ~(p < q)
  BY <1>1, NextMultiple
<1> QED BY <1>1, <1>2, <1>3

LEMMA Multiple ==
    ASSUME NEW a \in Nat, NEW d \in Nat \ {0}, a % d = 0
    PROVE  \E q \in Nat : a = d * q
<1>1. PICK q \in Int : a = d * q + 0
  BY DivMod
<1>2. ~(q < 0)
  <2>1. q < 0 => d * q + d <= d * 0
    BY NextMultiple
  <2>2. d * 0 = 0
    OBVIOUS
  <2> QED BY <1>1, <2>1, <2>2
<1> QED BY <1>1, <1>2

LEMMA MultipleOf ==
    ASSUME NEW q \in Int, NEW d \in Nat \ {0}
    PROVE  (d * q) % d = 0
<1>1. d * q \in Int /\ d * q = d * q + 0 /\ 0 \in 0 .. d - 1
  OBVIOUS
<1> QED BY <1>1, DivModUnique

LEMMA SumOfProducts ==
    ASSUME NEW d \in Nat, NEW p \in Int, NEW q \in Int
    PROVE  d * (p + q) = d * p + d * q
OBVIOUS

\* Where the bytes start at a line, the newlines are at every LineBytes-th place.
LEMMA NewlineAt ==
    ASSUME NEW q \in Nat, NEW m \in Nat \ {0}
    PROVE  IsNewline(LineBytes * q + (m - 1)) <=> m % LineBytes = 0
<1>1. PICK d \in Nat \ {0} : d = LineBytes /\ d > 1
  BY LineLength
<1>2. PICK u \in Int, r \in 0 .. d - 1 : m = d * u + r /\ r = m % d
  <2>1. m \in Int
    OBVIOUS
  <2>2. m \div d \in Int /\ m % d \in 0 .. d - 1 /\ m = d * (m \div d) + (m % d)
    BY <2>1, DivMod
  <2> QED BY <2>2
<1>3. PICK a \in Int : a = d * q + (m - 1)
  OBVIOUS
<1>4. CASE r = 0
  <2>1. d * (q + (u - 1)) = d * q + d * (u - 1) /\ d * (u - 1) = d * u - d
    OBVIOUS
  <2>2. a = d * (q + (u - 1)) + (d - 1)
    BY <1>2, <1>3, <1>4, <2>1
  <2>3. a % d = d - 1
    <3>1. q + (u - 1) \in Int /\ d - 1 \in 0 .. d - 1
      BY <1>1
    <3> QED BY <2>2, <3>1, DivModUnique
  <2> QED BY <1>1, <1>2, <1>3, <1>4, <2>3 DEF IsNewline
<1>5. CASE r # 0
  <2>1. a = d * (q + u) + (r - 1)
    <3>1. PICK v \in Int, w \in Int, x \in Int : v = d * q /\ w = d * u /\ x = d * (q + u) /\ x = v + w
      OBVIOUS
    <3>2. m = w + r /\ a = v + (m - 1)
      BY <1>2, <1>3, <3>1
    <3>3. a = x + (r - 1)
      BY ONLY <3>1, <3>2, m \in Nat, r \in Int
    <3> QED BY <3>1, <3>3
  <2>2. a % d = r - 1
    <3>1. q + u \in Int /\ r - 1 \in 0 .. d - 1
      BY <1>5
    <3> QED BY <2>1, <3>1, DivModUnique
  <2> QED BY <1>1, <1>2, <1>3, <1>5, <2>2 DEF IsNewline
<1> QED BY <1>4, <1>5

-----------------------------------------------------------------------------
(* A single line in a sequence of bytes. *)

\* From one line's end to the next.
LineBetween(bytes, s, e) ==
    /\ s \in Nat /\ e \in Nat /\ s < e /\ e <= Len(bytes)
    /\ s = 0 \/ IsNewline(bytes[s])
    /\ IsNewline(bytes[e])
    /\ \A i \in s + 1 .. e - 1 : ~IsNewline(bytes[i])

LEMMA CountStrict ==
    ASSUME NEW bytes \in Seq(Nat), NEW m \in Nat, NEW n \in Nat, m < n, IsNewline(bytes[n])
    PROVE  Count(bytes, m) + 1 <= Count(bytes, n)
<1>1. PICK j \in Nat : n = j + 1 /\ m <= j
  <2>1. n - 1 \in Nat /\ n = (n - 1) + 1 /\ m <= n - 1
    OBVIOUS
  <2> QED BY <2>1
<1>2. Count(bytes, n) = Count(bytes, j) + 1
  BY <1>1, CountNext
<1>3. Count(bytes, m) <= Count(bytes, j) /\ Count(bytes, m) \in Nat /\ Count(bytes, j) \in Nat
  BY <1>1, CountGrows, CountType
<1> QED BY <1>2, <1>3

LEMMA CountOfNone ==
    ASSUME NEW bytes \in Seq(Nat)
    PROVE  Count(bytes, 0) = 0
BY CountType

\* Each of the lines runs from one line's end to the next.
LEMMA EachLine ==
    ASSUME NEW bytes \in Seq(Nat), NEW k \in 1 .. LineCount(bytes)
    PROVE  \E s, e \in Nat :
             /\ LineBetween(bytes, s, e) /\ Lines(bytes)[k] = SubSeq(bytes, s + 1, e - 1)
             /\ s = 0 => k = 1
<1>0. LineCount(bytes) \in Nat /\ Len(bytes) \in Nat
  BY CountType DEF LineCount, Count
<1>1. PICK j \in 0 .. LineCount(bytes) : j = k - 1 /\ j < k /\ k \in 0 .. LineCount(bytes) /\ k = j + 1
  <2>1. /\ k - 1 \in 0 .. LineCount(bytes) /\ k - 1 < k /\ k \in 0 .. LineCount(bytes)
        /\ k = (k - 1) + 1
    BY <1>0
  <2> QED BY <2>1
<1>2. PICK s \in Nat : s = LineEnd(bytes, j) /\ Count(bytes, s) = j /\ (s = 0 \/ IsNewline(bytes[s]))
  BY LineEndExists
<1>3. PICK e \in Nat : /\ e = LineEnd(bytes, k) /\ Count(bytes, e) = k /\ (e = 0 \/ IsNewline(bytes[e]))
                       /\ e <= Len(bytes)
  BY <1>1, LineEndExists
<1>4. s < e
  BY <1>1, <1>2, <1>3, LineEndsAscend
<1>5. ASSUME NEW i \in s + 1 .. e - 1
      PROVE  ~IsNewline(bytes[i])
  <2>1. i \in Nat /\ s < i /\ i < e /\ e # 0
    BY <1>4
  <2>2. IsNewline(bytes[i]) => Count(bytes, s) + 1 <= Count(bytes, i)
    BY <2>1, CountStrict
  <2>3. Count(bytes, i) + 1 <= Count(bytes, e)
    BY <1>3, <2>1, CountStrict
  <2>4. Count(bytes, i) \in Nat
    BY <2>1, CountType
  <2> QED BY <1>1, <1>2, <1>3, <2>2, <2>3, <2>4
<1>6. LineBetween(bytes, s, e)
  <2>1. e # 0
    BY <1>4
  <2> QED BY <1>2, <1>3, <1>4, <1>5, <2>1 DEF LineBetween
<1>7. Lines(bytes)[k] = SubSeq(bytes, s + 1, e - 1)
  BY <1>1, <1>2, <1>3 DEF Lines
<1>8. s = 0 => k = 1
  BY <1>1, <1>2, CountOfNone
<1> QED BY <1>6, <1>7, <1>8

\* And what runs from one line's end to the next is one of the lines.
LEMMA IsALine ==
    ASSUME NEW bytes \in Seq(Nat), NEW s \in Nat, NEW e \in Nat, LineBetween(bytes, s, e)
    PROVE  \E k \in 1 .. LineCount(bytes) : Lines(bytes)[k] = SubSeq(bytes, s + 1, e - 1)
<1>0. /\ LineCount(bytes) \in Nat /\ Len(bytes) \in Nat /\ s < e /\ e <= Len(bytes)
      /\ s \in 0 .. Len(bytes) /\ e \in 0 .. Len(bytes)
  <2>1. LineCount(bytes) \in Nat /\ Len(bytes) \in Nat
    BY CountType DEF LineCount, Count
  <2>2. s < e /\ e <= Len(bytes)
    BY DEF LineBetween
  <2> QED BY <2>1, <2>2
<1>1. PICK j \in Nat : j = Count(bytes, s) /\ j \in 0 .. LineCount(bytes) /\ LineEnd(bytes, j) = s
  BY <1>0, CountType, LineEndUnique DEF LineBetween
<1>2. PICK k \in Nat : k = Count(bytes, e) /\ k \in 0 .. LineCount(bytes) /\ LineEnd(bytes, k) = e
  BY <1>0, CountType, LineEndUnique DEF LineBetween
<1>3. k = j + 1
  <2>1. Newlines(bytes, e) = Newlines(bytes, s) \cup {e} /\ e \notin Newlines(bytes, s)
    <3>1. \A i \in 1 .. e : i \in 1 .. s \/ i \in s + 1 .. e - 1 \/ i = e
      BY <1>0
    <3>2. e \in 1 .. e /\ e \notin 1 .. s /\ \A i \in 1 .. s : i \in 1 .. e
      BY <1>0
    <3> QED BY <3>1, <3>2 DEF Newlines, LineBetween
  <2>2. IsFiniteSet(Newlines(bytes, s))
    BY CountType
  <2> QED BY <1>1, <1>2, <2>1, <2>2, FS_AddElement DEF Count
<1>4. k \in 1 .. LineCount(bytes) /\ k - 1 = j
  BY <1>0, <1>1, <1>2, <1>3
<1>5. Lines(bytes)[k] = SubSeq(bytes, s + 1, e - 1)
  BY <1>1, <1>2, <1>4 DEF Lines
<1> QED BY <1>4, <1>5

-----------------------------------------------------------------------------
(* The files hold whole lines. *)

LinedUp(bytes, q) == \A i \in DOMAIN bytes : bytes[i] = LineBytes * q + (i - 1)

\* Every file begins with a line and goes on without a gap; only the one that
\* is being written may end within a line.
FilesInv ==
    /\ next <= MaxBytes
    /\ \A f \in DOMAIN files : \E q \in Nat : LinedUp(files[f], q)
    /\ \A f \in DOMAIN files : f < writer => Len(files[f]) % LineBytes = 0
    /\ \E q \in Nat : LinedUp(files[writer], q) /\ next = LineBytes * q + Len(files[writer])

LEMMA FilesStart ==
    ASSUME LogInit
    PROVE  FilesInv
<1>1. /\ files = <<<<>>>> /\ writer = 1 /\ next = 0 /\ DOMAIN files = {1}
      /\ files[1] = <<>> /\ DOMAIN files[1] = {} /\ Len(files[1]) = 0
  BY DEF LogInit
<1>2. LinedUp(files[1], 0) /\ LineBytes * 0 = 0 /\ 0 \in Nat /\ MaxBytes \in Nat
  BY <1>1, LogFileAssumption DEF LinedUp
<1> QED BY <1>1, <1>2 DEF FilesInv

LEMMA WriteFiles ==
    ASSUME FollowInv, FilesInv, Write
    PROVE  FilesInv'
<1>1. /\ files \in Seq(Seq(Nat)) /\ writer \in DOMAIN files /\ next \in Nat /\ next < MaxBytes
      /\ files' = [files EXCEPT ![writer] = Append(files[writer], next)]
      /\ next' = next + 1 /\ writer' = writer
  BY DEF FollowInv, LogInv, Write
<1>2. /\ DOMAIN files' = DOMAIN files /\ files'[writer] = Append(files[writer], next)
      /\ \A f \in DOMAIN files : f # writer => files'[f] = files[f]
      /\ \A f \in DOMAIN files : f \in Nat
  BY <1>1
<1>3. PICK u \in Seq(Nat), q \in Nat, n \in Nat :
          u = files[writer] /\ n = Len(u) /\ LinedUp(u, q) /\ next = LineBytes * q + n
  <2>1. files[writer] \in Seq(Nat) /\ Len(files[writer]) \in Nat
    BY <1>1
  <2> QED BY <2>1 DEF FilesInv
<1>4. LinedUp(files'[writer], q)
  <2>1. /\ DOMAIN Append(u, next) = 1 .. n + 1 /\ DOMAIN u = 1 .. n
        /\ Append(u, next)[n + 1] = next /\ \A i \in 1 .. n : Append(u, next)[i] = u[i]
    BY <1>1, <1>3
  <2>2. (n + 1) - 1 = n /\ \A i \in 1 .. n + 1 : i = n + 1 \/ i \in 1 .. n
    OBVIOUS
  <2> QED BY <1>2, <1>3, <2>1, <2>2 DEF LinedUp
<1>5. next' = LineBytes * q + Len(files'[writer])
  <2>1. Len(Append(u, next)) = n + 1
    BY <1>3
  <2>2. LineBytes * q \in Nat
    BY LineLength
  <2> QED BY <1>1, <1>2, <1>3, <2>1, <2>2
<1>6. next' <= MaxBytes
  BY <1>1, LogFileAssumption
<1>7. \A f \in DOMAIN files' : \E p \in Nat : LinedUp(files'[f], p)
  BY <1>2, <1>4 DEF FilesInv
<1>8. \A f \in DOMAIN files' : f < writer' => Len(files'[f]) % LineBytes = 0
  <2>1. \A f \in DOMAIN files : f < writer => f # writer
    BY <1>1, <1>2
  <2> QED BY <1>1, <1>2, <2>1 DEF FilesInv
<1> QED BY <1>1, <1>4, <1>5, <1>6, <1>7, <1>8 DEF FilesInv

LEMMA EmptyLinedUp == \A q : LinedUp(<<>>, q)
BY DEF LinedUp

LEMMA CreateFiles ==
    ASSUME FollowInv, FilesInv, Create
    PROVE  FilesInv'
<1>1. /\ files \in Seq(Seq(Nat)) /\ writer \in DOMAIN files /\ files' = Append(files, <<>>)
      /\ next' = next /\ writer' = writer
  BY DEF FollowInv, LogInv, Create
<1>2. PICK n \in Nat : n = Len(files)
  BY <1>1
<1>3. /\ DOMAIN files = 1 .. n /\ DOMAIN files' = 1 .. n + 1
      /\ files'[n + 1] = <<>> /\ \A f \in 1 .. n : files'[f] = files[f]
  BY <1>1, <1>2
<1>4. \A f \in 1 .. n + 1 : f = n + 1 \/ f \in 1 .. n
  OBVIOUS
<1>5. \A f \in 1 .. n + 1 : f < writer => f \in 1 .. n
  BY <1>1, <1>3
<1>6. \A f \in DOMAIN files' : \E q \in Nat : LinedUp(files'[f], q)
  BY <1>3, <1>4, EmptyLinedUp DEF FilesInv
<1>7. \A f \in DOMAIN files' : f < writer' => Len(files'[f]) % LineBytes = 0
  BY <1>1, <1>3, <1>5 DEF FilesInv
<1>8. files'[writer] = files[writer]
  BY <1>1, <1>3
<1> QED BY <1>1, <1>6, <1>7, <1>8 DEF FilesInv

LEMMA ReopenFiles ==
    ASSUME FollowInv, FilesInv, Reopen
    PROVE  FilesInv'
<1>1. /\ files \in Seq(Seq(Nat)) /\ writer \in DOMAIN files /\ next \in Nat
      /\ path \in {NoFile, Len(files)} /\ path # NoFile /\ path # writer
      /\ writer' = path /\ next % LineBytes = 0 /\ UNCHANGED <<files, next>>
  BY DEF FollowInv, LogInv, Reopen, AtLineEnd
<1>2. PICK n \in Nat : n = Len(files)
  BY <1>1
<1>3. writer' = n /\ writer \in 1 .. n /\ writer < n /\ DOMAIN files = 1 .. n
  BY <1>1, <1>2
<1>4. files[n] = <<>>
  <2>1. n \in DOMAIN files /\ n > writer
    BY <1>3
  <2> QED BY <2>1 DEF FollowInv, LogInv
<1>5. ASSUME NEW f \in 1 .. n, f < n
      PROVE  Len(files[f]) % LineBytes = 0
  <2>1. f < writer \/ f = writer \/ f > writer
    BY <1>3
  <2>2. CASE f < writer
    BY <1>3, <2>2 DEF FilesInv
  <2>3. CASE f = writer
    <3>1. PICK q \in Nat, m \in Nat : m = Len(files[writer]) /\ next = LineBytes * q + m
      <4>1. Len(files[writer]) \in Nat
        BY <1>1
      <4> QED BY <4>1 DEF FilesInv
    <3>2. PICK u \in Int, r \in 0 .. LineBytes - 1 : r = m % LineBytes /\ m = LineBytes * u + r
      <4>1. m \in Int
        OBVIOUS
      <4> QED BY <4>1, DivMod, LineLength
    <3>3. next = LineBytes * (q + u) + r
      <4>1. PICK v \in Int, w \in Int, x \in Int :
                v = LineBytes * q /\ w = LineBytes * u /\ x = LineBytes * (q + u) /\ x = v + w
        BY LineLength
      <4>2. next = v + m /\ m = w + r
        BY <3>1, <3>2, <4>1
      <4>3. next = x + r
        BY ONLY <4>1, <4>2, m \in Nat, r \in Int
      <4> QED BY <4>1, <4>3
    <3>4. next % LineBytes = r
      <4>1. next \in Int /\ q + u \in Int
        BY <1>1
      <4> QED BY <3>3, <4>1, DivModUnique, LineLength
    <3> QED BY <1>1, <2>3, <3>1, <3>2, <3>4
  <2>4. CASE f > writer
    <3>1. files[f] = <<>>
      BY <1>3, <2>4 DEF FollowInv, LogInv
    <3>2. Len(<<>>) = 0 /\ 0 % LineBytes = 0
      BY LineLength
    <3> QED BY <3>1, <3>2
  <2> QED BY <2>1, <2>2, <2>3, <2>4
<1>6. PICK q \in Nat : next = LineBytes * q
  BY <1>1, Multiple, LineLength
<1>7. LinedUp(files[n], q) /\ next = LineBytes * q + Len(files[n])
  <2>1. Len(<<>>) = 0 /\ LineBytes * q \in Nat
    BY LineLength
  <2> QED BY <1>4, <1>6, <2>1, EmptyLinedUp
<1>8. \A f \in DOMAIN files' : f < writer' => Len(files'[f]) % LineBytes = 0
  BY <1>1, <1>3, <1>5
<1> QED BY <1>1, <1>3, <1>7, <1>8 DEF FilesInv

LEMMA TruncateFiles ==
    ASSUME FollowInv, FilesInv, Truncate
    PROVE  FilesInv'
<1>1. /\ files \in Seq(Seq(Nat)) /\ writer \in DOMAIN files /\ next \in Nat
      /\ files' = [files EXCEPT ![writer] = <<>>] /\ next % LineBytes = 0 /\ UNCHANGED <<writer, next>>
  BY DEF FollowInv, LogInv, Truncate, AtLineEnd
<1>2. /\ DOMAIN files' = DOMAIN files /\ files'[writer] = <<>>
      /\ \A f \in DOMAIN files : f # writer => files'[f] = files[f]
      /\ \A f \in DOMAIN files : f < writer => f # writer
  BY <1>1
<1>3. PICK q \in Nat : next = LineBytes * q
  BY <1>1, Multiple, LineLength
<1>4. LinedUp(files'[writer], q) /\ next = LineBytes * q + Len(files'[writer])
  <2>1. Len(<<>>) = 0 /\ LineBytes * q \in Nat
    BY LineLength
  <2> QED BY <1>2, <1>3, <2>1, EmptyLinedUp
<1>5. \A f \in DOMAIN files' : \E p \in Nat : LinedUp(files'[f], p)
  BY <1>2, <1>4 DEF FilesInv
<1>6. \A f \in DOMAIN files' : f < writer' => Len(files'[f]) % LineBytes = 0
  BY <1>1, <1>2 DEF FilesInv
<1> QED BY <1>1, <1>4, <1>5, <1>6 DEF FilesInv

LEMMA FilesKeep ==
    ASSUME FollowInv, FilesInv, LogStep \/ UNCHANGED logVars
    PROVE  FilesInv'
<1>1. CASE UNCHANGED logVars \/ RenameAway
  <2>1. UNCHANGED <<files, writer, next>>
    BY <1>1 DEF logVars, RenameAway
  <2> QED BY <2>1 DEF FilesInv
<1> QED BY <1>1, WriteFiles, CreateFiles, ReopenFiles, TruncateFiles DEF LogStep

-----------------------------------------------------------------------------
(* Which line it is. *)

LEMMA WholeLineType ==
    ASSUME NEW n \in Nat
    PROVE  /\ WholeLine(n) \in Seq(Nat) /\ Len(WholeLine(n)) = LineBytes - 1
           /\ \A i \in 1 .. LineBytes - 1 : WholeLine(n)[i] = LineBytes * n + (i - 1)
<1>1. PICK d \in Nat : d = LineBytes /\ d > 1
  BY LineLength
<1>2. \A i \in 1 .. d - 1 : n * d + i - 1 \in Nat /\ n * d + i - 1 = d * n + (i - 1)
  <2> TAKE i \in 1 .. d - 1
  <2>1. PICK v \in Nat : v = n * d /\ v = d * n
    OBVIOUS
  <2>2. v + i - 1 \in Nat /\ v + i - 1 = v + (i - 1)
    OBVIOUS
  <2> QED BY <2>1, <2>2
<1>3. WholeLine(n) = [i \in 1 .. d - 1 |-> n * d + i - 1]
  BY <1>1 DEF WholeLine
<1>4. d - 1 \in Nat
  BY <1>1
<1>5. [i \in 1 .. d - 1 |-> n * d + i - 1] \in Seq(Nat)
  BY <1>2, <1>4
<1>6. DOMAIN WholeLine(n) = 1 .. d - 1
  BY <1>3
<1>7. Len(WholeLine(n)) = d - 1
  BY <1>3, <1>4, <1>5, <1>6
<1> QED BY <1>1, <1>2, <1>3, <1>5, <1>7

\* v is the part of the file u, which begins with line q, from f to a.
PartOfLines(u, q, f, a, v) ==
    /\ LinedUp(u, q) /\ AllBelow(u, MaxBytes)
    /\ f <= a /\ a <= Len(u) /\ v = SubSeq(u, f + 1, a)
\* The text is the end of the line that is s behind f, the whole of it unless
\* the part begins within it.
EndOfLine(q, f, s, text) ==
    \E w \in Nat, r \in 0 .. LineBytes - 1 :
        /\ f + s = LineBytes * w + r /\ q + w \in LineNumbers
        /\ text = SubSeq(WholeLine(q + w), r + 1, LineBytes - 1)
        /\ r # 0 => s = 0

\* What runs from one line's end to the next is the end of a line.
LEMMA LineText ==
    ASSUME NEW u \in Seq(Nat), NEW q \in Nat, NEW f \in Nat, NEW a \in Nat, NEW v \in Seq(Nat),
           PartOfLines(u, q, f, a, v),
           NEW s \in Nat, NEW e \in Nat, LineBetween(v, s, e)
    PROVE  EndOfLine(q, f, s, SubSeq(v, s + 1, e - 1))
<1>0. /\ LinedUp(u, q) /\ AllBelow(u, MaxBytes)
      /\ f <= a /\ a <= Len(u) /\ v = SubSeq(u, f + 1, a)
  BY DEF PartOfLines
<1>1. PICK d \in Nat \ {0} : d = LineBytes /\ d > 1
  BY LineLength
<1>2. /\ DOMAIN v = 1 .. a - f /\ Len(v) = a - f
      /\ \A x \in 1 .. a - f : f + x \in DOMAIN u /\ v[x] = u[f + x]
  <2>1. /\ DOMAIN SubSeq(u, f + 1, a) = 1 .. a - f
        /\ \A x \in 1 .. a - f : f + x \in DOMAIN u /\ SubSeq(u, f + 1, a)[x] = u[f + x]
    BY <1>0, PartOf
  <2>2. PICK n \in Nat : n = a - f
    BY <1>0
  <2>3. DOMAIN v = 1 .. n
    BY <1>0, <2>1, <2>2
  <2>4. Len(v) = n
    BY ONLY <2>3, n \in Nat, v \in Seq(Nat)
  <2> QED BY <1>0, <2>1, <2>2, <2>4
<1>3. ASSUME NEW x \in 1 .. a - f
      PROVE  v[x] = d * q + ((f + x) - 1) /\ (IsNewline(v[x]) <=> (f + x) % d = 0)
  <2>1. v[x] = d * q + ((f + x) - 1)
    BY <1>0, <1>1, <1>2 DEF LinedUp
  <2>2. f + x \in Nat \ {0}
    OBVIOUS
  <2> QED BY <1>1, <2>1, <2>2, NewlineAt
<1>4. /\ s < e /\ e <= a - f /\ e \in 1 .. a - f /\ IsNewline(v[e])
      /\ \A i \in s + 1 .. e - 1 : i \in 1 .. a - f /\ ~IsNewline(v[i])
  <2>1. /\ s < e /\ e <= Len(v) /\ IsNewline(v[e])
        /\ \A i \in s + 1 .. e - 1 : ~IsNewline(v[i])
    BY DEF LineBetween
  <2>2. PICK n \in Int : n = a - f /\ e <= n
    BY <1>2, <2>1
  <2>3. e \in 1 .. n /\ \A i \in s + 1 .. e - 1 : i \in 1 .. n
    BY <2>1, <2>2
  <2> QED BY <2>1, <2>2, <2>3
<1>5. PICK w \in Nat, r \in 0 .. d - 1 : f + s = d * w + r
  <2>1. f + s \in Nat /\ f + s \in Int
    OBVIOUS
  <2>2. PICK w \in Int, r \in 0 .. d - 1 : f + s = d * w + r
    <3>1. PICK n \in Int : n = f + s
      OBVIOUS
    <3>2. n \div d \in Int /\ n % d \in 0 .. d - 1 /\ n = d * (n \div d) + (n % d)
      BY DivMod
    <3> QED BY <3>1, <3>2
  <2>3. ~(w < 0)
    <3>1. w < 0 => d * w + d <= d * 0
      BY NextMultiple
    <3>2. d * 0 = 0
      OBVIOUS
    <3>3. PICK y \in Int, n \in Nat : y = d * w /\ n = y + r
      BY <2>1, <2>2
    <3>4. w < 0 => y + d <= 0
      BY <3>1, <3>2, <3>3
    <3>5. ~(y + d <= 0)
      BY ONLY <3>3, y \in Int, n \in Nat, d \in Nat, r \in 0 .. d - 1
    <3> QED BY <3>4, <3>5
  <2>4. w \in Nat
    BY <2>3
  <2> QED BY <2>2, <2>4
<1>6. PICK z \in Nat : f + e = d * z
  <2>1. (f + e) % d = 0
    BY <1>3, <1>4
  <2>2. PICK n \in Nat : n = f + e /\ n % d = 0
    BY <2>1
  <2>3. \E z \in Nat : n = d * z
    BY <2>2, Multiple
  <2> QED BY <2>2, <2>3
<1>7. f + e = d * w + d
  <2>1. PICK y \in Int, y1 \in Int, yz \in Int :
            y = d * w /\ y1 = d * (w + 1) /\ yz = d * z /\ y1 = y + d
    OBVIOUS
  <2>2. ~(z < w) /\ z # w
    <3>1. z < w => yz + d <= y
      BY <2>1, NextMultiple
    <3>2. z = w => yz = y
      BY <2>1
    <3>3. f + s = y + r /\ f + e = yz
      BY <1>5, <1>6, <2>1
    <3>4. ~(yz + d <= y) /\ yz # y
      BY ONLY <1>4, <3>3, y \in Int, yz \in Int, f \in Nat, s \in Nat, e \in Nat, d \in Nat, r \in 0 .. d - 1
    <3> QED BY <3>1, <3>2, <3>4
  <2>3. ~(w + 1 < z)
    <3> SUFFICES ASSUME w + 1 < z PROVE FALSE
      OBVIOUS
    <3>1. y1 + d <= yz
      BY <2>1, NextMultiple
    <3>2. PICK i \in Int : i = y1 - f
      BY <2>1
    <3>3. i \in s + 1 .. e - 1 /\ f + i = y1
      <4>1. f + s = y + r /\ f + e = yz /\ y1 = y + d /\ y1 + d <= yz /\ i = y1 - f
        BY <1>5, <1>6, <2>1, <3>1, <3>2
      <4> QED BY ONLY <4>1, i \in Int, y \in Int, y1 \in Int, yz \in Int, f \in Nat, s \in Nat, e \in Nat,
                      d \in Nat \ {0}, r \in 0 .. d - 1
    <3>4. (f + i) % d = 0
      <4>1. PICK n \in Int : n = w + 1
        OBVIOUS
      <4>2. (d * n) % d = 0
        BY MultipleOf
      <4> QED BY <2>1, <3>3, <4>1, <4>2
    <3> QED BY <1>3, <1>4, <3>3, <3>4
  <2>4. z = w + 1
    BY <2>2, <2>3
  <2> QED BY <1>6, <2>1, <2>4
<1>8. PICK c \in Nat : c = d - 1 - r /\ (e - 1) - s = c /\ e - 1 \in Nat /\ s <= e - 1 /\ e - 1 <= Len(v)
  <2>1. PICK y \in Int : y = d * w /\ f + s = y + r /\ f + e = y + d
    BY <1>5, <1>7
  <2>2. (e - 1) - s = d - 1 - r /\ d - 1 - r \in Nat
    BY <1>4, <2>1
  <2> QED BY <1>2, <1>4, <2>2
<1>9. PICK t \in Seq(Nat) :
          /\ t = SubSeq(v, s + 1, e - 1) /\ Len(t) = c
          /\ \A x \in 1 .. c : t[x] = d * q + (d * w + r + (x - 1))
  <2>1. PICK b \in Nat : b = e - 1 /\ s <= b /\ b <= Len(v) /\ b - s = c
    BY <1>8
  <2>2. /\ SubSeq(v, s + 1, b) \in Seq(Nat) /\ DOMAIN SubSeq(v, s + 1, b) = 1 .. b - s
        /\ \A x \in 1 .. b - s : s + x \in DOMAIN v /\ SubSeq(v, s + 1, b)[x] = v[s + x]
    BY <2>1, PartOf
  <2>3. PICK t \in Seq(Nat) : /\ t = SubSeq(v, s + 1, b) /\ DOMAIN t = 1 .. c
                              /\ \A x \in 1 .. c : s + x \in 1 .. a - f /\ t[x] = v[s + x]
    BY <1>2, <2>1, <2>2
  <2>4. Len(t) = c
    BY ONLY <2>3, c \in Nat, t \in Seq(Nat)
  <2>5. ASSUME NEW x \in 1 .. c
        PROVE  t[x] = d * q + (d * w + r + (x - 1))
    <3>1. t[x] = d * q + ((f + (s + x)) - 1)
      BY <1>3, <2>3
    <3>2. PICK y \in Int : y = d * w /\ f + s = y + r
      BY <1>5
    <3>3. (f + (s + x)) - 1 = y + r + (x - 1)
      BY <3>2
    <3> QED BY <3>1, <3>2, <3>3
  <2> QED BY <2>1, <2>3, <2>4, <2>5
<1>10. q + w \in LineNumbers
  <2>1. u[f + e] < MaxBytes /\ u[f + e] = d * q + ((f + e) - 1) /\ MaxBytes \in Nat
    BY <1>0, <1>2, <1>3, <1>4, LogFileAssumption DEF AllBelow
  <2>2. PICK y \in Int, yq \in Int, yw \in Int :
            y = d * w /\ yq = d * q /\ yw = d * (q + w) /\ yw = yq + y
    OBVIOUS
  <2>3. yw + d <= MaxBytes
    BY <1>7, <2>1, <2>2
  <2>4. PICK m \in Int, g \in 0 .. d - 1 : m = MaxBytes \div d /\ MaxBytes = d * m + g
    <3>1. MaxBytes \in Int
      BY <2>1
    <3>2. MaxBytes \div d \in Int /\ MaxBytes % d \in 0 .. d - 1 /\ MaxBytes = d * (MaxBytes \div d) + (MaxBytes % d)
      BY <3>1, DivMod
    <3> QED BY <3>2
  <2>5. ~(m < q + w)
    <3>1. PICK ym \in Int : ym = d * m
      OBVIOUS
    <3>2. m < q + w => ym + d <= yw
      BY <2>2, <3>1, NextMultiple
    <3> QED BY <2>1, <2>3, <2>4, <3>1, <3>2
  <2> QED BY <1>1, <2>4, <2>5 DEF LineNumbers
<1>11. t = SubSeq(WholeLine(q + w), r + 1, d - 1)
  <2>1. PICK line \in Seq(Nat) :
            /\ line = WholeLine(q + w) /\ Len(line) = d - 1
            /\ \A i \in 1 .. d - 1 : line[i] = d * (q + w) + (i - 1)
    <3>1. q + w \in Nat
      OBVIOUS
    <3> QED BY <1>1, <3>1, WholeLineType
  <2>2. PICK b \in Nat : b = d - 1 /\ r <= b /\ b <= Len(line) /\ b - r = c /\ r \in Nat
    BY <1>8, <2>1
  <2>3. /\ SubSeq(line, r + 1, b) \in Seq(Nat) /\ DOMAIN SubSeq(line, r + 1, b) = 1 .. b - r
        /\ \A x \in 1 .. b - r : r + x \in DOMAIN line /\ SubSeq(line, r + 1, b)[x] = line[r + x]
    BY <2>2, PartOf
  <2>4. PICK z2 \in Seq(Nat) : /\ z2 = SubSeq(line, r + 1, b) /\ DOMAIN z2 = 1 .. c
                               /\ \A x \in 1 .. c : r + x \in 1 .. d - 1 /\ z2[x] = line[r + x]
    <3>1. DOMAIN SubSeq(line, r + 1, b) = 1 .. c /\ DOMAIN line = 1 .. d - 1
      <4>1. DOMAIN line = 1 .. Len(line) /\ DOMAIN SubSeq(line, r + 1, b) = 1 .. b - r
        BY <2>3
      <4> QED BY <2>1, <2>2, <4>1
    <3> QED BY <2>2, <2>3, <3>1
  <2>5. Len(z2) = c
    BY ONLY <2>4, c \in Nat, z2 \in Seq(Nat)
  <2>6. ASSUME NEW x \in 1 .. c
        PROVE  t[x] = z2[x]
    <3>1. z2[x] = d * (q + w) + ((r + x) - 1)
      BY <2>1, <2>4
    <3>2. PICK y \in Int, yq \in Int, yw \in Int :
              y = d * w /\ yq = d * q /\ yw = d * (q + w) /\ yw = yq + y
      OBVIOUS
    <3>3. t[x] = yq + (y + r + (x - 1)) /\ z2[x] = yw + ((r + x) - 1)
      BY <1>9, <3>1, <3>2
    <3> QED BY <3>2, <3>3
  <2>7. t = z2
    BY <1>9, <2>5, <2>6, SeqEqual
  <2> QED BY <2>1, <2>2, <2>4, <2>7
<1>12. r # 0 => s = 0
  <2> SUFFICES ASSUME s # 0 PROVE r = 0
    OBVIOUS
  <2>1. s \in 1 .. a - f /\ IsNewline(v[s])
    BY <1>4 DEF LineBetween
  <2>2. (f + s) % d = 0
    BY <1>3, <2>1
  <2>3. (f + s) % d = r
    <3>1. PICK n \in Int : n = f + s /\ n = d * w + r /\ w \in Int
      BY <1>5
    <3>2. n % d = r
      BY <3>1, DivModUnique
    <3> QED BY <3>1, <3>2
  <2> QED BY <2>2, <2>3
<1> QED BY <1>1, <1>5, <1>9, <1>10, <1>11, <1>12 DEF EndOfLine

-----------------------------------------------------------------------------
(* Where reading of a file begins. *)

\* At a line, or where open found the end of the file that is still the first
\* one; what is in front of it was written before open.
OpenInv ==
    /\ opened \in Nat
    /\ truncations = 0 /\ Reading =>
        /\ from % LineBytes = 0 \/ (base = 0 /\ opened = files[handle][1] + from)
        /\ \A i \in 1 .. from : files[handle][i] < opened

LEMMA HandleTypes ==
    ASSUME FollowInv, Reading
    PROVE  /\ handle \in DOMAIN files /\ files[handle] \in Seq(Nat) /\ Len(files[handle]) \in Nat
           /\ DOMAIN files[handle] = 1 .. Len(files[handle]) /\ AllBelow(files[handle], next)
<1>1. files \in Seq(Seq(Nat)) /\ handle \in 0 .. Len(files) /\ handle # 0
  BY DEF FollowInv, LogInv, TailInv, Reading, NoFile
<1>2. handle \in DOMAIN files /\ files[handle] \in Seq(Nat) /\ Len(files[handle]) \in Nat
  BY <1>1, InodeTypes
<1> QED BY <1>2 DEF FollowInv, LogInv

LEMMA OpenStays ==
    ASSUME SplitInv, OpenInv, UNCHANGED <<from, base, opened>>,
           truncations' = 0 => truncations = 0,
           Reading' => Reading /\ handle' = handle,
           truncations = 0 /\ Reading => \A i \in 1 .. from : files'[handle][i] = files[handle][i]
    PROVE  OpenInv'
<1> SUFFICES ASSUME truncations' = 0, Reading'
             PROVE  /\ from % LineBytes = 0 \/ (base = 0 /\ opened = files'[handle][1] + from)
                    /\ \A i \in 1 .. from : files'[handle][i] < opened
  BY DEF OpenInv
<1>1. /\ truncations = 0 /\ Reading /\ handle' = handle /\ from \in Nat
      /\ \A i \in 1 .. from : files'[handle][i] = files[handle][i]
  BY DEF SplitInv, SplitSoFar
<1>2. from % LineBytes # 0 => 1 \in 1 .. from
  <2>1. 0 % LineBytes = 0
    BY LineLength
  <2>2. from # 0 => 1 \in 1 .. from
    BY <1>1
  <2> QED BY <2>1, <2>2
<1> QED BY <1>1, <1>2 DEF OpenInv

LEMMA SeekOpens ==
    ASSUME FollowInv, SplitInv, FilesInv, SeekToEnd
    PROVE  OpenInv'
<1>0. opened' \in Nat
  BY DEF SeekToEnd, FollowInv, LogInv
<1> SUFFICES ASSUME truncations' = 0, Reading'
             PROVE  /\ from' % LineBytes = 0 \/ (base' = 0 /\ opened' = files'[handle'][1] + from')
                    /\ \A i \in 1 .. from' : files'[handle'][i] < opened'
  BY <1>0 DEF OpenInv
<1>1. /\ truncations = 0 /\ UNCHANGED <<files, handle, base>> /\ tpc = "seek"
      /\ from' = Len(files[handle]) /\ opened' = next
  BY DEF SeekToEnd, logVars
<1>2. /\ files \in Seq(Seq(Nat)) /\ handle \in 0 .. Len(files) /\ handle # 0
      /\ writer \in DOMAIN files /\ base = 0
  BY <1>1 DEF FollowInv, LogInv, TailInv, NoFile, SplitInv, SplitSoFar
<1>3. PICK u \in Seq(Nat), n \in Nat :
          /\ u = files[handle] /\ n = Len(u) /\ DOMAIN u = 1 .. n /\ handle \in DOMAIN files
          /\ AllBelow(u, next)
  <2>1. handle \in DOMAIN files /\ files[handle] \in Seq(Nat) /\ Len(files[handle]) \in Nat
    BY <1>2, InodeTypes
  <2> QED BY <2>1 DEF FollowInv, LogInv
<1>4. \A i \in 1 .. from' : files'[handle'][i] < opened'
  BY <1>1, <1>3 DEF AllBelow
<1>5. 0 % LineBytes = 0
  BY LineLength
<1>6. CASE handle < writer
  BY <1>1, <1>3, <1>4, <1>6 DEF FilesInv
<1>7. CASE handle > writer
  <2>1. u = <<>>
    BY <1>3, <1>7 DEF FollowInv, LogInv
  <2>2. n = 0
    BY <1>3, <2>1
  <2> QED BY <1>1, <1>3, <1>4, <1>5, <2>2
<1>8. CASE handle = writer
  <2>1. PICK q \in Nat : LinedUp(u, q) /\ next = LineBytes * q + n
    BY <1>3, <1>8 DEF FilesInv
  <2>2. CASE n = 0
    BY <1>1, <1>3, <1>4, <1>5, <2>2
  <2>3. CASE n # 0
    <3>1. PICK y \in Nat : y = LineBytes * q
      BY LineLength
    <3>2. 1 \in DOMAIN u
      BY <1>3, <2>3
    <3>3. u[1] = y + (1 - 1)
      BY <2>1, <3>1, <3>2 DEF LinedUp
    <3>4. u[1] = y /\ next = u[1] + n
      BY <2>1, <3>1, <3>3
    <3> QED BY <1>1, <1>2, <1>3, <1>4, <3>4
  <2> QED BY <2>2, <2>3
<1>9. handle < writer \/ handle > writer \/ handle = writer
  BY <1>2
<1> QED BY <1>6, <1>7, <1>8, <1>9

LEMMA StartOverOpens ==
    ASSUME OpenInv, StartOver, opened' = opened
    PROVE  OpenInv'
<1>1. from' = 0 /\ 0 % LineBytes = 0 /\ 1 .. 0 = {}
  BY LineLength DEF StartOver
<1> QED BY <1>1 DEF OpenInv

LEMMA TailOpens ==
    ASSUME FollowInv, SplitInv, FilesInv, OpenInv, TailStep
    PROVE  OpenInv'
<1>1. CASE OpenFile \/ IoError \/ Read \/ Return
  <2>1. /\ UNCHANGED <<from, base, opened>> /\ truncations' = truncations /\ files' = files
        /\ Reading' => Reading /\ handle' = handle
    BY <1>1 DEF OpenFile, IoError, Read, Return, logVars, tailHistory, Reading
  <2> QED BY <2>1, OpenStays
<1>2. CASE Stat \/ HandleRotation
  <2>1. CASE StartOver
    BY <1>2, <2>1, StartOverOpens DEF Stat, HandleRotation
  <2>2. CASE ~StartOver
    <3>1. /\ UNCHANGED <<from, base, opened>> /\ truncations' = truncations /\ files' = files
          /\ handle' = handle /\ Reading
      BY <1>2, <2>2 DEF Stat, HandleRotation, logVars, Reading
    <3> QED BY <3>1, OpenStays
  <2> QED BY <2>1, <2>2
<1> QED BY <1>1, <1>2, SeekOpens DEF TailStep

LEMMA LogOpens ==
    ASSUME FollowInv, SplitInv, OpenInv, LogStep, UNCHANGED <<tailVars, tailHistory>>
    PROVE  OpenInv'
<1>1. UNCHANGED <<tpc, handle, from, base, opened>>
  BY DEF tailVars, tailHistory
<1>2. truncations \in Nat
  BY DEF SplitInv
<1>3. CASE Truncate
  <2>1. truncations' = truncations + 1
    BY <1>3 DEF Truncate
  <2>2. truncations' # 0
    BY <1>2, <2>1
  <2> QED BY <1>1, <2>2 DEF OpenInv
<1>4. ASSUME ~Truncate, truncations = 0, Reading, NEW i \in 1 .. from
      PROVE  files'[handle][i] = files[handle][i]
  <2>1. PICK u \in Seq(Nat), n \in Nat :
            u = files[handle] /\ n = Len(u) /\ handle \in DOMAIN files /\ i \in 1 .. n
    <3>1. from \in Nat /\ offset \in Nat /\ from <= offset /\ offset <= Len(files[handle])
      BY <1>4 DEF SplitInv, SplitSoFar, FollowInv, TailInv
    <3>2. handle \in DOMAIN files /\ files[handle] \in Seq(Nat) /\ Len(files[handle]) \in Nat
      BY <1>4, HandleTypes
    <3> QED BY <3>1, <3>2
  <2>2. files \in Seq(Seq(Nat))
    BY DEF FollowInv, LogInv
  <2>3. CASE Write
    <3>1. files' = [files EXCEPT ![writer] = Append(files[writer], next)]
      BY <2>3 DEF Write
    <3>2. files'[handle] = u \/ files'[handle] = Append(u, next)
      BY <2>1, <2>2, <3>1
    <3>3. Append(u, next)[i] = u[i]
      BY <2>1
    <3> QED BY <2>1, <3>2, <3>3
  <2>4. CASE Create
    <3>1. files' = Append(files, <<>>)
      BY <2>4 DEF Create
    <3> QED BY <2>1, <2>2, <3>1
  <2> QED BY <1>4, <2>3, <2>4 DEF LogStep, RenameAway, Reopen
<1>5. CASE ~Truncate
  <2>1. truncations' = truncations
    BY <1>5 DEF LogStep, Write, RenameAway, Create, Reopen
  <2>2. Reading' => Reading
    BY <1>1 DEF Reading
  <2> QED BY <1>1, <1>4, <1>5, <2>1, <2>2, OpenStays
<1> QED BY <1>3, <1>5

-----------------------------------------------------------------------------
(* The lines of what has been seen. *)

\* The part of the present file that has been seen.
LEMMA SeenPart ==
    ASSUME FollowInv, SplitInv, FilesInv, truncations = 0, Reading
    PROVE  \E u, v \in Seq(Nat), f, a, q \in Nat :
             /\ u = files[handle] /\ f = from /\ a = offset /\ v = Seen
             /\ PartOfLines(u, q, f, a, v)
<1>1. from \in Nat /\ offset \in Nat /\ from <= offset /\ offset <= Len(files[handle])
  BY DEF SplitInv, SplitSoFar, FollowInv, TailInv
<1>2. PICK u \in Seq(Nat) : u = files[handle] /\ handle \in DOMAIN files /\ AllBelow(u, next)
  BY HandleTypes
<1>3. PICK q \in Nat : LinedUp(u, q)
  BY <1>2 DEF FilesInv
<1>4. AllBelow(u, MaxBytes)
  <2>1. next \in Nat /\ MaxBytes \in Nat /\ next <= MaxBytes
    BY LogFileAssumption DEF FollowInv, LogInv, FilesInv
  <2>2. \A x \in DOMAIN u : u[x] \in Nat
    OBVIOUS
  <2> QED BY <1>2, <2>1, <2>2 DEF AllBelow
<1>5. SubSeq(u, from + 1, offset) \in Seq(Nat)
  BY <1>1, <1>2, PartOf
<1> QED BY <1>1, <1>2, <1>3, <1>4, <1>5 DEF Seen, PartOfLines

LEMMA RestWhole ==
    ASSUME NEW n \in Nat
    PROVE  SubSeq(WholeLine(n), 0 + 1, LineBytes - 1) = WholeLine(n)
<1>1. PICK line \in Seq(Nat) : line = WholeLine(n) /\ Len(line) = LineBytes - 1
  BY WholeLineType
<1>2. SubSeq(line, 0 + 1, Len(line)) = line
  OBVIOUS
<1> QED BY <1>1, <1>2

\* Its lines are whole, but perhaps the very first.
LEMMA SeenIntact ==
    ASSUME FollowInv, SplitInv, FilesInv, OpenInv, truncations = 0, Reading,
           NEW k \in 1 .. LineCount(Seen)
    PROVE  \/ \E n \in LineNumbers : Lines(Seen)[k] = WholeLine(n)
           \/ k = 1 /\ base = 0 /\ Lines(Seen)[k] = RestOfOpenLine
<1>1. PICK u \in Seq(Nat), v \in Seq(Nat), f \in Nat, a \in Nat, q \in Nat :
             /\ u = files[handle] /\ f = from /\ a = offset /\ v = Seen
             /\ PartOfLines(u, q, f, a, v)
  BY SeenPart
<1>2. PICK s \in Nat, e \in Nat :
             /\ LineBetween(v, s, e) /\ Lines(v)[k] = SubSeq(v, s + 1, e - 1)
             /\ s = 0 => k = 1
  <2>1. k \in 1 .. LineCount(v)
    BY <1>1
  <2> QED BY <2>1, EachLine
<1>3. PICK w \in Nat, r \in 0 .. LineBytes - 1 :
             /\ f + s = LineBytes * w + r /\ q + w \in LineNumbers
             /\ SubSeq(v, s + 1, e - 1) = SubSeq(WholeLine(q + w), r + 1, LineBytes - 1)
             /\ r # 0 => s = 0
  <2>1. EndOfLine(q, f, s, SubSeq(v, s + 1, e - 1))
    BY <1>1, <1>2, LineText
  <2> QED BY <2>1 DEF EndOfLine
<1>4. CASE r = 0
  <2>1. PICK n \in LineNumbers : n = q + w /\ n \in Nat
    BY <1>3
  <2>2. Lines(v)[k] = WholeLine(n)
    BY <1>2, <1>3, <1>4, <2>1, RestWhole
  <2> QED BY <1>1, <2>1, <2>2
<1>5. CASE r # 0
  <2>1. PICK d \in Nat \ {0} : d = LineBytes
    BY LineLength
  <2>2. s = 0 /\ f = d * w + r
    BY <1>3, <1>5, <2>1
  <2>3. f % d = r
    <3>1. f \in Int /\ w \in Int /\ r \in 0 .. d - 1
      BY <2>1
    <3> QED BY <2>2, <3>1, DivModUnique
  <2>4. base = 0 /\ opened = u[1] + f
    BY <1>1, <1>5, <2>1, <2>3 DEF OpenInv
  <2>5. u[1] = d * q
    <3>1. f # 0
      <4>1. 0 % d = 0
        OBVIOUS
      <4> QED BY <1>5, <2>3, <4>1
    <3>2. 1 \in DOMAIN u
      BY <1>1, <3>1 DEF PartOfLines
    <3>3. PICK y \in Nat : y = d * q
      OBVIOUS
    <3>4. u[1] = y + (1 - 1)
      BY <1>1, <2>1, <3>2, <3>3 DEF LinedUp, PartOfLines
    <3> QED BY <3>3, <3>4
  <2>6. opened = d * (q + w) + r
    <3>1. PICK y \in Int, z \in Int, x \in Int : y = d * q /\ z = d * w /\ x = d * (q + w) /\ x = y + z
      OBVIOUS
    <3>2. opened = y + (z + r)
      BY <2>2, <2>4, <2>5, <3>1
    <3>3. y + (z + r) = x + r
      BY ONLY <3>1, y \in Int, z \in Int, x \in Int, r \in Int
    <3> QED BY <3>1, <3>2, <3>3
  <2>7. opened \div d = q + w /\ opened % d = r
    <3>1. PICK o \in Int, m \in Int : o = opened /\ m = q + w /\ o = d * m + r
      <4>1. d * (q + w) + r \in Int /\ q + w \in Int
        OBVIOUS
      <4> QED BY <2>6, <4>1
    <3>2. r \in 0 .. d - 1
      BY <2>1
    <3>3. o \div d = m /\ o % d = r
      BY <3>1, <3>2, DivModUnique
    <3> QED BY <3>1, <3>3
  <2>8. Lines(v)[k] = RestOfOpenLine
    BY <1>2, <1>3, <2>1, <2>7 DEF RestOfOpenLine, LineOf
  <2> QED BY <1>1, <1>2, <2>2, <2>4, <2>8
<1> QED BY <1>4, <1>5

\* Every complete line of the present file that was begun after open is among
\* them once all of the file has been seen.
LEMMA NewLinesSeen ==
    ASSUME FollowInv, SplitInv, FilesInv, OpenInv, truncations = 0, Reading,
           offset = Len(files[handle]), NEW n \in NewLines(handle)
    PROVE  \E k \in 1 .. LineCount(Seen) : Lines(Seen)[k] = WholeLine(n)
<1>1. PICK u \in Seq(Nat), v \in Seq(Nat), f \in Nat, a \in Nat, q \in Nat :
             /\ u = files[handle] /\ f = from /\ a = offset /\ v = Seen
             /\ PartOfLines(u, q, f, a, v)
  BY SeenPart
<1>2. PICK d \in Nat \ {0} : d = LineBytes /\ d > 1
  BY LineLength
<1>3. n \in Nat /\ n * d >= opened /\ Has(u, n)
  BY <1>1, <1>2, LogFileAssumption DEF NewLines, LineNumbers
<1>4. PICK dn \in Nat, dq \in Nat, m \in Int, dm \in Int :
          dn = d * n /\ dn = n * d /\ dq = d * q /\ m = n - q /\ dm = d * m /\ dm = dn - dq
  <2>1. d * n \in Nat /\ d * n = n * d /\ d * q \in Nat /\ n - q \in Int /\ d * (n - q) \in Int
    BY <1>3
  <2>2. d * (n - q) = d * n - d * q
    BY <1>3
  <2> QED BY <2>1, <2>2
<1>5. DOMAIN u = 1 .. a /\ Len(u) = a /\ f <= a
  <2>1. Len(u) = a /\ f <= a
    BY <1>1 DEF PartOfLines
  <2> QED BY <2>1
<1>6. \A x \in 1 .. a : u[x] = dq + (x - 1)
  BY <1>1, <1>2, <1>4, <1>5 DEF PartOfLines, LinedUp
<1>7. dm + 1 \in 1 .. a /\ dm + d \in 1 .. a
  <2>1. \A i \in 1 .. d : dm + i \in 1 .. a
    <3> TAKE i \in 1 .. d
    <3>1. PICK x \in 1 .. a : u[x] = n * d + i - 1
      BY <1>2, <1>3, <1>5 DEF Has
    <3>2. dq + (x - 1) = dn + i - 1
      BY <1>4, <1>6, <3>1
    <3>3. dm + i = x
      <4>1. dm = dn - dq
        BY <1>4
      <4>2. x \in Int /\ i \in Int
        BY <1>1
      <4> QED BY ONLY <3>2, <4>1, <4>2, dn \in Nat, dq \in Nat, dm \in Int
    <3> QED BY <3>3
  <2>2. 1 \in 1 .. d /\ d \in 1 .. d
    OBVIOUS
  <2> QED BY <2>1, <2>2
<1>8. f <= dm
  <2> SUFFICES ASSUME ~(f <= dm) PROVE FALSE
    OBVIOUS
  <2>1. dm + 1 \in 1 .. f
    BY <1>7
  <2>2. u[dm + 1] < opened
    BY <1>1, <2>1 DEF OpenInv
  <2>3. u[dm + 1] = dn
    <3>1. u[dm + 1] = dq + ((dm + 1) - 1)
      BY <1>6, <1>7
    <3> QED BY <1>4, <3>1
  <2>4. opened \in Nat
    BY DEF OpenInv
  <2> QED BY <1>3, <1>4, <2>2, <2>3, <2>4
<1>9. PICK s \in Nat, e \in Nat : f + s = dm /\ e = s + d /\ f + e = dm + d /\ s < e
  <2>1. dm - f \in Nat /\ f + (dm - f) = dm /\ f + ((dm - f) + d) = dm + d
    BY <1>8
  <2>2. (dm - f) + d \in Nat /\ dm - f < (dm - f) + d
    BY <2>1
  <2> QED BY <2>1, <2>2
<1>10. \A x \in 1 .. a - f : v[x] = dq + ((f + x) - 1) /\ (IsNewline(v[x]) <=> (f + x) % d = 0)
  <2> TAKE x \in 1 .. a - f
  <2>1. v[x] = u[f + x] /\ f + x \in 1 .. a /\ f + x \in Nat \ {0}
    <3>1. f <= a /\ a <= Len(u) /\ v = SubSeq(u, f + 1, a)
      BY <1>1 DEF PartOfLines
    <3>2. SubSeq(u, f + 1, a)[x] = u[f + x]
      BY <3>1, PartOf
    <3>3. f + x \in 1 .. a
      BY <1>5
    <3> QED BY <3>1, <3>2, <3>3
  <2>2. IsNewline(LineBytes * q + ((f + x) - 1)) <=> (f + x) % LineBytes = 0
    BY <2>1, NewlineAt
  <2> QED BY <1>2, <1>4, <1>6, <2>1, <2>2
<1>11. Len(v) = a - f /\ e <= a - f
  <2>1. PICK c \in Nat : c = a - f /\ f + c = a /\ f + c <= Len(u)
    BY <1>5
  <2>2. Len(SubSeq(u, f + 1, f + c)) = c
    BY <2>1, CutOut
  <2>3. e <= c
    BY <1>7, <1>9, <2>1
  <2> QED BY <1>1, <2>1, <2>2, <2>3 DEF PartOfLines
<1>12. LineBetween(v, s, e)
  <2>1. IsNewline(v[e])
    <3>1. e \in 1 .. a - f
      BY <1>9, <1>11
    <3>2. (f + e) % d = 0
      <4>1. PICK z \in Int : z = m + 1 /\ d * z = dm + d
        <5>1. m + 1 \in Int /\ d * (m + 1) = d * m + d
          OBVIOUS
        <5> QED BY <1>4, <5>1
      <4>2. (d * z) % d = 0
        BY MultipleOf
      <4> QED BY <1>9, <4>1, <4>2
    <3> QED BY <1>10, <3>1, <3>2
  <2>2. s = 0 \/ IsNewline(v[s])
    <3> SUFFICES ASSUME s # 0 PROVE IsNewline(v[s])
      OBVIOUS
    <3>1. s \in 1 .. a - f
      BY <1>9, <1>11
    <3>2. (f + s) % d = 0
      <4>1. (d * m) % d = 0
        BY MultipleOf
      <4> QED BY <1>4, <1>9, <4>1
    <3> QED BY <1>10, <3>1, <3>2
  <2>3. ASSUME NEW i \in s + 1 .. e - 1
        PROVE  ~IsNewline(v[i])
    <3>1. i \in 1 .. a - f
      BY <1>9, <1>11
    <3>2. PICK r \in 0 .. d - 1, y \in Int : y = f + i /\ y = dm + r /\ r # 0
      <4>1. i - s \in 0 .. d - 1 /\ f + i \in Int /\ f + i = dm + (i - s) /\ i - s # 0
        BY <1>9
      <4> QED BY <4>1
    <3>3. y = d * m + r
      BY <1>4, <3>2
    <3>4. y % d = r
      BY <3>3, DivModUnique
    <3> QED BY <1>10, <3>1, <3>2, <3>4
  <2> QED BY <1>9, <1>11, <2>1, <2>2, <2>3 DEF LineBetween
<1>13. PICK k \in 1 .. LineCount(v) : Lines(v)[k] = SubSeq(v, s + 1, e - 1)
  BY <1>12, IsALine
<1>14. SubSeq(v, s + 1, e - 1) = WholeLine(n)
  <2>1. EndOfLine(q, f, s, SubSeq(v, s + 1, e - 1))
    BY <1>1, <1>12, LineText
  <2>2. PICK w \in Nat, r \in 0 .. d - 1 :
            /\ f + s = d * w + r
            /\ SubSeq(v, s + 1, e - 1) = SubSeq(WholeLine(q + w), r + 1, d - 1)
    BY <1>2, <2>1 DEF EndOfLine
  <2>3. PICK y \in Int, t \in Int : y = f + s /\ t = w /\ y = d * t + r /\ y = d * m + 0 /\ 0 \in 0 .. d - 1
    <3>1. w \in Int /\ f + s \in Int /\ 0 \in 0 .. d - 1 /\ dm = dm + 0
      OBVIOUS
    <3> QED BY <1>4, <1>9, <2>2, <3>1
  <2>4. y \div d = w /\ y % d = r
    BY <2>3, DivModUnique
  <2>5. y \div d = m /\ y % d = 0
    BY <2>3, DivModUnique
  <2>6. q + w = n
    BY <1>3, <1>4, <2>4, <2>5
  <2> QED BY <1>2, <1>3, <2>2, <2>4, <2>5, <2>6, RestWhole
<1> QED BY <1>1, <1>13, <1>14

-----------------------------------------------------------------------------
(* What is handed over. *)

Intact(k, line) ==
    \/ \E n \in LineNumbers : line = WholeLine(n)
    \/ k = 1 /\ line = RestOfOpenLine
IntactInv == truncations = 0 => \A k \in DOMAIN delivered : Intact(k, delivered[k])

LEMMA IntactIsIntact == IntactInv => (truncations = 0 => IntactLines)
BY DEF IntactInv, Intact, IntactLines

\* What is behind place b of a sequence.
LEMMA PlacesBehind ==
    ASSUME NEW S, NEW d \in Seq(S), NEW b \in Nat, b <= Len(d)
    PROVE  /\ \A k \in DOMAIN d : k \in 1 .. b \/ \E j \in 1 .. Len(d) - b : k = b + j
           /\ Len(SubSeq(d, b + 1, Len(d))) = Len(d) - b
           /\ \A j \in 1 .. Len(d) - b : b + j \in DOMAIN d /\ SubSeq(d, b + 1, Len(d))[j] = d[b + j]
<1>1. PICK c \in Nat : Len(d) = b + c /\ c = Len(d) - b
  <2>1. Len(d) - b \in Nat /\ Len(d) = b + (Len(d) - b)
    OBVIOUS
  <2> QED BY <2>1
<1>2. DOMAIN d = 1 .. b + c
  BY <1>1
<1>3. \A k \in 1 .. b + c : k \in 1 .. b \/ \E j \in 1 .. c : k = b + j
  <2>1. \A k \in 1 .. b + c : k \in 1 .. b \/ (k - b \in 1 .. c /\ k = b + (k - b))
    OBVIOUS
  <2> QED BY <2>1
<1>4. Len(SubSeq(d, b + 1, b + c)) = c /\ \A j \in 1 .. c : SubSeq(d, b + 1, b + c)[j] = d[b + j]
  <2>1. b + c <= Len(d)
    BY <1>1
  <2> QED BY <2>1, CutOut
<1>5. \A j \in 1 .. c : b + j \in 1 .. b + c
  OBVIOUS
<1> QED BY <1>1, <1>2, <1>3, <1>4, <1>5

\* A call hands over, behind what was handed over before, the lines of what has
\* been seen.
LEMMA ReturnTells ==
    ASSUME FollowInv, FollowInv', SplitInv, SplitInv', truncations = 0, Return
    PROVE  /\ delivered \in Seq(Seq(Nat)) /\ delivered' \in Seq(Seq(Nat)) /\ base \in Nat
           /\ base <= Len(delivered) /\ base <= Len(delivered')
           /\ \A k \in DOMAIN delivered : delivered'[k] = delivered[k]
           /\ SubSeq(delivered', base + 1, Len(delivered')) = Lines(Seen)
<1>1. /\ UNCHANGED <<files, truncations, handle, offset, base, from>>
      /\ tpc = "read" /\ tpc' = "idle" /\ raw' = <<>> /\ Reading /\ Reading'
      /\ delivered' = delivered \o Lines(Pending)
  BY DEF Return, logVars, Reading, Pending
<1>2. Seen' = Seen
  BY <1>1 DEF Seen
<1>3. base \in Nat /\ base <= Len(delivered) /\ base <= Len(delivered')
  BY <1>1 DEF SplitInv, SplitSoFar
<1>4. delivered \in Seq(Seq(Nat)) /\ delivered' \in Seq(Seq(Nat)) /\ Pending \in Seq(Nat)
  BY DEF FollowInv, TailInv, Pending
<1>5. \A k \in DOMAIN delivered : delivered'[k] = delivered[k]
  <2>1. PICK o \in Seq(Seq(Nat)) : o = Lines(Pending)
    BY <1>4, LinesAreSequences
  <2>2. \A k \in 1 .. Len(delivered) : (delivered \o o)[k] = delivered[k]
    BY <1>4, JoinedSequences
  <2> QED BY <1>1, <1>4, <2>1, <2>2
<1>6. Told' = Lines(Seen)
  <2>1. (\E done \in Seq(Nat) : SplitUpTo(done))'
    BY <1>1 DEF SplitInv, SplitSoFar
  <2>2. PICK done \in Seq(Nat) : Seen' = done \o raw' /\ Told' = Lines(done)
    BY <2>1 DEF SplitUpTo
  <2>3. done \o <<>> = done
    OBVIOUS
  <2> QED BY <1>1, <1>2, <2>2, <2>3
<1>7. SubSeq(delivered', base + 1, Len(delivered')) = Lines(Seen)
  BY <1>1, <1>6 DEF Told
<1> QED BY <1>3, <1>4, <1>5, <1>7

LEMMA ReturnIntact ==
    ASSUME FollowInv, FollowInv', SplitInv, SplitInv', FilesInv, OpenInv, IntactInv, Return
    PROVE  IntactInv'
<1>1. truncations' = truncations /\ opened' = opened /\ Reading
  BY DEF Return, logVars, Reading
<1> SUFFICES ASSUME truncations = 0, NEW k \in DOMAIN delivered'
             PROVE  Intact(k, delivered'[k])
  BY <1>1 DEF IntactInv, Intact, RestOfOpenLine
<1>2. PICK new \in Seq(Seq(Nat)), b \in Nat :
          /\ new = delivered' /\ b = base /\ b <= Len(delivered) /\ b <= Len(new)
          /\ \A j \in DOMAIN delivered : new[j] = delivered[j]
          /\ SubSeq(new, b + 1, Len(new)) = Lines(Seen) /\ delivered \in Seq(Seq(Nat))
  BY ReturnTells
<1>3. CASE k \in 1 .. b
  <2>1. k \in DOMAIN delivered
    BY <1>2, <1>3
  <2> QED BY <1>2, <2>1 DEF IntactInv
<1>4. ASSUME NEW j \in 1 .. Len(new) - b, k = b + j
      PROVE  Intact(k, delivered'[k])
  <2>1. SubSeq(new, b + 1, Len(new))[j] = new[b + j] /\ Len(SubSeq(new, b + 1, Len(new))) = Len(new) - b
    BY <1>2, PlacesBehind
  <2>2. j \in 1 .. LineCount(Seen)
    <3>1. PICK v \in Seq(Nat) : v = Seen
      BY <1>1, SeenPart
    <3>2. Len(Lines(v)) = LineCount(v)
      BY LengthOfLines
    <3>3. Len(Lines(v)) = Len(new) - b
      BY <1>2, <2>1, <3>1
    <3> QED BY <3>1, <3>2, <3>3
  <2>3. \/ \E n \in LineNumbers : Lines(Seen)[j] = WholeLine(n)
        \/ j = 1 /\ base = 0 /\ Lines(Seen)[j] = RestOfOpenLine
    BY <1>1, <2>2, SeenIntact
  <2>4. delivered'[k] = Lines(Seen)[j]
    BY <1>2, <1>4, <2>1
  <2>5. j = 1 /\ base = 0 => k = 1
    BY <1>2, <1>4
  <2> QED BY <2>3, <2>4, <2>5 DEF Intact
<1>5. k \in 1 .. b \/ \E j \in 1 .. Len(new) - b : k = b + j
  BY <1>2, PlacesBehind
<1> QED BY <1>3, <1>4, <1>5

LEMMA TailIntact ==
    ASSUME FollowInv, FollowInv', SplitInv, SplitInv', FilesInv, OpenInv, IntactInv, TailStep
    PROVE  IntactInv'
<1>1. CASE SeekToEnd
  <2>1. truncations' = truncations /\ delivered' = delivered /\ tpc = "seek"
    BY <1>1 DEF SeekToEnd, logVars
  <2>2. truncations = 0 => DOMAIN delivered' = {}
    <3>1. truncations = 0 => delivered = <<>>
      BY <2>1 DEF SplitInv, SplitSoFar
    <3>2. DOMAIN <<>> = {}
      OBVIOUS
    <3> QED BY <2>1, <3>1, <3>2
  <2> QED BY <2>1, <2>2 DEF IntactInv
<1>2. CASE OpenFile \/ Stat \/ HandleRotation \/ Read \/ IoError
  <2>1. truncations' = truncations /\ UNCHANGED <<delivered, opened>>
    BY <1>2 DEF OpenFile, Stat, HandleRotation, Read, IoError, logVars, tailHistory
  <2> QED BY <2>1 DEF IntactInv, Intact, RestOfOpenLine
<1> QED BY <1>1, <1>2, ReturnIntact DEF TailStep

-----------------------------------------------------------------------------
(* The theorems. *)

LinesInv == FollowInv /\ SplitInv /\ FilesInv /\ OpenInv /\ IntactInv

LEMMA LinesStart ==
    ASSUME LogInit, TailInit
    PROVE  LinesInv
<1>1. OpenInv
  BY DEF TailInit, OpenInv, Reading
<1>2. IntactInv
  <2>1. DOMAIN <<>> = {}
    OBVIOUS
  <2> QED BY <2>1 DEF TailInit, IntactInv
<1> QED BY <1>1, <1>2, FollowStarts, SplitStarts, FilesStart DEF LinesInv

LEMMA TailKeepsLines ==
    ASSUME LinesInv, TailStep
    PROVE  LinesInv'
<1>1. FollowInv' /\ SplitInv'
  BY TailKeeps, TailSplits DEF LinesInv
<1>2. UNCHANGED logVars
  BY DEF TailStep, OpenFile, SeekToEnd, Stat, HandleRotation, Read, Return, IoError
<1>3. FilesInv'
  BY <1>2, FilesKeep DEF LinesInv
<1>4. OpenInv'
  BY TailOpens DEF LinesInv
<1>5. IntactInv'
  BY <1>1, TailIntact DEF LinesInv
<1> QED BY <1>1, <1>3, <1>4, <1>5 DEF LinesInv

LEMMA LogKeepsLines ==
    ASSUME LinesInv, LogStep, UNCHANGED <<tailVars, tailHistory>>
    PROVE  LinesInv'
<1>1. FollowInv' /\ SplitInv'
  BY LogKeeps, LogSplit DEF LinesInv
<1>2. FilesInv' /\ OpenInv'
  BY FilesKeep, LogOpens DEF LinesInv
<1>3. IntactInv'
  <2>1. truncations' = 0 => truncations = 0
    <3>1. truncations \in Nat /\ truncations' \in {truncations, truncations + 1}
      BY DEF LinesInv, SplitInv, LogStep, Write, RenameAway, Create, Reopen, Truncate
    <3> QED BY <3>1
  <2>2. UNCHANGED <<delivered, opened>>
    BY DEF tailVars, tailHistory
  <2> QED BY <2>1, <2>2 DEF LinesInv, IntactInv, Intact, RestOfOpenLine
<1> QED BY <1>1, <1>2, <1>3 DEF LinesInv

\* A call begins, or the tailer rests.
LEMMA OthersKeepLines ==
    ASSUME LinesInv,
           UNCHANGED <<handle, offset, leftover, raw, tailHistory, logVars>>,
           (tpc = "idle" /\ tpc' = "stat") \/ tpc' = tpc
    PROVE  LinesInv'
<1>1. /\ UNCHANGED <<handle, offset, leftover, raw, delivered, opened, from, base>>
      /\ truncations' = truncations /\ files' = files
      /\ Reading' => Reading
  BY DEF tailHistory, logVars, Reading
<1>2. FollowInv'
  BY <1>1, OthersKeep DEF LinesInv
<1>3. SplitInv'
  BY <1>1, <1>2, OthersSplit DEF LinesInv
<1>4. FilesInv' /\ OpenInv'
  <2>1. FilesInv'
    BY FilesKeep DEF LinesInv
  <2>2. SplitInv /\ OpenInv
    BY DEF LinesInv
  <2>3. (Reading' => Reading /\ handle' = handle) /\ (truncations' = 0 => truncations = 0)
    BY <1>1
  <2>4. \A i \in 1 .. from : files'[handle][i] = files[handle][i]
    BY <1>1
  <2>5. OpenInv'
    BY <1>1, <2>2, <2>3, <2>4, OpenStays
  <2> QED BY <2>1, <2>5
<1>5. IntactInv'
  <2>1. IntactInv
    BY DEF LinesInv
  <2> QED BY <1>1, <2>1 DEF IntactInv, Intact, RestOfOpenLine
<1> QED BY <1>2, <1>3, <1>4, <1>5 DEF LinesInv

\* The files hold whole lines, reading begins at one of them or at the end that
\* open found, and what has been handed over is whole.
THEOREM LinesInvariant == Spec => []LinesInv
<1>1. Init => LinesInv
  BY LinesStart DEF Init
<1>2. LinesInv /\ [Next]_vars => LinesInv'
  <2> SUFFICES ASSUME LinesInv, [Next]_vars PROVE LinesInv'
    OBVIOUS
  <2>1. CASE Call /\ UNCHANGED <<tailHistory, logVars>>
    BY <2>1, OthersKeepLines DEF Call
  <2>2. CASE TailStep
    BY <2>2, TailKeepsLines
  <2>3. CASE LogStep /\ UNCHANGED <<tailVars, tailHistory>>
    BY <2>3, LogKeepsLines
  <2>4. CASE UNCHANGED vars
    BY <2>4, OthersKeepLines DEF vars, tailVars
  <2> QED BY <2>1, <2>2, <2>3, <2>4 DEF Next
<1> QED BY <1>1, <1>2, PTL DEF Spec

\* Nor does the loop that follows disturb that.
THEOREM FollowLinesInvariant == WatchSpec => []LinesInv
<1>1. WatchInit => LinesInv
  BY LinesStart DEF WatchInit
<1>2. LinesInv /\ [WatchNext]_allVars => LinesInv'
  <2> SUFFICES ASSUME LinesInv, [WatchNext]_allVars PROVE LinesInv'
    OBVIOUS
  <2>1. CASE TailUnchanged
    BY <2>1, OthersKeepLines DEF TailUnchanged, tailVars
  <2>2. CASE Receive
    BY <2>2, OthersKeepLines DEF Receive, Call
  <2>3. CASE TailerRuns
    <3>1. TailStep
      BY <2>3 DEF TailerRuns, TailStep
    <3> QED BY <3>1, TailKeepsLines
  <2>4. CASE LogRuns
    BY <2>4, LogKeepsLines DEF LogRuns
  <2>5. CASE UNCHANGED allVars
    BY <2>5, <2>1 DEF allVars, TailUnchanged
  <2>6. ASSUME \/ SetUp \/ Top \/ Parse \/ ReadFails \/ StoreChunk \/ Disconnected \/ StoreFails
               \/ Notify \/ CtrlC \/ Killed
        PROVE  TailUnchanged
    BY <2>6 DEF SetUp, Top, Parse, ReadFails, StoreChunk, Disconnected, StoreFails, Notify, CtrlC, Killed
  <2> QED BY <2>1, <2>2, <2>3, <2>4, <2>5, <2>6 DEF WatchNext, LoopStep
<1> QED BY <1>1, <1>2, PTL DEF WatchSpec

\* As long as nothing is truncated in place, every line handed over is a whole
\* line of the logger, but for what was left of the one that open found unfinished
\* (the leftover buffering of read_new_lines and handle_rotation's clear).
THEOREM IntactLinesHolds == Spec => [](truncations = 0 => IntactLines)
<1>1. LinesInv => (truncations = 0 => IntactLines)
  BY IntactIsIntact DEF LinesInv
<1> QED BY <1>1, LinesInvariant, PTL

\* So are the lines that `ingest --follow` parses and stores.
THEOREM FollowIntactLines == WatchSpec => [](truncations = 0 => IntactLines)
<1>1. LinesInv => (truncations = 0 => IntactLines)
  BY IntactIsIntact DEF LinesInv
<1> QED BY <1>1, FollowLinesInvariant, PTL

\* And of the present file the loop gets exactly one split of what was read of it.
THEOREM FollowOneSplit == WatchSpec => [](truncations = 0 => OneSplit)
<1>1. LinesInv => (truncations = 0 => OneSplit)
  BY SplitInvImplies DEF LinesInv
<1> QED BY <1>1, FollowLinesInvariant, PTL

\* A call that returns at the end of the file has told of every line in it.
LEMMA FullReturn ==
    LinesInv /\ LinesInv'
        => [Return /\ truncations = 0 /\ handle = path /\ offset = Len(files[handle])
              => NewLines(handle) \subseteq Delivered(delivered')]_vars
<1> SUFFICES ASSUME LinesInv, LinesInv', Return, truncations = 0, offset = Len(files[handle]),
                    NEW n \in NewLines(handle)
             PROVE  n \in Delivered(delivered')
  OBVIOUS
<1>1. Reading
  BY DEF Return, Reading
<1>2. PICK k \in 1 .. LineCount(Seen) : Lines(Seen)[k] = WholeLine(n)
  BY <1>1, NewLinesSeen DEF LinesInv
<1>3. PICK new \in Seq(Seq(Nat)), b \in Nat :
          /\ new = delivered' /\ b <= Len(new) /\ SubSeq(new, b + 1, Len(new)) = Lines(Seen)
  BY ReturnTells DEF LinesInv
<1>4. k \in 1 .. Len(new) - b
  <2>1. PICK v \in Seq(Nat) : v = Seen
    BY <1>1, SeenPart DEF LinesInv
  <2>2. Len(Lines(v)) = LineCount(v)
    BY LengthOfLines
  <2>3. Len(SubSeq(new, b + 1, Len(new))) = Len(new) - b
    BY <1>3, PlacesBehind
  <2> QED BY <1>3, <2>1, <2>2, <2>3
<1>5. b + k \in DOMAIN new /\ SubSeq(new, b + 1, Len(new))[k] = new[b + k]
  BY <1>3, <1>4, PlacesBehind
<1>6. n \in LineNumbers
  BY DEF NewLines
<1> QED BY <1>2, <1>3, <1>5, <1>6 DEF Delivered

\* When a call returns at the end of the file that is at the path, every line of
\* it that was begun after open has been handed over, however many rotations,
\* calls and buffers came before.
THEOREM CurrentFileDeliveredHolds == Spec => CurrentFileDelivered
BY FullReturn, LinesInvariant, PTL DEF CurrentFileDelivered

\* The same of `ingest --follow`: the loop gets the lines of the file at the path
\* that were begun after open, whatever else happens to it.
THEOREM FollowCurrentFileDelivered == WatchSpec => CurrentFileDelivered
BY FullReturn, FollowLinesInvariant, PTL DEF CurrentFileDelivered

-----------------------------------------------------------------------------
(* The loop. *)

Kind(l) == KindOf[TextOfLine(l)]
Entries == Among(out, {"good", "untimed"})
GoodUpTo(n) == {TextOfLine(delivered[k]) : k \in {i \in 1 .. n : Kind(delivered[i]) = "good"}}

\* The lines of the last call are the last that have been handed over.
HandedOver ==
    /\ delivered \in Seq(Seq(Nat)) /\ out \in Seq(Seq(Nat))
    /\ Len(out) <= Len(delivered)
    /\ \A k \in DOMAIN out : delivered[Len(delivered) - Len(out) + k] = out[k]
    /\ tpc # "idle" => out = <<>>
    /\ loop = "open" => tpc \in {"open", "seek", "idle", "failed"}

\* Lines that the loop was done with before it got those in hand.
Known == IF loop \in {"read", "store"} THEN Len(delivered) - Len(out) ELSE Len(delivered)

Earliest(k) == k \in batch /\ \A j \in batch : k <= j

\* The entries that are stored are those in front of the ones that are left.
BatchInv ==
    loop = "store" =>
        /\ batch \subseteq Entries /\ batch # {}
        /\ \A k \in Entries \ batch, j \in batch : k < j

\* The index has the good lines up to the first one that is not stored.
IndexedInv ==
    /\ loop \notin {"store", "failed", "killed"} => index = GoodUpTo(Known)
    /\ loop = "store" => \A k : Earliest(k) => index = GoodUpTo(Known + k - 1)
    /\ loop \in {"failed", "killed"} => \E n \in 0 .. Len(delivered) : index = GoodUpTo(n)

\* Each line handed over is in one counter or still on its way.
InHand ==
    IF loop = "store" THEN Cardinality(batch) ELSE IF loop = "read" THEN Len(out) ELSE 0
Summed == total.inserted + total.deduplicated + total.skipped + malformed + ignored
CountedInv ==
    /\ total \in [inserted : Int, deduplicated : Int, skipped : Int]
    /\ malformed \in Int /\ ignored \in Int
    /\ IsFiniteSet(index) /\ total.inserted = Cardinality(index)
    /\ loop \notin {"failed", "killed"} => Summed + InHand = Len(delivered)

LoopInv == HandedOver /\ BatchInv /\ IndexedInv /\ CountedInv

-----------------------------------------------------------------------------
(* Lines and their kinds.                                                  *)

LEMMA KindType ==
    ASSUME NEW l
    PROVE  TextOfLine(l) \in Texts /\ Kind(l) \in Kinds
<1> DEFINE whole == {n \in LineNumbers : l = WholeLine(n)}
<1>1. CASE whole = {}
  BY <1>1, WatchAssumption DEF TextOfLine, Kind
<1>2. CASE whole # {}
  <2>1. (CHOOSE n \in whole : TRUE) \in LineNumbers
    BY <1>2
  <2> QED
    BY <1>2, <2>1, WatchAssumption DEF TextOfLine, Kind
<1> QED
  BY <1>1, <1>2

LEMMA DisjointUnion ==
    ASSUME NEW S, NEW T, IsFiniteSet(S), IsFiniteSet(T), S \cap T = {}
    PROVE  /\ IsFiniteSet(S \cup T)
           /\ Cardinality(S \cup T) = Cardinality(S) + Cardinality(T)
<1>1. Cardinality(S \cap T) = 0
  BY FS_EmptySet
<1>2. Cardinality(S) \in Nat /\ Cardinality(T) \in Nat
  BY FS_CardinalityType
<1>3. /\ IsFiniteSet(S \cup T)
      /\ Cardinality(S \cup T) = Cardinality(S) + Cardinality(T) - Cardinality(S \cap T)
  BY FS_Union
<1> QED
  BY <1>1, <1>2, <1>3

\* The lines of the kinds partition a sequence.
LEMMA KindsPartition ==
    ASSUME NEW lines \in Seq(Seq(Nat))
    PROVE  /\ IsFiniteSet(Among(lines, {"good", "untimed"}))
           /\ Cardinality(Among(lines, {"good", "untimed"})) \in Nat
           /\ Cardinality(Among(lines, {"malformed"})) \in Nat
           /\ Cardinality(Among(lines, {"blank"})) \in Nat
           /\ Cardinality(Among(lines, {"good", "untimed"})) + Cardinality(Among(lines, {"malformed"}))
                + Cardinality(Among(lines, {"blank"})) = Len(lines)
<1> DEFINE E == Among(lines, {"good", "untimed"})
           M == Among(lines, {"malformed"})
           B == Among(lines, {"blank"})
<1>1. DOMAIN lines = 1 .. Len(lines) /\ Len(lines) \in Nat
  OBVIOUS
<1>2. IsFiniteSet(DOMAIN lines) /\ Cardinality(DOMAIN lines) = Len(lines)
  <2>1. PICK n \in Nat : n = Len(lines)
    BY <1>1
  <2>2. IsFiniteSet(1 .. n) /\ Cardinality(1 .. n) = IF 1 > n THEN 0 ELSE n - 1 + 1
    BY FS_Interval
  <2>3. (IF 1 > n THEN 0 ELSE n - 1 + 1) = n
    OBVIOUS
  <2> QED
    BY <1>1, <2>1, <2>2, <2>3
<1>3. E \subseteq DOMAIN lines /\ M \subseteq DOMAIN lines /\ B \subseteq DOMAIN lines
  BY DEF Among
<1>4. IsFiniteSet(E) /\ IsFiniteSet(M) /\ IsFiniteSet(B)
  BY <1>2, <1>3, FS_Subset
<1>5. DOMAIN lines = (E \cup M) \cup B
  BY KindType DEF Among, Kinds, Kind
<1>6. E \cap M = {} /\ (E \cup M) \cap B = {}
  BY DEF Among
<1>7. IsFiniteSet(E \cup M) /\ Cardinality(E \cup M) = Cardinality(E) + Cardinality(M)
  BY <1>4, <1>6, DisjointUnion
<1>8. Cardinality((E \cup M) \cup B) = Cardinality(E \cup M) + Cardinality(B)
  BY <1>4, <1>6, <1>7, DisjointUnion
<1>9. Cardinality(E) \in Nat /\ Cardinality(M) \in Nat /\ Cardinality(B) \in Nat
  BY <1>4, FS_CardinalityType
<1>10. Cardinality(E) + Cardinality(M) + Cardinality(B) = Len(lines)
  <2> HIDE DEF E, M, B
  <2> QED
    BY <1>2, <1>5, <1>7, <1>8, <1>9
<1> QED
  BY <1>4, <1>9, <1>10

\* The texts of a prefix.
LEMMA GoodOfPrefix ==
    ASSUME delivered \in Seq(Seq(Nat)), NEW n \in 0 .. Len(delivered)
    PROVE  GoodTexts(SubSeq(delivered, 1, n)) = GoodUpTo(n)
<1>1. /\ DOMAIN SubSeq(delivered, 1, n) = 1 .. n
      /\ \A k \in 1 .. n : SubSeq(delivered, 1, n)[k] = delivered[k]
  OBVIOUS
<1> QED
  BY <1>1 DEF GoodTexts, GoodUpTo, Among, Kind

LEMMA GoodOfAll ==
    ASSUME delivered \in Seq(Seq(Nat))
    PROVE  GoodTexts(delivered) = GoodUpTo(Len(delivered))
BY DEF GoodTexts, GoodUpTo, Among, Kind

\* Lines that are not good add nothing.
LEMMA GoodBetween ==
    ASSUME NEW a \in Nat, NEW b \in Nat, a <= b,
           \A i \in a + 1 .. b : Kind(delivered[i]) # "good"
    PROVE  GoodUpTo(b) = GoodUpTo(a)
<1>1. {i \in 1 .. b : Kind(delivered[i]) = "good"} = {i \in 1 .. a : Kind(delivered[i]) = "good"}
  OBVIOUS
<1> QED
  BY <1>1 DEF GoodUpTo

LEMMA Shifted ==
    ASSUME NEW a \in Nat, NEW c \in Nat, NEW b, b = a + c, NEW P,
           \A j \in 1 .. c : a + j \notin P
    PROVE  \A i \in a + 1 .. b : i \notin P
<1> TAKE i \in a + 1 .. b
<1>1. i - a \in 1 .. c /\ a + (i - a) = i
  OBVIOUS
<1> QED
  BY <1>1

LEMMA GoodMore ==
    ASSUME NEW a \in Nat, NEW b \in Nat, a <= b
    PROVE  GoodUpTo(b) = GoodUpTo(a) \cup
               {TextOfLine(delivered[k]) : k \in {i \in a + 1 .. b : Kind(delivered[i]) = "good"}}
<1>1. {i \in 1 .. b : Kind(delivered[i]) = "good"} = {i \in 1 .. a : Kind(delivered[i]) = "good"}
          \cup {i \in a + 1 .. b : Kind(delivered[i]) = "good"}
  OBVIOUS
<1> QED
  BY <1>1 DEF GoodUpTo

LEMMA EarliestExists ==
    ASSUME batch \subseteq Nat, batch # {}
    PROVE  \E k : Earliest(k)
<1>1. PICK k \in batch : \A j \in batch : ~(<<j, k>> \in OpToRel(<, Nat))
  BY NatLessThanWellFounded, WFMin
<1>2. \A j \in batch : ~(j < k)
  BY <1>1 DEF OpToRel
<1>3. \A j \in batch : j \in Nat /\ k \in Nat /\ k <= j
  BY <1>2
<1> QED
  BY <1>3 DEF Earliest

\* What the invariant says is what the properties say.
LEMMA LoopInvImplies == LoopInv => FollowLosesNothing /\ NoGap
<1> SUFFICES ASSUME LoopInv PROVE FollowLosesNothing /\ NoGap
  OBVIOUS
<1>1. delivered \in Seq(Seq(Nat)) /\ out \in Seq(Seq(Nat)) /\ Len(out) <= Len(delivered)
  BY DEF LoopInv, HandedOver
<1>2. Len(delivered) \in Nat /\ Len(out) \in Nat /\ Known \in 0 .. Len(delivered)
  BY <1>1 DEF Known
<1>3. FollowLosesNothing
  BY <1>1, <1>2, GoodOfAll DEF FollowLosesNothing, LoopInv, IndexedInv, CountedInv, Known, InHand, Summed
<1>4. \E n \in 0 .. Len(delivered) : index = GoodUpTo(n)
  <2>1. CASE loop # "store"
    BY <1>2, <2>1 DEF LoopInv, IndexedInv
  <2>2. CASE loop = "store"
    <3>1. batch \subseteq Nat /\ batch # {} /\ batch \subseteq 1 .. Len(out)
      BY <1>1, <2>2 DEF LoopInv, BatchInv, Entries, Among
    <3>3. PICK k : Earliest(k)
      BY <3>1, EarliestExists
    <3>4. Known = Len(delivered) - Len(out)
      BY <2>2 DEF Known
    <3>5. Known + k - 1 \in 0 .. Len(delivered)
      BY <1>1, <1>2, <3>1, <3>3, <3>4 DEF Earliest
    <3> QED
      BY <2>2, <3>3, <3>5 DEF LoopInv, IndexedInv
  <2> QED
    BY <2>1, <2>2
<1>5. NoGap
  BY <1>1, <1>4, GoodOfPrefix DEF NoGap
<1> QED
  BY <1>3, <1>5

-----------------------------------------------------------------------------
(* The steps.                                                              *)

\* Steps that leave lines and index alone and do not get lines into hand.
LEMMA LoopRests ==
    ASSUME LoopInv, UNCHANGED <<delivered, out, batch, index, total, malformed, ignored>>,
           tpc' # "idle" => out = <<>>,
           loop' = "open" => tpc' \in {"open", "seek", "idle", "failed"},
           \/ loop' = loop
           \/ loop' = "read" /\ loop \notin {"store", "failed", "killed"} /\ out = <<>>
           \/ loop' \notin {"read", "store", "failed", "killed"}
              /\ loop \notin {"read", "store", "failed", "killed"}
    PROVE  LoopInv'
<1>1. delivered \in Seq(Seq(Nat)) /\ Len(delivered) \in Nat
  BY DEF LoopInv, HandedOver
<1>2. out = <<>> => Len(out) = 0
  OBVIOUS
<1>3. HandedOver'
  BY DEF LoopInv, HandedOver
<1>4. Entries' = Entries /\ \A n : GoodUpTo(n)' = GoodUpTo(n)
  BY DEF Entries, GoodUpTo
<1>5. loop' \notin {"failed", "killed", "store"} => loop \notin {"failed", "killed", "store"} /\ Known' = Known
  BY <1>1, <1>2 DEF Known
<1>6. loop' = loop => Known' = Known
  BY DEF Known
<1>7. BatchInv'
  BY <1>4 DEF LoopInv, BatchInv
<1>8. IndexedInv'
  <2>1. CASE loop' = loop
    BY <1>4, <1>6, <2>1 DEF LoopInv, IndexedInv, Earliest
  <2>2. CASE loop' # loop
    BY <1>4, <1>5, <2>2 DEF LoopInv, IndexedInv
  <2> QED
    BY <2>1, <2>2
<1>9. loop' \notin {"failed", "killed"} => InHand' = InHand /\ loop \notin {"failed", "killed"}
  BY <1>2 DEF InHand
<1>10. CountedInv'
  BY <1>9 DEF LoopInv, CountedInv, Summed
<1> QED
  BY <1>3, <1>7, <1>8, <1>10 DEF LoopInv

\* The command fails or is killed: the index has the lines up to some point.
LEMMA LoopBreaks ==
    ASSUME LoopInv, UNCHANGED <<delivered, out, tpc, batch, index, total, malformed, ignored>>,
           loop' \in {"failed", "killed"}
    PROVE  LoopInv'
<1>1. HandedOver' /\ BatchInv'
  BY DEF LoopInv, HandedOver, BatchInv
<1>2. \A n : GoodUpTo(n)' = GoodUpTo(n)
  BY DEF GoodUpTo
<1>3. NoGap /\ delivered \in Seq(Seq(Nat))
  BY LoopInvImplies DEF LoopInv, HandedOver
<1>4. \E n \in 0 .. Len(delivered) : index = GoodUpTo(n)
  BY <1>3, GoodOfPrefix DEF NoGap
<1>5. IndexedInv'
  BY <1>2, <1>4 DEF IndexedInv
<1>6. CountedInv'
  BY DEF LoopInv, CountedInv
<1> QED
  BY <1>1, <1>5, <1>6 DEF LoopInv

LEMMA ReceiveStep ==
    ASSUME LoopInv, Receive
    PROVE  LoopInv'
<1>1. /\ loop = "wait" /\ loop' = "read" /\ out' = <<>>
      /\ UNCHANGED <<delivered, batch, index, total, malformed, ignored>>
  BY DEF Receive, Call, tailHistory
<1>2. Len(out') = 0 /\ DOMAIN out' = {} /\ out' \in Seq(Seq(Nat)) /\ Len(delivered) \in Nat
  BY <1>1 DEF LoopInv, HandedOver
<1>3. HandedOver'
  BY <1>1, <1>2 DEF LoopInv, HandedOver
<1>4. Known' = Known /\ InHand' = InHand /\ \A n : GoodUpTo(n)' = GoodUpTo(n)
  BY <1>1, <1>2 DEF Known, InHand, GoodUpTo
<1>5. IndexedInv'
  BY <1>1, <1>4 DEF LoopInv, IndexedInv
<1>6. CountedInv'
  BY <1>1, <1>4 DEF LoopInv, CountedInv, Summed
<1> QED
  BY <1>1, <1>3, <1>5, <1>6 DEF LoopInv, BatchInv

\* The call returns: its lines are in hand.
LEMMA ReturnStep ==
    ASSUME LoopInv, FollowInv, Return, loop \in {"open", "read"}, UNCHANGED loopVars
    PROVE  LoopInv'
<1>1. /\ tpc = "read" /\ tpc' = "idle" /\ out' = Lines(Pending) /\ delivered' = delivered \o out'
      /\ out = <<>> /\ loop # "open" /\ Pending \in Seq(Nat)
      /\ UNCHANGED <<loop, batch, index, total, malformed, ignored>>
  BY DEF Return, Pending, LoopInv, HandedOver, loopVars, FollowInv, TailInv
<1>2. out' \in Seq(Seq(Nat)) /\ delivered \in Seq(Seq(Nat))
  BY <1>1, LinesAreSequences DEF LoopInv, HandedOver
<1>3. /\ delivered' \in Seq(Seq(Nat)) /\ Len(delivered') = Len(delivered) + Len(out')
      /\ \A i \in 1 .. Len(delivered) : delivered'[i] = delivered[i]
      /\ \A i \in 1 .. Len(out') : delivered'[Len(delivered) + i] = out'[i]
  BY <1>1, <1>2, JoinedSequences
<1>4. Len(out') \in Nat /\ Len(delivered) \in Nat /\ Len(out) = 0 /\ DOMAIN out' = 1 .. Len(out')
  BY <1>1, <1>2
<1>5. HandedOver'
  BY <1>1, <1>2, <1>3, <1>4 DEF HandedOver
<1>6. Known' = Known /\ Known = Len(delivered) /\ loop = "read"
  BY <1>1, <1>3, <1>4 DEF Known
<1>7. GoodUpTo(Known)' = GoodUpTo(Known)
  BY <1>3, <1>4, <1>6 DEF GoodUpTo
<1>8. IndexedInv'
  BY <1>1, <1>6, <1>7 DEF LoopInv, IndexedInv
<1>9. Summed' = Summed /\ InHand = 0 /\ InHand' = Len(out') /\ Summed + InHand = Len(delivered)
  BY <1>1, <1>4, <1>6 DEF InHand, Summed, LoopInv, CountedInv
<1>10. Summed \in Int
  BY DEF LoopInv, CountedInv, Summed
<1>11. Summed' + InHand' = Len(delivered')
  <2>1. PICK o \in Nat, d \in Nat, s \in Int : o = Len(out') /\ d = Len(delivered) /\ s = Summed
    BY <1>4, <1>10
  <2>2. Len(delivered') = d + o /\ s + 0 = d /\ Summed' = s /\ InHand' = o
    BY <1>3, <1>9, <2>1
  <2> QED
    BY <2>2
<1>12. CountedInv'
  BY <1>1, <1>11 DEF LoopInv, CountedInv
<1> QED
  BY <1>1, <1>5, <1>6, <1>8, <1>12 DEF LoopInv, BatchInv

\* The lines in hand are sorted: good and untimed ones are handed to insert_batch.
LEMMA ParseStep ==
    ASSUME LoopInv, Parse
    PROVE  LoopInv'
<1>1. /\ loop = "read" /\ tpc = "idle" /\ batch' = Entries
      /\ malformed' = malformed + Cardinality(Among(out, {"malformed"}))
      /\ ignored' = ignored + Cardinality(Among(out, {"blank"}))
      /\ UNCHANGED <<tpc, delivered, out, index, total>>
      /\ batch' = {} => loop' \in {"done", "top"}
      /\ batch' # {} => loop' = "store"
  BY DEF Parse, Entries, EndIteration, TailUnchanged, tailVars, tailHistory
<1>2. /\ delivered \in Seq(Seq(Nat)) /\ out \in Seq(Seq(Nat)) /\ Len(out) \in Nat
      /\ Len(delivered) \in Nat /\ Len(out) <= Len(delivered) /\ DOMAIN out = 1 .. Len(out)
  BY DEF LoopInv, HandedOver
<1>3. HandedOver'
  BY <1>1 DEF LoopInv, HandedOver
<1>4. BatchInv'
  BY <1>1 DEF BatchInv, Entries
<1>5. Known = Len(delivered) - Len(out) /\ index = GoodUpTo(Known) /\ Known \in Nat
  BY <1>1, <1>2 DEF LoopInv, IndexedInv, Known
<1>6. \A k \in 1 .. Len(out) : delivered[Known + k] = out[k]
  BY <1>2, <1>5 DEF LoopInv, HandedOver
<1>9. PICK known \in Nat, length \in Nat :
          known = Known /\ length = Len(out) /\ known + length = Len(delivered)
  <2>1. PICK l \in Nat, d \in Nat : l = Len(out) /\ d = Len(delivered)
    BY <1>2
  <2>2. Known = d - l /\ Known \in Nat
    BY <1>5, <2>1
  <2>3. PICK n \in Nat : n = Known /\ n + l = d
    BY <2>2
  <2> QED
    BY <2>1, <2>3
<1>7. IndexedInv'
  <2>1. CASE batch' = {}
    <3>1. GoodUpTo(Len(delivered)) = GoodUpTo(Known)
      <4>1. \A j \in 1 .. Len(out) : Kind(delivered[Known + j]) # "good"
        BY <1>1, <1>2, <1>6, <2>1 DEF Entries, Among, Kind
      <4>2. \A i \in known + 1 .. known + length : Kind(delivered[i]) # "good"
        <5> DEFINE P == {i \in Nat : Kind(delivered[i]) = "good"}
        <5>1. \A j \in 1 .. length : known + j \notin P
          BY <1>9, <4>1
        <5>2. \A i \in known + 1 .. known + length : i \notin P
          <6> HIDE DEF P
          <6> QED
            BY <1>9, <5>1, Shifted
        <5> QED
          BY <1>9, <5>2
      <4> QED
        BY <1>9, <4>2, GoodBetween
    <3>2. Known' = Len(delivered) /\ GoodUpTo(Len(delivered))' = GoodUpTo(Len(delivered))
      BY <1>1, <2>1 DEF Known, GoodUpTo
    <3> QED
      BY <1>1, <1>5, <2>1, <3>1, <3>2 DEF IndexedInv
  <2>2. CASE batch' # {}
    <3>1. ASSUME NEW k, Earliest(k)' PROVE GoodUpTo(Known + k - 1) = GoodUpTo(Known)
      <4>1. k \in Entries /\ k \in 1 .. Len(out) /\ \A j \in Entries : k <= j
        BY <1>1, <1>2, <3>1 DEF Earliest, Entries, Among
      <4>2. PICK b \in Nat : b = known + k - 1 /\ known <= b
        <5>1. known + k - 1 \in Nat /\ known <= known + k - 1
          BY <1>9, <4>1
        <5> QED
          BY <5>1
      <4>3. \A i \in known + 1 .. b : Kind(delivered[i]) # "good"
        <5> TAKE i \in known + 1 .. b
        <5>1. PICK j \in 1 .. length : j < k /\ known + j = i
          <6>1. i - known \in 1 .. length /\ i - known < k /\ known + (i - known) = i
            BY <1>9, <4>1, <4>2
          <6> QED
            BY <6>1
        <5>2. j \notin Entries
          BY <1>2, <4>1, <5>1
        <5> QED
          BY <1>2, <1>6, <1>9, <5>1, <5>2 DEF Entries, Among, Kind
      <4> QED
        BY <1>9, <4>2, <4>3, GoodBetween
    <3>2. Known' = Known /\ \A n : GoodUpTo(n)' = GoodUpTo(n)
      BY <1>1, <2>2 DEF Known, GoodUpTo
    <3> QED
      BY <1>1, <1>5, <2>2, <3>1, <3>2 DEF IndexedInv
  <2> QED
    BY <2>1, <2>2
<1>8. CountedInv'
  <2>1. /\ Cardinality(Entries) \in Nat /\ Cardinality(Among(out, {"malformed"})) \in Nat
        /\ Cardinality(Among(out, {"blank"})) \in Nat
        /\ Cardinality(Entries) + Cardinality(Among(out, {"malformed"}))
              + Cardinality(Among(out, {"blank"})) = Len(out)
    BY <1>2, KindsPartition DEF Entries
  <2>2. Summed + Len(out) = Len(delivered)
    BY <1>1 DEF LoopInv, CountedInv, InHand
  <2>3. /\ total.inserted \in Int /\ total.deduplicated \in Int /\ total.skipped \in Int
        /\ malformed \in Int /\ ignored \in Int
    BY DEF LoopInv, CountedInv
  <2>4. Summed' + Cardinality(Entries) = Len(delivered)
    <3>1. PICK m \in Nat, b \in Nat, e \in Nat :
             /\ m = Cardinality(Among(out, {"malformed"})) /\ b = Cardinality(Among(out, {"blank"}))
             /\ e = Cardinality(Entries)
      BY <2>1
    <3>2. PICK o \in Nat, d \in Nat : o = Len(out) /\ d = Len(delivered)
      BY <1>2
    <3>3. PICK s \in Int : s = Summed
      BY <2>3 DEF Summed
    <3>4. Summed' = s + m + b
      BY <1>1, <2>3, <3>1, <3>3 DEF Summed
    <3>5. e + m + b = o /\ s + o = d
      BY <2>1, <2>2, <3>1, <3>2, <3>3
    <3>6. Summed' + e = d
      BY <3>4, <3>5
    <3> QED
      BY <3>1, <3>2, <3>6
  <2>5. InHand' = Cardinality(Entries)
    BY <1>1, FS_EmptySet DEF InHand
  <2>6. Summed' + InHand' = Len(delivered)'
    BY <1>1, <2>4, <2>5
  <2>7. malformed' \in Int /\ ignored' \in Int
    BY <1>1, <2>1, <2>3
  <2>8. /\ total' \in [inserted : Int, deduplicated : Int, skipped : Int]
        /\ IsFiniteSet(index') /\ total'.inserted = Cardinality(index')
    BY <1>1 DEF LoopInv, CountedInv
  <2> QED
    BY <2>6, <2>7, <2>8 DEF CountedInv
<1> QED
  BY <1>3, <1>4, <1>7, <1>8 DEF LoopInv

\* A chunk is in front of what is left of the batch.
LEMMA ChunkInFront ==
    ASSUME batch \subseteq Nat, IsFiniteSet(batch), NEW k \in Chunk, NEW j \in batch \ Chunk
    PROVE  k < j
<1> DEFINE upTo(n) == {i \in batch : i <= n}
<1>1. CASE j <= k
  <2>0. j \in Nat /\ k \in Nat /\ \A i \in batch : i \in Nat
    BY DEF Chunk
  <2>1. upTo(j) \subseteq upTo(k) /\ IsFiniteSet(upTo(k)) /\ IsFiniteSet(upTo(j))
    <3>1. \A i \in batch : i <= j => i <= k
      BY <1>1, <2>0
    <3>2. upTo(j) \subseteq upTo(k) /\ upTo(k) \subseteq batch /\ upTo(j) \subseteq batch
      BY <3>1
    <3> QED
      BY <3>2, FS_Subset
  <2>2. /\ Cardinality(upTo(j)) <= Cardinality(upTo(k))
        /\ Cardinality(upTo(j)) \in Nat /\ Cardinality(upTo(k)) \in Nat
    BY <2>1, FS_Subset, FS_CardinalityType
  <2>3. Cardinality(upTo(k)) <= BatchSize /\ BatchSize \in Nat
    BY WatchAssumption DEF Chunk
  <2>4. Cardinality(upTo(j)) <= BatchSize
    <3> HIDE DEF upTo
    <3> QED
      BY <2>2, <2>3
  <2>5. j \in Chunk
    BY <2>4 DEF Chunk
  <2> QED
    BY <2>5
<1> QED
  BY <1>1 DEF Chunk

\* What the chunk adds to the index are the good lines up to the next one that is
\* left, or to the end.
LEMMA ChunkTexts ==
    ASSUME LoopInv, loop = "store", NEW first, Earliest(first),
           NEW last \in 0 .. Len(out), first <= last + 1, \A j \in batch : j \in Chunk <=> j <= last
    PROVE  index \cup TimedTexts = GoodUpTo(Known + last)
<1>1. /\ delivered \in Seq(Seq(Nat)) /\ out \in Seq(Seq(Nat)) /\ Len(out) \in Nat
      /\ Len(delivered) \in Nat /\ Len(out) <= Len(delivered) /\ DOMAIN out = 1 .. Len(out)
  BY DEF LoopInv, HandedOver
<1>2. /\ batch \subseteq Entries /\ batch # {} /\ \A k \in Entries \ batch, j \in batch : k < j
      /\ batch \subseteq 1 .. Len(out) /\ Entries \subseteq 1 .. Len(out)
  BY <1>1 DEF LoopInv, BatchInv, Entries, Among
<1>3. Known = Len(delivered) - Len(out) /\ Known \in Nat
  BY <1>1 DEF Known
<1>4. \A k \in 1 .. Len(out) : delivered[Known + k] = out[k]
  BY <1>1, <1>3 DEF LoopInv, HandedOver
<1>5. first \in 1 .. Len(out) /\ first \in batch /\ \A j \in batch : first <= j
  BY <1>2 DEF Earliest
<1>6. index = GoodUpTo(Known + first - 1)
  BY DEF LoopInv, IndexedInv
<1>7. PICK known \in Nat, length \in Nat, f \in Nat :
          known = Known /\ length = Len(out) /\ first = f + 1 /\ f < length
  <2>1. first - 1 \in Nat /\ first = (first - 1) + 1 /\ first - 1 < Len(out)
    BY <1>1, <1>5
  <2> QED
    BY <1>1, <1>3, <2>1
<1>8. f <= last /\ last \in Nat
  BY <1>7
<1> DEFINE Added == {i \in known + f + 1 .. known + last : Kind(delivered[i]) = "good"}
<1>9. index = GoodUpTo(known + f) /\ last \in Nat
  <2>1. Known + first - 1 = known + f
    BY <1>7
  <2> QED
    BY <1>6, <2>1
<1>10. GoodUpTo(known + last) = GoodUpTo(known + f) \cup {TextOfLine(delivered[k]) : k \in Added}
  BY <1>7, <1>8, <1>9, GoodMore
<1>11. ASSUME NEW k \in Timed PROVE known + k \in Added /\ out[k] = delivered[known + k]
  <2>1. k \in batch /\ k \in Chunk /\ Kind(out[k]) = "good"
    BY DEF Timed, Chunk, Among, Kind
  <2>2. k <= last /\ f + 1 <= k /\ k \in 1 .. Len(out)
    BY <1>2, <1>5, <1>7, <2>1
  <2>3. out[k] = delivered[known + k]
    BY <1>4, <1>7, <2>2
  <2>4. known + k \in known + f + 1 .. known + last
    BY <1>7, <1>9, <2>2
  <2> QED
    BY <2>1, <2>3, <2>4
<1>12. ASSUME NEW i \in Added PROVE \E k \in Timed : out[k] = delivered[i]
  <2>1. PICK k \in 1 .. length : known + k = i /\ f + 1 <= k /\ k <= last
    <3>1. i - known \in 1 .. length /\ known + (i - known) = i /\ f + 1 <= i - known /\ i - known <= last
      BY <1>7, <1>9
    <3> QED
      BY <3>1
  <2>2. out[k] = delivered[i] /\ Kind(out[k]) = "good"
    BY <1>4, <1>7, <2>1
  <2>3. k \in Entries
    BY <1>1, <1>7, <2>2 DEF Entries, Among, Kind
  <2>4. k \in batch
    BY <1>2, <1>5, <1>7, <2>1, <2>3
  <2>5. k \in Timed
    BY <2>1, <2>2, <2>3, <2>4 DEF Timed, Entries, Among, Kind
  <2> QED
    BY <2>2, <2>5
<1>13. TimedTexts = {TextOfLine(delivered[k]) : k \in Added}
  <2> HIDE DEF Added
  <2> QED
    BY <1>11, <1>12 DEF TimedTexts
<1> QED
  BY <1>7, <1>9, <1>10, <1>13

LEMMA StoreStep ==
    ASSUME LoopInv, StoreChunk
    PROVE  LoopInv'
<1>1. /\ loop = "store" /\ index' = index \cup TimedTexts /\ batch' = batch \ Chunk
      /\ total' = Counted
      /\ UNCHANGED <<tpc, delivered, out, malformed, ignored>>
      /\ batch' = {} => loop' \in {"done", "top"}
      /\ batch' # {} => loop' = "store"
  BY DEF StoreChunk, EndIteration, TailUnchanged, tailVars, tailHistory
<1>2. /\ delivered \in Seq(Seq(Nat)) /\ out \in Seq(Seq(Nat)) /\ Len(out) \in Nat
      /\ Len(delivered) \in Nat /\ Len(out) <= Len(delivered) /\ DOMAIN out = 1 .. Len(out)
  BY DEF LoopInv, HandedOver
<1>3. /\ batch \subseteq Entries /\ batch # {} /\ \A k \in Entries \ batch, j \in batch : k < j
      /\ batch \subseteq 1 .. Len(out) /\ batch \subseteq Nat
  BY <1>1, <1>2 DEF LoopInv, BatchInv, Entries, Among
<1>4. IsFiniteSet(batch) /\ Chunk \subseteq batch
  <2>1. IsFiniteSet(1 .. Len(out))
    BY <1>2, FS_Interval
  <2> QED
    BY <1>3, <2>1, FS_Subset DEF Chunk
<1>5. PICK first : Earliest(first)
  BY <1>3, EarliestExists
<1>6. first \in batch /\ first \in 1 .. Len(out) /\ \A j \in batch : first <= j
  BY <1>3, <1>5 DEF Earliest
<1>7. Known = Len(delivered) - Len(out) /\ Entries' = Entries /\ \A n : GoodUpTo(n)' = GoodUpTo(n)
  BY <1>1 DEF Known, Entries, GoodUpTo
<1>8. HandedOver'
  BY <1>1 DEF LoopInv, HandedOver
<1>9. BatchInv'
  BY <1>1, <1>3, <1>4, <1>7, ChunkInFront DEF BatchInv
<1>10. IndexedInv'
  <2>1. CASE batch' = {}
    <3>1. \A j \in batch : j \in Chunk <=> j <= Len(out)
      BY <1>1, <1>3, <2>1
    <3>2. first <= Len(out) + 1 /\ Len(out) \in 0 .. Len(out)
      BY <1>2, <1>6
    <3>3. index' = GoodUpTo(Known + Len(out))
      BY <1>1, <1>5, <3>1, <3>2, ChunkTexts
    <3>4. Known + Len(out) = Len(delivered)
      BY <1>2, <1>7
    <3>5. Known' = Len(delivered)
      BY <1>1, <2>1 DEF Known
    <3> QED
      BY <1>1, <1>7, <2>1, <3>3, <3>4, <3>5 DEF IndexedInv
  <2>2. CASE batch' # {}
    <3>1. ASSUME NEW k, Earliest(k)' PROVE index' = GoodUpTo(Known + k - 1)
      <4>1. k \in batch \ Chunk /\ k \in 1 .. Len(out) /\ \A j \in batch \ Chunk : k <= j
        BY <1>1, <1>3, <3>1 DEF Earliest
      <4>2. PICK last \in 0 .. Len(out) : k = last + 1
        <5>1. k - 1 \in 0 .. Len(out) /\ k = (k - 1) + 1
          BY <1>2, <4>1
        <5> QED
          BY <5>1
      <4>3. \A j \in batch : j \in Chunk => j < k
        BY <1>3, <1>4, <4>1, ChunkInFront
      <4>4. \A j \in batch : j \in Chunk <=> j <= last
        BY <1>3, <4>1, <4>2, <4>3
      <4>5. first <= last + 1
        BY <1>6, <4>1, <4>2
      <4>6. index' = GoodUpTo(Known + last)
        BY <1>1, <1>5, <4>4, <4>5, ChunkTexts
      <4>7. Known + k - 1 = Known + last
        BY <1>2, <1>7, <4>2
      <4> QED
        BY <4>6, <4>7
    <3>2. Known' = Known
      BY <1>1, <2>2 DEF Known
    <3> QED
      BY <1>1, <1>7, <2>2, <3>1, <3>2 DEF IndexedInv
  <2> QED
    BY <2>1, <2>2
<1>11. CountedInv'
  <2> DEFINE left == batch \ Chunk
             new == TimedTexts \ index
  <2>1. /\ total.inserted \in Int /\ total.deduplicated \in Int /\ total.skipped \in Int
        /\ malformed \in Int /\ ignored \in Int
        /\ IsFiniteSet(index) /\ total.inserted = Cardinality(index)
        /\ Summed + Cardinality(batch) = Len(delivered)
    BY <1>1 DEF LoopInv, CountedInv, InHand
  <2>2. IsFiniteSet(Chunk) /\ IsFiniteSet(left) /\ IsFiniteSet(Timed)
    BY <1>4, FS_Subset DEF Timed
  <2>3. IsFiniteSet(TimedTexts) /\ IsFiniteSet(new)
    <3> DEFINE f == [k \in Timed |-> TextOfLine(out[k])]
    <3>1. f \in Surjection(Timed, TimedTexts)
      BY DEF Surjection, TimedTexts
    <3>2. IsFiniteSet(TimedTexts)
      BY <2>2, <3>1, FS_Surjection
    <3> QED
      BY <3>2, FS_Subset
  <2>4. Cardinality(batch) = Cardinality(Chunk) + Cardinality(left)
    <3>1. batch = Chunk \cup left /\ Chunk \cap left = {}
      BY <1>4
    <3> QED
      BY <2>2, <3>1, DisjointUnion
  <2>5. IsFiniteSet(index') /\ Cardinality(index') = Cardinality(index) + Cardinality(new)
    <3>1. index' = index \cup new /\ index \cap new = {}
      BY <1>1
    <3> QED
      BY <2>1, <2>3, <3>1, DisjointUnion
  <2>6. PICK c \in Nat, l \in Nat, n \in Nat, t \in Nat, i \in Nat :
            /\ c = Cardinality(Chunk) /\ l = Cardinality(left) /\ n = Cardinality(new)
            /\ t = Cardinality(Timed) /\ i = Cardinality(index)
    BY <2>1, <2>2, <2>3, FS_CardinalityType
  <2>7. total' = [inserted |-> total.inserted + n, deduplicated |-> total.deduplicated + t - n,
                  skipped |-> total.skipped + c - t]
    BY <1>1, <2>6 DEF Counted
  <2>8. InHand' = l
    BY <1>1, <2>6, FS_EmptySet DEF InHand
  <2>9. Summed' = Summed + c
    <3>1. PICK p \in Int, q \in Int, r \in Int :
              p = total.inserted /\ q = total.deduplicated /\ r = total.skipped
      BY <2>1
    <3>2. total'.inserted = p + n /\ total'.deduplicated = q + t - n /\ total'.skipped = r + c - t
      BY <2>7, <3>1
    <3>3. PICK m \in Int, g \in Int : m = malformed /\ g = ignored
      BY <2>1
    <3>4. Summed' = ((((p + n) + (q + t - n)) + (r + c - t)) + m) + g /\ Summed = p + q + r + m + g
      BY <1>1, <3>1, <3>2, <3>3 DEF Summed
    <3> QED
      BY <3>4
  <2>10. Summed' + InHand' = Len(delivered)
    <3>1. PICK s \in Int, d \in Nat : s = Summed /\ d = Len(delivered)
      BY <1>2, <2>1 DEF Summed
    <3>2. s + (c + l) = d
      BY <2>1, <2>4, <2>6, <3>1
    <3>3. Summed' = s + c
      BY <2>9, <3>1
    <3>4. (s + c) + l = d
      BY <3>2
    <3> QED
      BY <2>8, <3>1, <3>3, <3>4
  <2>11. /\ total'.inserted = Cardinality(index')
         /\ total' \in [inserted : Int, deduplicated : Int, skipped : Int]
    <3>1. total'.inserted = Cardinality(index')
      BY <2>1, <2>5, <2>6, <2>7
    <3>2. /\ total.inserted + n \in Int /\ total.deduplicated + t - n \in Int
          /\ total.skipped + c - t \in Int
      BY <2>1, <2>6
    <3> QED
      BY <2>7, <3>1, <3>2
  <2> QED
    BY <1>1, <2>1, <2>5, <2>10, <2>11 DEF CountedInv
<1> QED
  BY <1>8, <1>9, <1>10, <1>11 DEF LoopInv

\* The tailer's other system calls, and the failing of one.
LEMMA SystemCallStep ==
    ASSUME LoopInv, TailerRuns, ~Return
    PROVE  LoopInv'
<1>1. UNCHANGED <<loop, delivered, out, batch, index, total, malformed, ignored>>
  BY DEF TailerRuns, OpenFile, SeekToEnd, Stat, HandleRotation, Read, IoError, tailHistory, loopVars
<1>2. tpc' # "idle" => out = <<>>
  BY DEF TailerRuns, OpenFile, SeekToEnd, Stat, HandleRotation, Read, IoError, LoopInv, HandedOver
<1>3. loop' = "open" => tpc' \in {"open", "seek", "idle", "failed"}
  BY <1>1 DEF TailerRuns, OpenFile, SeekToEnd, Stat, HandleRotation, Read, IoError, LoopInv, HandedOver
<1> QED
  BY <1>1, <1>2, <1>3, LoopRests

LEMMA LoopStarts == WatchInit => LoopInv
<1> SUFFICES ASSUME WatchInit PROVE LoopInv
  OBVIOUS
<1>1. /\ delivered = <<>> /\ out = <<>> /\ tpc = "open" /\ loop = "open" /\ batch = {} /\ index = {}
      /\ total = [inserted |-> 0, deduplicated |-> 0, skipped |-> 0] /\ malformed = 0 /\ ignored = 0
  BY DEF WatchInit, TailInit, LoopInit
<1>2. Len(delivered) = 0 /\ <<>> \in Seq(Seq(Nat)) /\ Len(out) = 0 /\ DOMAIN out = {}
  BY <1>1
<1>3. HandedOver /\ BatchInv
  BY <1>1, <1>2 DEF HandedOver, BatchInv
<1>4. IndexedInv
  <2>1. Known = 0 /\ GoodUpTo(0) = {}
    BY <1>1, <1>2 DEF Known, GoodUpTo
  <2> QED
    BY <1>1, <2>1 DEF IndexedInv
<1>5. CountedInv
  BY <1>1, <1>2, FS_EmptySet DEF CountedInv, Summed, InHand
<1> QED
  BY <1>3, <1>4, <1>5 DEF LoopInv

LEMMA LoopNext == LoopInv /\ FollowInv /\ [WatchNext]_allVars => LoopInv'
<1> SUFFICES ASSUME LoopInv, FollowInv, [WatchNext]_allVars PROVE LoopInv'
  OBVIOUS
<1>1. CASE Receive
  BY <1>1, ReceiveStep
<1>2. CASE Parse
  BY <1>2, ParseStep
<1>3. CASE StoreChunk
  BY <1>3, StoreStep
<1>4. CASE TailerRuns
  <2>1. CASE Return
    BY <1>4, <2>1, ReturnStep DEF TailerRuns
  <2> QED
    BY <1>4, <2>1, SystemCallStep
<1>5. CASE LogRuns
  BY <1>5, LoopRests DEF LogRuns, tailVars, tailHistory, loopVars, LoopInv, HandedOver
<1>6. CASE UNCHANGED allVars
  BY <1>6, LoopRests DEF allVars, tailVars, tailHistory, loopVars, LoopInv, HandedOver
<1>7. CASE SetUp
  <2>1. /\ UNCHANGED <<tpc, delivered, out, batch, index, total, malformed, ignored>>
        /\ loop \in {"open", "watch", "handler", "index"}
        /\ loop' \in {"watch", "handler", "index", "top", "failed"}
    BY <1>7 DEF SetUp, TailUnchanged, tailVars, tailHistory
  <2>2. CASE loop' = "failed"
    BY <2>1, <2>2, LoopBreaks
  <2>3. CASE loop' # "failed"
    BY <2>1, <2>3, LoopRests DEF LoopInv, HandedOver
  <2> QED
    BY <2>2, <2>3
<1>8. CASE Top \/ Disconnected
  <2>1. /\ UNCHANGED <<tpc, delivered, out, batch, index, total, malformed, ignored>>
        /\ loop \in {"top", "wait"} /\ loop' \in {"wait", "done"}
    BY <1>8 DEF Top, Disconnected, TailUnchanged, tailVars, tailHistory
  <2> QED
    BY <2>1, LoopRests DEF LoopInv, HandedOver
<1>9. CASE Notify
  BY <1>9, LoopRests DEF Notify, TailUnchanged, tailVars, tailHistory, LoopInv, HandedOver
<1>10. CASE CtrlC
  <2>1. /\ UNCHANGED <<tpc, delivered, out, batch, index, total, malformed, ignored>>
        /\ loop' \in {loop, "killed"}
    BY <1>10 DEF CtrlC, TailUnchanged, tailVars, tailHistory
  <2>2. CASE loop' = loop
    BY <2>1, <2>2, LoopRests DEF LoopInv, HandedOver
  <2>3. CASE loop' = "killed"
    BY <2>1, <2>3, LoopBreaks
  <2> QED
    BY <2>1, <2>2, <2>3
<1>11. CASE ReadFails \/ StoreFails \/ Killed
  BY <1>11, LoopBreaks DEF ReadFails, StoreFails, Killed, TailUnchanged, tailVars, tailHistory
<1> QED
  BY <1>1, <1>2, <1>3, <1>4, <1>5, <1>6, <1>7, <1>8, <1>9, <1>10, <1>11 DEF WatchNext, LoopStep

-----------------------------------------------------------------------------
(* The theorems.                                                           *)

\* What run_watch_loop and ingest_lines do with the lines of every call, at each
\* place of the loop.
THEOREM LoopInvariant == WatchSpec => []LoopInv
<1> QED
  BY LoopStarts, LoopNext, FollowInvariant, PTL DEF WatchSpec

\* Whenever run_watch_loop waits or has ended regularly, every line that
\* read_new_lines returned is in the index or counted as something else, and counted
\* once: for lines, chunks and event limits of any size.
THEOREM FollowLosesNothingHolds == WatchSpec => []FollowLosesNothing
<1> QED
  BY LoopInvariant, LoopInvImplies, PTL

\* At each moment, in the middle of insert_batch and after a failure or a kill too,
\* the index has the good lines of a prefix of what was handed over.
THEOREM NoGapHolds == WatchSpec => []NoGap
<1> QED
  BY LoopInvariant, LoopInvImplies, PTL
=============================================================================
